---------------------------- MODULE RefundPath ----------------------------
(***************************************************************************)
(* The way back from a lock on Bitcoin: the terms under which the client   *)
(* signs TxCancel and its siblings (src/atomic-swap/presign.ts), how it    *)
(* finds TxCancel at the lock address (src/lib/bitcoin/tx-verify.ts), and  *)
(* how it builds, signs and broadcasts the refund                          *)
(* (src/atomic-swap/refund.ts and executeRefund of                         *)
(* src/engine/flows/atomic-flow.ts).  The signature on the refund gives    *)
(* the maker the client's key share s_b.                                   *)
(*                                                                         *)
(* All spends of the lock and of TxCancel's output have the same witness   *)
(* script, so all of them are in the history of the lock address.  Fewer   *)
(* Bitcoin servers than the quorum are wrong: what the provider returns    *)
(* was said by an honest one, which may lag (see QuorumReads).             *)
(*                                                                         *)
(* An operator written just before another of a similar name is its faulty *)
(* twin, to which nothing refers.                                          *)
(***************************************************************************)
EXTENDS Integers, Sequences, FiniteSets

CONSTANTS
  Undefined, Null,           \* a field that is absent, or null
  MinRate, MaxRate,          \* FeePolicy, in sats per vbyte
  VbytesOneOut, VbytesTwoOut,
  DustKey, DustScript,       \* DustPolicy: P2WPKH and P2WSH outputs
  MaxRatioBps,               \* AmnestyPolicy
  MinBlocks, MaxBlocks,      \* bounds of every timelock
  Terms                      \* protocol params a server may hand out

(* The params as the schema of the answer leaves them.                      *)
Fields ==
  LET Optional == Int \cup {Undefined}
      Encsig == {"sound", "bad", Undefined, Null}
  IN  [lock : Nat, refund : Int, cancel : Int, punish : Int,
       amnesty : Optional, partial : Optional, reclaim : Optional,
       withhold : Optional, mercy : Optional, remaining : Optional,
       cancelAfter : Int, punishAfter : Int, full : Encsig, part : Encsig]

ASSUME RefundAssumption ==
  /\ Terms \subseteq Fields
  /\ MinRate \in Nat /\ MaxRate \in Nat /\ MaxRatioBps \in Nat
  /\ VbytesOneOut \in Nat /\ VbytesTwoOut \in Nat /\ VbytesOneOut <= VbytesTwoOut
  /\ DustKey \in Nat /\ DustScript \in Nat
  /\ MinBlocks \in Nat /\ MaxBlocks \in Nat
  /\ Undefined \notin Int /\ Null \notin Int

VARIABLES
  mined, pool,      \* the lock address: confirmed in order, and unconfirmed
  terms,            \* the params the pre-signatures were made for
  cached,           \* the host's copy of the params, Null for none
  pc, given, deposit, taken,   \* a call of executeRefund
  sent, revealed, outcome

chain == <<mined, pool>>
call  == <<given, deposit, taken>>
vars  == <<chain, terms, cached, pc, call, sent, revealed, outcome>>

-----------------------------------------------------------------------------
(* The terms the client signs for.                                          *)
Present(x) == x \notin {Undefined, Null}
Truthy(x)  == x \notin {Undefined, Null, 0}
Num(x)     == IF Present(x) THEN x ELSE 0        \* x ?? 0

FeeInBounds(fee, vbytes) == MinRate * vbytes <= fee /\ fee <= MaxRate * vbytes
TimelockInBounds(blocks) == MinBlocks <= blocks /\ blocks <= MaxBlocks

Amnesty(t)   == Num(t.amnesty)
CancelOut(t) == t.lock - t.cancel

AmnestyUncapped(t) == 0 <= Amnesty(t)
AmnestyCapped(t) ==
  0 <= Amnesty(t) /\ Amnesty(t) * 10000 <= t.lock * MaxRatioBps

SpendsAccepted(t) ==
  /\ FeeInBounds(t.cancel, VbytesOneOut) /\ CancelOut(t) >= DustScript
  /\ FeeInBounds(t.punish, VbytesOneOut) /\ CancelOut(t) - t.punish >= DustKey
  /\ FeeInBounds(t.refund, VbytesOneOut) /\ t.lock - t.refund >= DustKey

(* The partial refund and its children are looked at only when all of them  *)
(* are there.                                                               *)
SignsPartial(t) ==
  /\ Amnesty(t) > 0 /\ Truthy(t.partial) /\ Truthy(t.reclaim)
  /\ Truthy(t.withhold) /\ Truthy(t.mercy) /\ Truthy(t.remaining)

PartialAccepted(t) ==
  /\ FeeInBounds(t.partial, VbytesTwoOut)
  /\ CancelOut(t) - Amnesty(t) - t.partial >= DustKey
  /\ Amnesty(t) >= DustScript
  /\ FeeInBounds(t.reclaim, VbytesOneOut)
  /\ Amnesty(t) - t.reclaim >= DustKey
  /\ FeeInBounds(t.withhold, VbytesOneOut)
  /\ Amnesty(t) - t.withhold >= DustScript
  /\ FeeInBounds(t.mercy, VbytesOneOut)
  /\ Amnesty(t) - t.withhold - t.mercy >= DustKey

computePreSigs(t) ==
  /\ TimelockInBounds(t.cancelAfter) /\ TimelockInBounds(t.punishAfter)
  /\ Present(t.remaining) => TimelockInBounds(t.remaining)
  /\ AmnestyCapped(t) /\ SpendsAccepted(t)
  /\ SignsPartial(t) => PartialAccepted(t)

(* An encsig is "sound" when the maker made it for the refund of the terms  *)
(* that were pre-signed.                                                    *)
Signed(encsig) == encsig \in {"sound", "bad"}

hasRefundEscapeHatch(t) ==
  Signed(t.full) \/ (Signed(t.part) /\ Present(t.amnesty) /\ Present(t.partial))

(* The loop asks for one of the encsigs before it funds.                    *)
Fundable(t) == computePreSigs(t) /\ (Signed(t.full) \/ Signed(t.part))

Init ==
  /\ terms \in {t \in Terms : Fundable(t)}
  /\ mined = <<"lock">> /\ pool = {}
  /\ cached = Null /\ pc = "idle" /\ outcome = "none"
  /\ given = Null /\ deposit = "" /\ taken = Null
  /\ sent = Null /\ revealed = FALSE

-----------------------------------------------------------------------------
(* The chain at the lock address.  "redeem" stands for any other spend of   *)
(* the lock, "stray" for a payment to the address by anyone.                *)
Txs == {"lock", "stray", "cancel", "redeem", "refund", "punish"}
Mined == {mined[i] : i \in 1 .. Len(mined)}
Onchain == Mined \cup pool

LockSpends == {"cancel", "redeem"}
CancelSpends == {"refund", "punish"}
Rivals(tx) == CASE tx \in LockSpends -> LockSpends \ {tx}
                [] tx \in CancelSpends -> CancelSpends \ {tx}
                [] OTHER -> {}
Parents(tx) == IF tx \in CancelSpends THEN {"cancel"} ELSE {"lock"}

Accepts(tx) ==
  tx \notin Onchain /\ Parents(tx) \subseteq Onchain /\ Rivals(tx) \cap Onchain = {}

publish(tx) ==
  /\ tx \in {"stray", "cancel", "redeem", "punish"} /\ Accepts(tx)
  /\ tx = "punish" => "cancel" \in Mined
  /\ pool' = pool \cup {tx}
  /\ UNCHANGED <<mined, terms, cached, pc, call, sent, revealed, outcome>>

mine(tx) ==
  /\ tx \in pool /\ Parents(tx) \subseteq Mined
  /\ mined' = Append(mined, tx) /\ pool' = pool \ {tx}
  /\ UNCHANGED <<terms, cached, pc, call, sent, revealed, outcome>>

-----------------------------------------------------------------------------
Over == pc' = "idle" /\ given' = Null /\ deposit' = "" /\ taken' = Null
End(how) == Over /\ outcome' = how

(* The params: the server's, which the host keeps if they suffice; else the *)
(* host's; else the server's again, which end the call.                     *)
Stripped(t) == [t EXCEPT !.full = Null, !.part = Null]
Raised(t) == [t EXCEPT !.refund = @ + 1,
                       !.partial = IF Present(@) THEN @ + 1 ELSE @]

resolveProtocolParams(p, q) ==
  \/ hasRefundEscapeHatch(p) /\ q = p /\ cached' \in {cached, p}
  \/ /\ ~hasRefundEscapeHatch(p) /\ UNCHANGED cached
     /\ q = IF cached # Null THEN cached ELSE p

(* A refund that was not reported is tried again, by the host or a resume.  *)
MayRefundOnce == outcome = "none"
MayRefund == outcome # "refunded"

(* The depositTxHash of the detail is the server's word.                    *)
executeRefund(p, d) ==
  /\ pc = "idle" /\ MayRefund
  /\ \E q \in {p, cached} :
       /\ resolveProtocolParams(p, q)
       /\ \/ /\ hasRefundEscapeHatch(q)
             /\ given' = q /\ deposit' = d /\ pc' = "history" /\ outcome' = "none"
          \/ ~hasRefundEscapeHatch(q) /\ End("aborted")
  /\ taken' = Null
  /\ UNCHANGED <<chain, terms, sent, revealed>>

detailFails ==
  /\ pc = "idle" /\ MayRefund /\ End("failed")
  /\ UNCHANGED <<chain, terms, cached, sent, revealed>>

(* Entries of the history: a transaction and its height, 0 when it is not   *)
(* confirmed for the server that lists it.                                  *)
AtHeight == {<<mined[i], i>> : i \in 1 .. Len(mined)}
Listable == AtHeight \cup (Onchain \X {0})
FullHistory == AtHeight \cup (pool \X {0})

SpendsFromLock(tx) == tx \in LockSpends \cup CancelSpends

(* The first entry that is not the deposit, or else the first that spends;  *)
(* the order is that of the server whose list comes first, and may be any.  *)
Candidates(S) ==
  LET others == {e \in S : e[1] # deposit}
  IN  IF deposit # "" /\ others # {} THEN others
      ELSE {e \in S : SpendsFromLock(e[1])}

ConfirmedAnyway(e) == TRUE
Confirmed(e) == e[2] > 0

discoverTxCancel(S) ==
  /\ pc = "history"
  /\ \/ /\ Cardinality(S) < 2 \/ Candidates(S) = {}
        /\ End("refused")
     \/ /\ Cardinality(S) >= 2
        /\ \E e \in Candidates(S) :
             \/ /\ Confirmed(e) /\ taken' = e[1] /\ pc' = "raw"
                /\ UNCHANGED <<given, deposit, outcome>>
             \/ ~Confirmed(e) /\ End("refused")
  /\ UNCHANGED <<chain, terms, cached, sent, revealed>>

readTxCancel ==
  /\ pc = "raw"
  /\ \/ SpendsFromLock(taken) /\ pc' = "sign" /\ UNCHANGED <<call, outcome>>
     \/ ~SpendsFromLock(taken) /\ End("refused")
  /\ UNCHANGED <<chain, terms, cached, sent, revealed>>

(* No quorum for an answer.                                                 *)
readFails ==
  /\ pc \in {"history", "raw"} /\ End("failed")
  /\ UNCHANGED <<chain, terms, cached, sent, revealed>>

-----------------------------------------------------------------------------
(* Which refund is built asks for fields that are not undefined; null is    *)
(* one of them, and counts as zero.                                         *)
useAmnesty(t) ==
  t.part # Undefined /\ t.amnesty # Undefined /\ t.partial # Undefined

Refund(t, tx) ==
  LET value == IF tx = "cancel" THEN CancelOut(terms) ELSE terms.lock
  IN  IF useAmnesty(t)
      THEN [spends |-> tx, pays |-> value - Amnesty(t) - Num(t.partial),
            amnesty |-> Amnesty(t)]
      ELSE [spends |-> tx, pays |-> value - t.refund, amnesty |-> 0]

AboveDust(t, r) == r.pays > DustKey /\ (useAmnesty(t) => r.amnesty > DustScript)

EncsigHolds(t, r) ==
  (IF useAmnesty(t) THEN t.part ELSE t.full) = "sound"
EncsigVerifies(t, r) ==
  /\ (IF useAmnesty(t) THEN t.part ELSE t.full) = "sound"
  /\ r = Refund(terms, "cancel")

signRefund ==
  /\ pc = "sign"
  /\ LET r == Refund(given, taken)
     IN  \/ ~AboveDust(given, r) /\ End("dust") /\ UNCHANGED sent
         \/ AboveDust(given, r) /\ ~EncsigVerifies(given, r)
            /\ End("encsig") /\ UNCHANGED sent
         \/ AboveDust(given, r) /\ EncsigVerifies(given, r)
            /\ sent' = r /\ pc' = "send" /\ UNCHANGED <<call, outcome>>
  /\ UNCHANGED <<chain, terms, cached, revealed>>

(* The servers in turn; the answer may be lost.                             *)
broadcast(how) ==
  /\ pc = "send" /\ End(how)
  /\ \/ revealed' = TRUE /\ Accepts("refund") /\ pool' = pool \cup {"refund"}
     \/ revealed' = TRUE /\ "refund" \in Onchain /\ UNCHANGED pool
     \/ how = "failed" /\ revealed' \in {revealed, TRUE} /\ UNCHANGED pool
  /\ UNCHANGED <<mined, terms, cached, sent>>

crash ==
  /\ pc # "idle" /\ Over
  /\ UNCHANGED <<chain, terms, cached, sent, revealed, outcome>>

Steps ==
  \/ \E S \in SUBSET Listable : discoverTxCancel(S)
  \/ readTxCancel \/ readFails \/ signRefund
  \/ \E how \in {"refunded", "failed"} : broadcast(how)

Next ==
  \/ \E tx \in Txs : publish(tx) \/ mine(tx)
  \/ \E p \in {terms, Stripped(terms), Raised(terms)}, d \in {"", "lock", "cancel"} :
       executeRefund(p, d)
  \/ detailFails \/ Steps \/ crash

Spec == Init /\ [][Next]_vars

(* The hypothesis of RefundGetsThrough, which the specification does not    *)
(* promise.  What a call awaits comes back; the host tries again, and again *)
(* and again is served well.                                                *)
WellServed == given = terms /\ deposit = "lock"
Served ==
  /\ WF_vars(Steps)
  /\ SF_vars(executeRefund(terms, "lock"))
  /\ SF_vars(WellServed /\ discoverTxCancel(FullHistory))
  /\ SF_vars(WellServed /\ readTxCancel) /\ SF_vars(WellServed /\ signRefund)
  /\ SF_vars(WellServed /\ broadcast("refunded"))

-----------------------------------------------------------------------------
TypeOK ==
  /\ Mined \subseteq Txs /\ pool \subseteq Txs
  /\ pc \in {"idle", "history", "raw", "sign", "send"}
  /\ deposit \in {"", "lock", "cancel"} /\ taken \in Txs \cup {Null}
  /\ revealed \in BOOLEAN
  /\ outcome \in {"none", "aborted", "refused", "failed", "dust", "encsig",
                  "refunded"}

(* The client's key share leaves only when TxCancel is confirmed, whatever  *)
(* the server says of the deposit and of the params, however far the        *)
(* servers of the history lag, and whoever pays to or spends from the lock  *)
(* address meanwhile.                                                       *)
KeyShareGated == revealed => "cancel" \in Mined

(* A refund that is signed pays back the lock but for fees within the       *)
(* policy, and for an amnesty within its cap; no output of it is dust.  Its *)
(* fee is bounded when it is a full refund, or a partial one all of whose   *)
(* children were in the terms: only then was the fee looked at.             *)
FeeExamined == useAmnesty(terms) => SignsPartial(terms)
RefundHonoursTerms ==
  sent # Null =>
    /\ sent.pays > DustKey /\ (sent.amnesty = 0 \/ sent.amnesty > DustScript)
    /\ sent.amnesty * 10000 <= terms.lock * MaxRatioBps
    /\ FeeExamined => terms.lock - sent.pays - sent.amnesty
                        <= MaxRate * (VbytesOneOut + VbytesTwoOut)

(* When TxCancel is confirmed, and nobody pays to the lock address, calls   *)
(* that are repeated and are served well bring the refund out before the    *)
(* punishment, or the maker punishes: no lost broadcast, lagging history or *)
(* params handed out meanwhile bar a later call.                            *)
Refundable ==
  /\ AboveDust(terms, Refund(terms, "cancel"))
  /\ EncsigVerifies(terms, Refund(terms, "cancel"))
RefundGetsThrough ==
  Served /\ []("stray" \notin Onchain) =>
    ((Refundable /\ "cancel" \in Mined) ~> {"refund", "punish"} \cap Onchain # {})

-----------------------------------------------------------------------------
(* Where the lock is.  TxCancel counts when it is confirmed, a spend of its *)
(* output as soon as nodes accept it.                                       *)
BtcState ==
  IF "refund" \in Onchain THEN "refunded"
  ELSE IF "punish" \in Onchain THEN "punished"
  ELSE IF "redeem" \in Onchain THEN "redeemed"
  ELSE IF "cancel" \in Mined THEN "cancelled" ELSE "locked"

Promise == INSTANCE RefundPromise WITH
  btc <- BtcState, told <- (outcome = "refunded")

(* Refunds that are tried again, with lagging histories, lost answers and   *)
(* crashes, keep the promise that AtomicFlow keeps: nothing is broadcast    *)
(* before TxCancel is confirmed or after the lock was redeemed, and what is *)
(* reported as refunded is.                                                 *)
KeepsRefundPromise == Promise!Spec
=============================================================================
