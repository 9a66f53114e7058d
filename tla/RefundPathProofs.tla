------------------------- MODULE RefundPathProofs -------------------------
(***************************************************************************)
(* RefundPath for all terms and policies: the key share waits for TxCancel *)
(* and the refund is the one whose terms were accepted.                    *)
(***************************************************************************)
EXTENDS RefundPath, TLAPS

TypeInv ==
  /\ mined \in Seq(Txs) /\ pool \subseteq Txs
  /\ pc \in {"idle", "history", "raw", "sign", "send"}
  /\ deposit \in {"", "lock", "cancel"} /\ taken \in Txs \cup {Null}
  /\ revealed \in BOOLEAN
  /\ outcome \in {"none", "aborted", "refused", "failed", "dust", "encsig",
                  "refunded"}

(* What the call has found of the chain: a transaction that is confirmed,   *)
(* and TxCancel itself once the encsig was verified on a spend of it.       *)
Found ==
  /\ pc \in {"raw", "sign"} => taken \in Mined
  /\ pc = "send" => "cancel" \in Mined

(* What was signed: the refund of the terms, none of its outputs dust.      *)
Sound ==
  /\ terms \in Terms /\ Fundable(terms)
  /\ sent # Null =>
       /\ sent = Refund(terms, "cancel") /\ sent.pays > DustKey
       /\ sent.amnesty = 0 \/ sent.amnesty > DustScript

IInv == TypeInv /\ Found /\ KeyShareGated /\ Sound

USE RefundAssumption

LEMMA MinedIsRange ==
  ASSUME mined \in Seq(Txs), NEW tx \in Txs, mined' = Append(mined, tx)
  PROVE  Mined' = Mined \cup {tx} /\ mined' \in Seq(Txs)
BY DEF Mined

(* Refund reads the variable terms, which no step changes.                  *)
LEMMA SoundStays ==
  ASSUME Sound, UNCHANGED <<terms, sent>>
  PROVE  Sound'
<1>1. Refund(terms, "cancel")' = Refund(terms, "cancel")
  BY DEF Refund
<1>2. terms' = terms /\ sent' = sent
  OBVIOUS
<1> QED BY <1>1, <1>2 DEF Sound

(* The facts of a call stand while it stays where it is and the chain grows.*)
LEMMA FoundStays ==
  ASSUME Found, KeyShareGated, UNCHANGED <<pc, taken, revealed>>, Mined \subseteq Mined'
  PROVE  Found' /\ KeyShareGated'
BY DEF Found, KeyShareGated

LEMMA InitIInv == Init => IInv
<1> SUFFICES ASSUME Init PROVE IInv
  OBVIOUS
<1>1. /\ mined = <<"lock">> /\ pool = {} /\ pc = "idle" /\ deposit = ""
      /\ taken = Null /\ outcome = "none" /\ sent = Null
  BY DEF Init
<1>2. revealed = FALSE
  BY Zenon DEF Init
<1>3. TypeInv
  <2>1. "lock" \in Txs
    BY DEF Txs
  <2>2. \A tx \in Txs : <<tx>> \in Seq(Txs)
    OBVIOUS
  <2>3. revealed \in BOOLEAN
    BY <1>2
  <2> QED BY <1>1, <2>1, <2>2, <2>3 DEF TypeInv
<1>4. Found /\ KeyShareGated
  BY <1>1, <1>2 DEF Found, KeyShareGated
<1>5. Sound
  BY <1>1 DEF Init, Sound
<1> QED BY <1>3, <1>4, <1>5 DEF IInv

(* Every end of a call, and every step that leaves it, keeps the invariant  *)
(* when the chain only grows and nothing is signed or revealed.             *)
LEMMA CallOver ==
  ASSUME IInv, Over, UNCHANGED <<mined, pool, terms, sent, revealed>>,
         outcome' \in {"none", "aborted", "refused", "failed", "dust", "encsig",
                       "refunded"}
  PROVE  IInv'
<1>1. pc' = "idle" /\ deposit' = "" /\ taken' = Null
  BY DEF Over
<1>2. Mined' = Mined
  BY DEF Mined
<1>3. TypeInv'
  BY <1>1 DEF IInv, TypeInv
<1>4. Found' /\ KeyShareGated'
  BY <1>1, <1>2 DEF IInv, Found, KeyShareGated
<1>5. Sound'
  BY SoundStays DEF IInv
<1> QED BY <1>3, <1>4, <1>5 DEF IInv

LEMMA MinedInTxs == IInv => Mined \subseteq Txs
<1> SUFFICES ASSUME IInv, NEW i \in 1 .. Len(mined) PROVE mined[i] \in Txs
  BY DEF Mined
<1>1. mined \in Seq(Txs)
  BY DEF IInv, TypeInv
<1> QED BY <1>1

(* A confirmed entry that a server may list is confirmed on the chain.      *)
LEMMA ConfirmedIsMined ==
  ASSUME IInv, NEW S \in SUBSET Listable, NEW e \in Candidates(S), Confirmed(e)
  PROVE  e[1] \in Mined /\ e[1] \in Txs
<1>1. e \in Listable
  BY DEF Candidates
<1>2. e \in AtHeight
  BY <1>1 DEF Listable, Confirmed
<1>3. PICK i \in 1 .. Len(mined) : e = <<mined[i], i>>
  BY <1>2 DEF AtHeight
<1> QED BY <1>3, MinedInTxs DEF Mined

(* The encsig is the one of the refund of TxCancel, under the terms.        *)
LEMMA SignedIsAgreed ==
  ASSUME IInv, NEW r, r = Refund(given, taken), EncsigVerifies(given, r),
         AboveDust(given, r)
  PROVE  /\ taken = "cancel" /\ r = Refund(terms, "cancel")
         /\ r.pays > DustKey /\ (r.amnesty = 0 \/ r.amnesty > DustScript)
<1>1. r = Refund(terms, "cancel")
  BY DEF EncsigVerifies
<1>2. r.spends = "cancel"
  BY <1>1 DEF Refund
<1>3. r.spends = taken
  BY DEF Refund
<1>4. r.pays > DustKey
  BY DEF AboveDust
<1>5. CASE useAmnesty(given)
  BY <1>1, <1>2, <1>3, <1>4, <1>5 DEF AboveDust
<1>6. CASE ~useAmnesty(given)
  <2>1. r.amnesty = 0
    BY <1>6 DEF Refund
  <2> QED BY <1>1, <1>2, <1>3, <1>4, <2>1
<1> QED BY <1>5, <1>6

LEMMA NextIInv == IInv /\ [Next]_vars => IInv'
<1> SUFFICES ASSUME IInv, [Next]_vars PROVE IInv'
  OBVIOUS
<1>1. ASSUME NEW tx \in Txs, publish(tx) PROVE IInv'
  <2>1. /\ UNCHANGED <<mined, terms, pc, given, deposit, taken, sent, revealed, outcome>>
        /\ pool' = pool \cup {tx}
    BY <1>1 DEF publish, call
  <2>2. Mined' = Mined
    BY <2>1 DEF Mined
  <2>3. TypeInv'
    BY <2>1 DEF IInv, TypeInv
  <2> QED BY <2>1, <2>2, <2>3, SoundStays, FoundStays DEF IInv
<1>2. ASSUME NEW tx \in Txs, mine(tx) PROVE IInv'
  <2>1. /\ UNCHANGED <<terms, pc, given, deposit, taken, sent, revealed, outcome>>
        /\ mined' = Append(mined, tx) /\ pool' = pool \ {tx}
    BY <1>2 DEF mine, call
  <2>2. Mined' = Mined \cup {tx} /\ mined' \in Seq(Txs)
    BY <2>1, MinedIsRange DEF IInv, TypeInv
  <2>3. TypeInv'
    BY <2>1, <2>2 DEF IInv, TypeInv
  <2> QED BY <2>1, <2>2, <2>3, SoundStays, FoundStays DEF IInv
<1>3. ASSUME NEW p, NEW d \in {"", "lock", "cancel"}, executeRefund(p, d)
      PROVE  IInv'
  <2>1. /\ UNCHANGED <<mined, pool, terms, sent, revealed>> /\ taken' = Null
        /\ \/ deposit' = d /\ pc' = "history" /\ outcome' = "none"
           \/ End("aborted")
    BY <1>3 DEF executeRefund, chain
  <2>2. CASE End("aborted")
    BY <2>1, <2>2, CallOver DEF End
  <2>3. CASE deposit' = d /\ pc' = "history" /\ outcome' = "none"
    <3>1. Mined' = Mined
      BY <2>1 DEF Mined
    <3>2. TypeInv'
      BY <2>1, <2>3 DEF IInv, TypeInv
    <3>3. Found' /\ KeyShareGated'
      BY <2>1, <2>3, <3>1 DEF IInv, Found, KeyShareGated
    <3> QED BY <2>1, <3>2, <3>3, SoundStays DEF IInv
  <2> QED BY <2>1, <2>2, <2>3
<1>4. CASE detailFails \/ readFails
  <2>1. UNCHANGED <<mined, pool, terms, sent, revealed>> /\ End("failed")
    BY <1>4 DEF detailFails, readFails, chain
  <2> QED BY <2>1, CallOver DEF End
<1>5. ASSUME NEW S \in SUBSET Listable, discoverTxCancel(S) PROVE IInv'
  <2>1. UNCHANGED <<mined, pool, terms, sent, revealed>>
    BY <1>5 DEF discoverTxCancel, chain
  <2>2. CASE End("refused")
    BY <2>1, <2>2, CallOver DEF End
  <2>3. CASE \E e \in Candidates(S) :
               /\ Confirmed(e) /\ taken' = e[1] /\ pc' = "raw"
               /\ UNCHANGED <<given, deposit, outcome>>
    <3>1. PICK e \in Candidates(S) :
            /\ Confirmed(e) /\ taken' = e[1] /\ pc' = "raw"
            /\ UNCHANGED <<given, deposit, outcome>>
      BY <2>3
    <3>2. taken' \in Mined /\ taken' \in Txs
      BY <3>1, ConfirmedIsMined
    <3>3. Mined' = Mined
      BY <2>1 DEF Mined
    <3>4. TypeInv'
      BY <2>1, <3>1, <3>2 DEF IInv, TypeInv
    <3>5. Found' /\ KeyShareGated'
      BY <2>1, <3>1, <3>2, <3>3 DEF IInv, Found, KeyShareGated
    <3> QED BY <2>1, <3>4, <3>5, SoundStays DEF IInv
  <2> QED BY <1>5, <2>2, <2>3 DEF discoverTxCancel
<1>6. CASE readTxCancel
  <2>1. UNCHANGED <<mined, pool, terms, sent, revealed>> /\ pc = "raw"
    BY <1>6 DEF readTxCancel, chain
  <2>2. CASE End("refused")
    BY <2>1, <2>2, CallOver DEF End
  <2>3. CASE pc' = "sign" /\ UNCHANGED <<call, outcome>>
    <3>1. Mined' = Mined
      BY <2>1 DEF Mined
    <3>2. TypeInv'
      BY <2>1, <2>3 DEF IInv, TypeInv, call
    <3>3. Found' /\ KeyShareGated'
      BY <2>1, <2>3, <3>1 DEF IInv, Found, KeyShareGated, call
    <3> QED BY <2>1, <3>2, <3>3, SoundStays DEF IInv
  <2> QED BY <1>6, <2>2, <2>3 DEF readTxCancel
<1>7. CASE signRefund
  <2> DEFINE r == Refund(given, taken)
  <2>1. UNCHANGED <<mined, pool, terms, revealed>> /\ pc = "sign"
    BY <1>7 DEF signRefund, chain
  <2>2. \/ End("dust") /\ UNCHANGED sent
        \/ End("encsig") /\ UNCHANGED sent
        \/ AboveDust(given, r) /\ EncsigVerifies(given, r)
           /\ sent' = r /\ pc' = "send" /\ UNCHANGED <<call, outcome>>
    BY <1>7 DEF signRefund
  <2>3. CASE (End("dust") \/ End("encsig")) /\ UNCHANGED sent
    BY <2>1, <2>3, CallOver DEF End
  <2>4. CASE AboveDust(given, r) /\ EncsigVerifies(given, r)
             /\ sent' = r /\ pc' = "send" /\ UNCHANGED <<call, outcome>>
    <3>1. /\ taken = "cancel" /\ r = Refund(terms, "cancel")
          /\ r.pays > DustKey /\ (r.amnesty = 0 \/ r.amnesty > DustScript)
      BY <2>4, SignedIsAgreed
    <3>2. "cancel" \in Mined /\ Mined' = Mined
      BY <2>1, <3>1 DEF IInv, Found, Mined
    <3>3. TypeInv'
      BY <2>1, <2>4 DEF IInv, TypeInv, call
    <3>4. Found' /\ KeyShareGated'
      BY <2>1, <2>4, <3>2 DEF IInv, Found, KeyShareGated
    <3>5. sent' = Refund(terms, "cancel")' /\ Fundable(terms)'
      BY <2>1, <2>4, <3>1 DEF Refund, IInv, Sound
    <3>6. Sound'
      BY <2>1, <2>4, <3>1, <3>5 DEF IInv, Sound
    <3> QED BY <3>3, <3>4, <3>6 DEF IInv
  <2> QED BY <2>2, <2>3, <2>4
<1>8. ASSUME NEW how \in {"refunded", "failed"}, broadcast(how) PROVE IInv'
  <2>1. /\ UNCHANGED <<mined, terms, sent>> /\ pc = "send" /\ revealed' \in BOOLEAN
        /\ pool' \in {pool, pool \cup {"refund"}}
        /\ pc' = "idle" /\ deposit' = "" /\ taken' = Null /\ outcome' = how
    BY <1>8 DEF broadcast, End, Over, IInv, TypeInv
  <2>2. Mined' = Mined /\ "cancel" \in Mined
    BY <2>1 DEF Mined, IInv, Found
  <2>3. TypeInv'
    BY <2>1 DEF IInv, TypeInv, Txs
  <2>4. Found' /\ KeyShareGated'
    BY <2>1, <2>2 DEF Found, KeyShareGated
  <2> QED BY <2>1, <2>3, <2>4, SoundStays DEF IInv
<1>9. CASE crash
  <2>1. UNCHANGED <<mined, pool, terms, sent, revealed, outcome>> /\ Over
    BY <1>9 DEF crash, chain
  <2> QED BY <2>1, CallOver DEF IInv, TypeInv
<1>10. CASE UNCHANGED vars
  <2>1. UNCHANGED <<mined, pool, terms, pc, given, deposit, taken, sent, revealed, outcome>>
    BY <1>10 DEF vars, chain, call
  <2>2. Mined' = Mined
    BY <2>1 DEF Mined
  <2>3. TypeInv'
    BY <2>1 DEF IInv, TypeInv
  <2> QED BY <2>1, <2>2, <2>3, SoundStays, FoundStays DEF IInv
<1> QED BY <1>1, <1>2, <1>3, <1>4, <1>5, <1>6, <1>7, <1>8, <1>9, <1>10 DEF Next, Steps

(* What a call knows of the chain, and what it signed: the inductive        *)
(* invariant.                                                               *)
THEOREM Invariant == Spec => []IInv
BY InitIInv, NextIInv, PTL DEF Spec

(* The history of the lock address holds the transactions of the protocol,  *)
(* and a call is at one of its awaits.                                      *)
THEOREM TypeCorrect == Spec => []TypeOK
<1>1. IInv => TypeOK
  <2> SUFFICES ASSUME IInv PROVE TypeOK
    OBVIOUS
  <2>1. Mined \subseteq Txs
    BY MinedInTxs
  <2> QED BY <2>1 DEF IInv, TypeInv, TypeOK
<1> QED BY <1>1, Invariant, PTL

(* For any terms, any history and any params a server hands out later: the  *)
(* client's key share leaves after TxCancel is confirmed, never before.     *)
THEOREM KeyShareWaits == Spec => []KeyShareGated
<1>1. IInv => KeyShareGated
  BY DEF IInv
<1> QED BY <1>1, Invariant, PTL

(* What the checks at /presigs say of the fees of the refund.               *)
LEMMA FeesBounded ==
  ASSUME terms \in Terms, computePreSigs(terms), FeeExamined
  PROVE  LET r == Refund(terms, "cancel")
         IN  terms.lock - r.pays - r.amnesty <= MaxRate * (VbytesOneOut + VbytesTwoOut)
<1>1. /\ terms.lock \in Nat /\ terms.cancel \in Int /\ terms.refund \in Int
      /\ terms.amnesty \in Int \cup {Undefined, Null}
      /\ terms.partial \in Int \cup {Undefined, Null}
  BY DEF Fields
<1>2. /\ terms.cancel <= MaxRate * VbytesOneOut
      /\ terms.refund <= MaxRate * VbytesOneOut
  BY DEF computePreSigs, SpendsAccepted, FeeInBounds
<1>3. MaxRate * (VbytesOneOut + VbytesTwoOut) = MaxRate * VbytesOneOut + MaxRate * VbytesTwoOut
  OBVIOUS
<1>4. MaxRate * VbytesOneOut <= MaxRate * VbytesTwoOut
  OBVIOUS
<1>5. Amnesty(terms) \in Int /\ Num(terms.partial) \in Int
  BY <1>1 DEF Amnesty, Num, Present
<1>6. CASE useAmnesty(terms)
  <2>1. SignsPartial(terms) /\ PartialAccepted(terms)
    BY <1>6 DEF FeeExamined, computePreSigs
  <2>2. Num(terms.partial) <= MaxRate * VbytesTwoOut
    BY <2>1 DEF SignsPartial, PartialAccepted, FeeInBounds, Truthy, Num, Present
  <2>3. /\ Refund(terms, "cancel").pays = terms.lock - terms.cancel - Amnesty(terms) - Num(terms.partial)
        /\ Refund(terms, "cancel").amnesty = Amnesty(terms)
    BY <1>6 DEF Refund, CancelOut
  <2> QED BY <1>1, <1>2, <1>3, <1>5, <2>2, <2>3
<1>7. CASE ~useAmnesty(terms)
  <2>1. /\ Refund(terms, "cancel").pays = terms.lock - terms.cancel - terms.refund
        /\ Refund(terms, "cancel").amnesty = 0
    BY <1>7 DEF Refund, CancelOut
  <2> QED BY <1>1, <1>2, <1>3, <1>4, <2>1
<1> QED BY <1>6, <1>7

(* For any policy and any terms: what is signed is above dust, gives away   *)
(* no more than the cap, and its fees, where they were looked at, are       *)
(* within the policy.                                                       *)
THEOREM TermsAreHonoured == Spec => []RefundHonoursTerms
<1>1. IInv => RefundHonoursTerms
  <2> SUFFICES ASSUME IInv, sent # Null
               PROVE  /\ sent.pays > DustKey /\ (sent.amnesty = 0 \/ sent.amnesty > DustScript)
                      /\ sent.amnesty * 10000 <= terms.lock * MaxRatioBps
                      /\ FeeExamined => terms.lock - sent.pays - sent.amnesty
                                          <= MaxRate * (VbytesOneOut + VbytesTwoOut)
    BY DEF RefundHonoursTerms
  <2>1. /\ sent = Refund(terms, "cancel") /\ sent.pays > DustKey
        /\ sent.amnesty = 0 \/ sent.amnesty > DustScript
        /\ terms \in Terms /\ computePreSigs(terms)
    BY DEF IInv, Sound, Fundable
  <2>2. sent.amnesty \in {0, Amnesty(terms)}
    BY <2>1 DEF Refund
  <2>3. 0 <= terms.lock * MaxRatioBps
    <3>1. terms.lock \in Nat
      BY <2>1 DEF Fields
    <3> QED BY <3>1
  <2>4. sent.amnesty * 10000 <= terms.lock * MaxRatioBps
    BY <2>1, <2>2, <2>3 DEF computePreSigs, AmnestyCapped
  <2> QED BY <2>1, <2>4, FeesBounded
<1> QED BY <1>1, Invariant, PTL

-----------------------------------------------------------------------------
(* What nodes accept excludes its rival, and only a confirmed TxCancel is   *)
(* spent.                                                                   *)
Clean == /\ ~(LockSpends \subseteq Onchain)
         /\ ~(CancelSpends \subseteq Onchain)
Lineage == CancelSpends \cap Onchain # {} => "cancel" \in Mined

(* A refund that was reported is on its way into the chain.                 *)
Reported == outcome = "refunded" => "refund" \in Onchain

Settled == IInv /\ Clean /\ Lineage /\ Reported

LEMMA RivalsAre ==
  /\ Rivals("cancel") = {"redeem"} /\ Rivals("redeem") = {"cancel"}
  /\ Rivals("refund") = {"punish"} /\ Rivals("punish") = {"refund"}
<1>1. Rivals("cancel") = LockSpends \ {"cancel"} /\ Rivals("redeem") = LockSpends \ {"redeem"}
  BY DEF Rivals, LockSpends, CancelSpends
<1>2. Rivals("refund") = CancelSpends \ {"refund"} /\ Rivals("punish") = CancelSpends \ {"punish"}
  BY DEF Rivals, LockSpends, CancelSpends
<1> QED BY <1>1, <1>2 DEF LockSpends, CancelSpends

(* What one step does to the chain.                                         *)
Extends(tx) == Accepts(tx) /\ Mined' = Mined /\ Onchain' = Onchain \cup {tx}
Grows ==
  \/ \E tx \in {"stray", "cancel", "redeem"} : Extends(tx)
  \/ Extends("punish") /\ "cancel" \in Mined
  \/ Extends("refund") /\ "cancel" \in Mined
  \/ Onchain' = Onchain /\ (Mined' = Mined \/ \E tx \in Onchain : Mined' = Mined \cup {tx})

LEMMA ChainStep ==
  ASSUME IInv, [Next]_vars
  PROVE  Grows /\ (outcome' = "refunded" => outcome = "refunded" \/ "refund" \in Onchain')
<1>1. ASSUME NEW tx \in Txs, publish(tx)
      PROVE  Grows /\ outcome' = outcome
  <2>1. /\ tx \in {"stray", "cancel", "redeem", "punish"} /\ Accepts(tx)
        /\ tx = "punish" => "cancel" \in Mined
        /\ pool' = pool \cup {tx} /\ mined' = mined /\ outcome' = outcome
    BY <1>1 DEF publish
  <2>2. Extends(tx)
    BY <2>1 DEF Extends, Onchain, Mined
  <2> QED BY <2>1, <2>2 DEF Grows
<1>2. ASSUME NEW tx \in Txs, mine(tx)
      PROVE  Grows /\ outcome' = outcome
  <2>1. /\ tx \in pool /\ pool' = pool \ {tx} /\ outcome' = outcome
        /\ mined' = Append(mined, tx)
    BY <1>2 DEF mine
  <2>2. Mined' = Mined \cup {tx}
    BY <2>1, MinedIsRange DEF IInv, TypeInv
  <2>3. Onchain' = Onchain /\ tx \in Onchain
    BY <2>1, <2>2 DEF Onchain
  <2> QED BY <2>1, <2>2, <2>3 DEF Grows
<1>3. ASSUME UNCHANGED <<mined, pool>>
      PROVE  Grows
  BY <1>3 DEF Grows, Onchain, Mined
<1>4. ASSUME NEW p, NEW d, executeRefund(p, d)
      PROVE  UNCHANGED <<mined, pool>> /\ outcome' # "refunded"
  BY <1>4 DEF executeRefund, End, chain
<1>5. ASSUME detailFails \/ readFails \/ readTxCancel \/ signRefund \/ crash
      PROVE  UNCHANGED <<mined, pool>> /\ (outcome' = "refunded" => outcome = "refunded")
  BY <1>5 DEF detailFails, readFails, readTxCancel, signRefund, crash, End, chain
<1>6. ASSUME NEW S \in SUBSET Listable, discoverTxCancel(S)
      PROVE  UNCHANGED <<mined, pool>> /\ (outcome' = "refunded" => outcome = "refunded")
  BY <1>6 DEF discoverTxCancel, End, chain
<1>7. ASSUME NEW how \in {"refunded", "failed"}, broadcast(how)
      PROVE  Grows /\ (outcome' = "refunded" => "refund" \in Onchain')
  <2>1. /\ "cancel" \in Mined /\ mined' = mined /\ Mined' = Mined /\ outcome' = how
        /\ \/ Accepts("refund") /\ pool' = pool \cup {"refund"}
           \/ "refund" \in Onchain /\ UNCHANGED pool
           \/ how = "failed" /\ UNCHANGED pool
    BY <1>7 DEF broadcast, End, IInv, Found, Mined
  <2>2. CASE Accepts("refund") /\ pool' = pool \cup {"refund"}
    <3>1. Extends("refund")
      BY <2>1, <2>2 DEF Extends, Onchain
    <3> QED BY <2>1, <3>1 DEF Grows, Extends
  <2>3. CASE UNCHANGED pool /\ ("refund" \in Onchain \/ how = "failed")
    <3>1. Onchain' = Onchain
      BY <2>1, <2>3 DEF Onchain
    <3> QED BY <2>1, <2>3, <3>1 DEF Grows
  <2> QED BY <2>1, <2>2, <2>3
<1>8. CASE UNCHANGED vars
  BY <1>3, <1>8 DEF vars, chain
<1> QED BY <1>1, <1>2, <1>3, <1>4, <1>5, <1>6, <1>7, <1>8 DEF Next, Steps

LEMMA SettledStays ==
  ASSUME Settled, [Next]_vars
  PROVE  Settled'
<1>1. IInv'
  BY NextIInv DEF Settled
<1>2. Grows /\ (outcome' = "refunded" => outcome = "refunded" \/ "refund" \in Onchain')
  BY ChainStep DEF Settled
<1>3. Clean'
  BY <1>2, RivalsAre DEF Settled, Clean, Grows, Extends, Accepts, LockSpends, CancelSpends
<1>4. Lineage'
  BY <1>2, RivalsAre DEF Settled, Lineage, Grows, Extends, Accepts, CancelSpends
<1>5. Reported'
  BY <1>2 DEF Settled, Reported, Grows, Extends
<1> QED BY <1>1, <1>3, <1>4, <1>5 DEF Settled

LEMMA InitSettled == Init => Settled
<1> SUFFICES ASSUME Init PROVE Settled
  OBVIOUS
<1>1. mined = <<"lock">> /\ pool = {} /\ outcome = "none"
  BY DEF Init
<1>2. Onchain = {"lock"}
  <2>1. Mined = {"lock"}
    BY <1>1 DEF Mined
  <2> QED BY <1>1, <2>1 DEF Onchain
<1>3. Clean /\ Lineage /\ Reported
  BY <1>1, <1>2 DEF Clean, Lineage, Reported, LockSpends, CancelSpends
<1> QED BY <1>3, InitIInv DEF Settled

LEMMA AlwaysSettled == Spec => []Settled
BY InitSettled, SettledStays, PTL DEF Spec

(* One step of the chain is one of the promise, or none.                    *)
LEMMA PromiseStep ==
  ASSUME Settled, Settled', Grows
  PROVE  [Promise!Next]_(Promise!vars)
<1> DEFINE told == outcome = "refunded"
<1>1. told => BtcState = "refunded"
  BY DEF Settled, Reported, BtcState
<1>2. told' => BtcState' = "refunded"
  BY DEF Settled, Reported, BtcState
<1>3. CASE BtcState' = BtcState
  <2>1. CASE BtcState = "refunded"
    BY <1>3, <2>1 DEF Promise!Next, Promise!Tell, Promise!vars
  <2>2. CASE BtcState # "refunded"
    BY <1>1, <1>2, <1>3, <2>2 DEF Promise!vars
  <2> QED BY <2>1, <2>2
<1>4. CASE BtcState' # BtcState
  <2> USE DEF Settled, Clean, Lineage, LockSpends, CancelSpends
  <2>1. \/ BtcState = "locked" /\ BtcState' = "redeemed"
        \/ BtcState = "locked" /\ BtcState' = "cancelled"
        \/ BtcState = "cancelled" /\ BtcState' = "punished"
        \/ BtcState = "cancelled" /\ BtcState' = "refunded"
    <3>1. ASSUME NEW tx \in {"stray", "cancel", "redeem"}, Extends(tx)
          PROVE  BtcState = "locked" /\ BtcState' = "redeemed"
      <4>1. tx = "redeem"
        BY <1>4, <3>1 DEF Extends, BtcState
      <4>2. "cancel" \notin Onchain /\ "redeem" \notin Onchain
        BY <3>1, <4>1, RivalsAre DEF Extends, Accepts
      <4>3. "cancel" \notin Mined /\ "refund" \notin Onchain /\ "punish" \notin Onchain
        BY <4>2 DEF Onchain
      <4> QED BY <3>1, <4>1, <4>2, <4>3 DEF Extends, BtcState
    <3>2. ASSUME Extends("punish"), "cancel" \in Mined
          PROVE  BtcState = "cancelled" /\ BtcState' = "punished"
      BY <3>2, RivalsAre DEF Extends, Accepts, BtcState, Onchain
    <3>3. ASSUME Extends("refund"), "cancel" \in Mined
          PROVE  BtcState = "cancelled" /\ BtcState' = "refunded"
      BY <3>3, RivalsAre DEF Extends, Accepts, BtcState, Onchain
    <3>4. ASSUME Onchain' = Onchain, NEW tx \in Onchain, Mined' = Mined \cup {tx}
          PROVE  BtcState = "locked" /\ BtcState' = "cancelled"
      BY <1>4, <3>4 DEF BtcState
    <3>5. ~(Onchain' = Onchain /\ Mined' = Mined)
      BY <1>4 DEF BtcState
    <3> QED BY <3>1, <3>2, <3>3, <3>4, <3>5 DEF Grows
  <2>2. BtcState # "refunded" => ~told
    BY <1>1
  <2>3. BtcState' # "refunded" => ~told'
    BY <1>2
  <2> QED
    BY <2>1, <2>2, <2>3
    DEF Promise!Next, Promise!Moves, Promise!Redeem, Promise!Cancel,
        Promise!Punish, Promise!Refund
<1> QED BY <1>3, <1>4

(* The calls of executeRefund, the maker and the chain implement the        *)
(* promise of the way back, for any terms.                                  *)
THEOREM Refinement == Spec => KeepsRefundPromise
<1>1. Init => Promise!Init
  <2> SUFFICES ASSUME Init PROVE Promise!Init
    OBVIOUS
  <2>1. mined = <<"lock">> /\ pool = {} /\ outcome = "none"
    BY DEF Init
  <2>2. Mined = {"lock"} /\ Onchain = {"lock"}
    BY <2>1 DEF Mined, Onchain
  <2> QED BY <2>1, <2>2 DEF Promise!Init, BtcState
<1>2. Settled /\ Settled' /\ [Next]_vars => [Promise!Next]_(Promise!vars)
  BY PromiseStep, ChainStep DEF Settled
<1> QED BY <1>1, <1>2, AlwaysSettled, PTL DEF Spec, KeepsRefundPromise, Promise!Spec

(* Once the client's key share has left, the Bitcoin is out of the reach of *)
(* the redeem transaction for good: the maker never has the Monero and the  *)
(* redeemed Bitcoin.                                                        *)
THEOREM KeyShareBarsRedeem == Spec => [](revealed => "redeem" \notin Onchain)
<1>1. Settled => (revealed => "redeem" \notin Onchain)
  BY DEF Settled, IInv, KeyShareGated, Clean, LockSpends, Onchain
<1> QED BY <1>1, AlwaysSettled, PTL

(* However often the refund is tried, and whatever params the server hands  *)
(* out, all signatures are on one and the same transaction.                 *)
THEOREM OneRefund == Spec => [][sent # Null => sent' = sent]_vars
<1>1. IInv /\ [Next]_vars => [sent # Null => sent' = sent]_vars
  <2> SUFFICES ASSUME IInv, [Next]_vars, sent # Null PROVE sent' = sent
    OBVIOUS
  <2>1. CASE signRefund
    <3> DEFINE r == Refund(given, taken)
    <3>1. \/ UNCHANGED sent
          \/ AboveDust(given, r) /\ EncsigVerifies(given, r) /\ sent' = r
      BY <2>1 DEF signRefund
    <3>2. ASSUME AboveDust(given, r), EncsigVerifies(given, r)
          PROVE  r = sent
      BY <3>2, SignedIsAgreed DEF IInv, Sound
    <3> QED BY <3>1, <3>2
  <2>2. CASE ~signRefund
    BY <2>2 DEF Next, Steps, vars, publish, mine, executeRefund, detailFails,
       discoverTxCancel, readTxCancel, readFails, broadcast, crash
  <2> QED BY <2>1, <2>2
<1> QED BY <1>1, Invariant, PTL DEF Spec
=============================================================================
