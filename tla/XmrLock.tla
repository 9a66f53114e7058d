------------------------------ MODULE XmrLock ------------------------------
(***************************************************************************)
(* The check that releases the encrypted signature: verifyXmrLocked        *)
(* (src/lib/monero/verify-lock.ts) asks the monerod nodes for the lock     *)
(* transaction, and examines what they say.  The drive loop calls it again *)
(* while the verdict is retryable; any other refusal ends the swap.        *)
(*                                                                         *)
(* With at least monerodQuorum nodes configured all are asked at once and  *)
(* so many must agree on the transaction; with fewer, or with the default  *)
(* list, they are asked in turn and the first that answers is believed.    *)
(*                                                                         *)
(* monerod omits the confirmations of a transaction that is still in its   *)
(* pool, and nothing asks whether they are there.  Undefined stands for    *)
(* what is then read, as a number that behaves as undefined does where it  *)
(* goes: sort puts it last, and no comparison finds it below the minimum.  *)
(*                                                                         *)
(* An operator written just before another of a similar name is its faulty *)
(* twin, to which nothing refers.  The module and DepositWatch use no name *)
(* for two things, so that one module can extend both (QuorumReadsProofs). *)
(***************************************************************************)
EXTENDS QuorumReads

CONSTANTS
  AllNodes,
  monerodQuorum,       \* 2 unless set
  minConfirmations,
  Defects,             \* reasons to refuse: unlock_time, R, tx_key, output, amount
  MaxHeight,           \* bound: confirmations of the lock transaction
  Undefined            \* an answer without confirmations

ASSUME LockAssumption ==
  /\ IsFiniteSet(AllNodes) /\ monerodQuorum \in Nat \ {0}
  /\ minConfirmations \in Nat /\ MaxHeight \in Nat
  /\ Undefined \in Nat /\ Undefined > MaxHeight /\ Undefined >= minConfirmations
  /\ NoAnswer \notin [tx : SUBSET Defects, conf : 0 .. MaxHeight \cup {Undefined}]

VARIABLES
  nodes,      \* the nodes to ask
  configured, \* by the host; else the default list
  wrong,      \* the ones that may answer anything
  flaws,      \* what is wrong with the lock transaction the maker made
  conf,       \* its confirmations, 0 while it is in the pool
  at, said, asked, verdict

setting == <<nodes, configured, wrong, flaws>>
lockVars == <<setting, conf, at, said, asked, verdict>>

Heights == 0 .. MaxHeight
Reports == [tx : SUBSET Defects, conf : Heights \cup {Undefined}]

(* An honest node may be behind: it may report fewer confirmations than     *)
(* there are, and have the transaction in its pool still.                   *)
Truthful(a) == a.tx = flaws /\ (a.conf <= conf \/ a.conf = Undefined)

byQuorum == configured /\ Cardinality(nodes) >= monerodQuorum
Heard == {n \in nodes : said[n] # NoAnswer}

LockInit ==
  /\ nodes \in SUBSET AllNodes /\ configured \in BOOLEAN /\ wrong \in SUBSET AllNodes
  /\ flaws \in SUBSET Defects /\ conf = 0
  /\ at = "idle" /\ asked = {} /\ verdict = "none"
  /\ said = [n \in AllNodes |-> NoAnswer]

verify ==
  /\ at = "idle" /\ verdict \in {"none", "retry"}
  /\ at' = "asked" /\ asked' = {}
  /\ said' = [n \in AllNodes |-> NoAnswer]
  /\ UNCHANGED <<setting, conf, verdict>>

Says(n, a) == n \in wrong \/ Truthful(a)

(* The answer of one node, or its failure.  In turn, the next node is asked *)
(* only when those before it have failed.                                   *)
respond(n) ==
  /\ at = "asked" /\ n \in nodes \ asked
  /\ byQuorum \/ Heard = {}
  /\ asked' = asked \cup {n}
  /\ \/ UNCHANGED said
     \/ \E a \in Reports : Says(n, a) /\ said' = [said EXCEPT ![n] = a]
  /\ UNCHANGED <<setting, conf, at, verdict>>

(* pickAgreeingTransaction: a quorum of nodes with the same transaction,    *)
(* and the median of their confirmations, or 0 if that is undefined.        *)
Bucket(tx) == {n \in Heard : said[n].tx = tx}
Confs == [n \in Heard |-> said[n].conf]

OrZero(number) == IF number = Undefined THEN 0 ELSE number

(* The first answer is taken as it is.                                      *)
FetchedOne == {said[n] : n \in Heard}
FetchedFirst ==
  {a \in Reports : /\ Cardinality(Bucket(a.tx)) >= monerodQuorum
                   /\ \E n \in Bucket(a.tx) : a.conf = OrZero(Confs[n])}
FetchedAgreed ==
  {a \in Reports :
     /\ Cardinality(Bucket(a.tx)) >= monerodQuorum
     /\ \E m \in Heights \cup {Undefined} :
          IsMedian(Confs, Bucket(a.tx), m) /\ a.conf = OrZero(m)}
Fetched == IF byQuorum THEN FetchedAgreed ELSE FetchedOne

(* Too few confirmations are worth another try, whatever else is wrong; a   *)
(* defect of the transaction is not.  Undefined ones are not too few.       *)
ExamineEarly(a) ==
  IF a.tx # {} THEN "refused"
  ELSE IF a.conf < minConfirmations THEN "retry" ELSE "verified"
Examine(a) ==
  IF a.conf < minConfirmations THEN "retry"
  ELSE IF a.tx # {} THEN "refused" ELSE "verified"

Settled == asked = nodes \/ (~byQuorum /\ Heard # {})

conclude ==
  /\ at = "asked" /\ Settled
  /\ \/ Fetched = {} /\ verdict' = "retry"
     \/ \E a \in Fetched : verdict' = Examine(a)
  /\ at' = "idle"
  /\ UNCHANGED <<setting, conf, said, asked>>

deepen ==
  /\ conf < MaxHeight /\ conf' = conf + 1
  /\ UNCHANGED <<setting, at, said, asked, verdict>>

LockNext == verify \/ (\E n \in AllNodes : respond(n)) \/ conclude \/ deepen

LockSpec == LockInit /\ [][LockNext]_lockVars

-----------------------------------------------------------------------------
LockTypeOK ==
  /\ nodes \subseteq AllNodes /\ configured \in BOOLEAN /\ wrong \subseteq AllNodes
  /\ flaws \subseteq Defects /\ conf \in Heights
  /\ at \in {"idle", "asked"} /\ asked \subseteq nodes
  /\ said \in [AllNodes -> Reports \cup {NoAnswer}]
  /\ \A n \in AllNodes : said[n] # NoAnswer => n \in asked
  /\ verdict \in {"none", "retry", "refused", "verified"}

(* Whom the verdict can be built on.  Asked in turn: no node that is wrong, *)
(* and none that has the transaction in its pool.  Asked together: no wrong *)
(* node; or else fewer than half a quorum that are wrong or have it in the  *)
(* pool, since both can only push the median up.                            *)
Pooled == {n \in nodes : said[n] # NoAnswer /\ said[n].conf = Undefined}
Trusted ==
  IF byQuorum THEN \/ wrong \cap nodes = {}
                   \/ 2 * Cardinality((wrong \cap nodes) \cup Pooled) < monerodQuorum
  ELSE (wrong \cap nodes) \cup Pooled = {}

(* What verifyXmrLocked concludes is true of the chain, although a node may *)
(* lie about the transaction or its confirmations, or fail, and others lag  *)
(* or give no confirmations: the signature is released only for a sound     *)
(* lock with enough confirmations, and the swap is given up only for an     *)
(* unsound one.                                                             *)
LockVerdictTrue ==
  Trusted => /\ verdict = "verified" => flaws = {} /\ conf >= minConfirmations
             /\ verdict = "refused" => flaws # {} /\ conf >= minConfirmations

(* With honest nodes a lock is accepted only with enough confirmations:     *)
(* "Below `MIN_XMR_CONFIRMATIONS` (10) the call returns a retryable         *)
(* failure" (ATOMIC-SWAP-PAPER.md:245).  Refuted by a single answer that    *)
(* comes from the pool.                                                     *)
VerifiedIsConfirmed ==
  wrong \cap nodes = {} => (verdict = "verified" => conf >= minConfirmations)
=============================================================================
