------------------------- MODULE MoneroSweepProofs -------------------------
(***************************************************************************)
(* Theorems about the sweep of the Monero output, for any number of nodes, *)
(* attempts, ring draws, notifications and calls.                          *)
(***************************************************************************)
EXTENDS MoneroSweep, TLAPS

(* The output is spent, by a transaction whose hash, when it is known, is   *)
(* h.                                                                       *)
SpentBy(h) == \E n \in Nodes : holds[n] # 0 /\ h \in {0, holds[n]}

Reported ==
  /\ pc = "notify" => SpentBy(hash)
  /\ outcome = "swept" => SpentBy(0)
  /\ \A h \in told : SpentBy(h)
  /\ pc = "send" => signed # 0

(* The share is checked as it arrives, so no later step holds another one.  *)
Sound == "share" \notin flaws /\ unsound = {}

IInv == TypeOK /\ Reported /\ Sound

-----------------------------------------------------------------------------
(* What a failed attempt may do to the control state.                       *)
LEMMA FailsType ==
  ASSUME TypeOK, NEW e, Fails(e)
  PROVE  /\ pc' \in {"lockTx", "done"} /\ attempt' \in 0 .. SWEEP_MAX_ATTEMPTS - 1
         /\ outcome' \in {outcome, "failed"}
BY SweepAssumption DEF Fails, End, TypeOK

LEMMA SomeFails ==
  ASSUME IInv, \E e \in Errors : Fails(e)
  PROVE  /\ pc' \in {"lockTx", "done"} /\ attempt' \in 0 .. SWEEP_MAX_ATTEMPTS - 1
         /\ outcome' \in {outcome, "failed"}
<1>1. PICK e \in Errors : Fails(e)
  OBVIOUS
<1> QED BY <1>1, FailsType DEF IInv

(* A node that holds a transaction of the output keeps it.                  *)
LEMMA SpentStays ==
  ASSUME TypeOK, NEW h, SpentBy(h),
         \A n \in Nodes : holds[n] # 0 => holds'[n] = holds[n]
  PROVE  SpentBy(h)'
BY DEF SpentBy

LEMMA ReportedStays ==
  ASSUME TypeOK, Reported,
         \A n \in Nodes : holds[n] # 0 => holds'[n] = holds[n],
         pc' # "notify", pc' = "send" => signed' # 0,
         outcome' \in {outcome, "none", "cancelled", "failed"},
         told' = told
  PROVE  Reported'
BY SpentStays DEF Reported

-----------------------------------------------------------------------------
LEMMA InvInit == ASSUME Init PROVE IInv
<1>1. holds \in [Nodes -> 0 .. signed] /\ told = {}
  BY DEF Init
<1>2. aborted \in BOOLEAN
  BY Zenon DEF Init
<1>3. TypeOK
  BY <1>1, <1>2, SweepAssumption DEF Init, TypeOK, Nodes
<1>4. Reported /\ Sound
  BY DEF Init, Reported, Sound
<1> QED BY <1>3, <1>4 DEF IInv

(* The steps before the keys are accepted, and a crash: nothing is signed   *)
(* or broadcast.                                                            *)
LEMMA QuietSteps ==
  ASSUME IInv,
         call \/ askOutputs \/ waitOutputs \/ outputsArrive \/ crash
  PROVE  IInv'
<1>1. aborted' \in BOOLEAN
  BY Zenon DEF IInv, TypeOK, call, askOutputs, waitOutputs, outputsArrive,
               crash, world
<1>2. /\ UNCHANGED <<holds, told, signed, unsound>>
      /\ calls' \in 0 .. MaxCalls
      /\ pc' \in {"idle", "outputs", "asked", "wait", "lockTx", "done"}
      /\ outcome' \in {outcome, "none", "cancelled", "failed"}
      /\ attempt' \in {0, attempt} /\ ring' \in {0, ring} /\ node' \in {1, node}
      /\ notices' \in {0, notices} /\ hash' \in {0, hash}
      /\ flaws' \subseteq Flaws /\ "share" \notin flaws'
  <2>1. CASE call
    BY <2>1, SweepAssumption DEF call, IInv, TypeOK, Flaws
  <2>2. CASE askOutputs \/ waitOutputs
    <3>1. /\ pc' \in {"asked", "outputs", "done"} /\ outcome' \in {outcome, "cancelled"}
          /\ UNCHANGED <<world, loops, keep>>
      BY <2>2, Zenon DEF askOutputs, waitOutputs, End
    <3> QED BY <3>1 DEF IInv, TypeOK, Sound, world, loops, keep
  <2>3. CASE outputsArrive
    <3>1. UNCHANGED <<world, loops, hash, signed, unsound>>
      BY <2>3 DEF outputsArrive
    <3>2. /\ pc' \in {"wait", "lockTx", "done"} /\ outcome' \in {outcome, "failed"}
          /\ flaws' \subseteq Flaws /\ "share" \notin flaws'
      BY <2>3 DEF outputsArrive, KeysAccepted, End, IInv, TypeOK, Sound, Flaws
    <3> QED BY <3>1, <3>2 DEF IInv, TypeOK, world, loops
  <2>4. CASE crash
    <3>1. pc' = "idle" /\ UNCHANGED <<world, loops, keep, outcome>>
      BY <2>4 DEF crash
    <3> QED BY <3>1 DEF IInv, TypeOK, Sound, world, loops, keep
  <2> QED BY <2>1, <2>2, <2>3, <2>4
<1>3. TypeOK'
  BY <1>1, <1>2, SweepAssumption DEF IInv, TypeOK, Nodes
<1>4. Reported'
  BY <1>2, ReportedStays DEF IInv
<1>5. Sound'
  BY <1>2 DEF IInv, Sound
<1> QED BY <1>3, <1>4, <1>5 DEF IInv

LEMMA PreparingSteps ==
  ASSUME IInv, scanLockTx \/ fetchRing
  PROVE  IInv'
<1>1. aborted' = aborted /\ UNCHANGED <<holds, told, calls, node, notices, hash, signed, unsound>>
  BY DEF scanLockTx, fetchRing, world
<1>2. /\ pc' \in {"lockTx", "ring", "build", "done"}
      /\ attempt' \in 0 .. SWEEP_MAX_ATTEMPTS - 1
      /\ outcome' \in {outcome, "failed"}
      /\ ring' \in 0 .. MAX_RING_RETRIES - 1
      /\ flaws' \subseteq Flaws /\ "share" \notin flaws'
  <2>1. CASE scanLockTx
    <3>1. CASE \E e \in Errors : Fails(e) /\ UNCHANGED <<ring, flaws>>
      BY <3>1, SomeFails DEF IInv, TypeOK, Sound
    <3>2. CASE \E read \in SUBSET {"amount"} :
                 /\ pc' = "ring" /\ ring' = 0
                 /\ flaws' = (flaws \cap {"share"}) \cup read
                 /\ UNCHANGED <<attempt, outcome>>
      BY <3>2, SweepAssumption DEF IInv, TypeOK, Sound, Flaws
    <3> QED BY <2>1, <3>1, <3>2 DEF scanLockTx, Errors
  <2>2. CASE fetchRing
    <3>1. CASE Redraws /\ ring' = ring + 1
               /\ UNCHANGED <<pc, attempt, outcome, flaws>>
      <4>1. pc' = "ring"
        BY <2>2, <3>1 DEF fetchRing
      <4>2. ring' \in 0 .. MAX_RING_RETRIES - 1
        BY <3>1, SweepAssumption DEF Redraws, IInv, TypeOK
      <4> QED BY <3>1, <4>1, <4>2 DEF IInv, TypeOK, Sound
    <3>2. CASE \E e \in Errors : Fails(e) /\ UNCHANGED <<ring, flaws>>
      BY <3>2, SomeFails DEF IInv, TypeOK, Sound
    <3>3. CASE \E drawn \in SUBSET {"ring"} :
                 /\ pc' = "build" /\ flaws' = flaws \cup drawn
                 /\ UNCHANGED <<ring, attempt, outcome>>
      BY <3>3 DEF IInv, TypeOK, Sound, Flaws
    <3> QED BY <2>2, <3>1, <3>2, <3>3 DEF fetchRing, Errors
  <2> QED BY <2>1, <2>2
<1>3. TypeOK'
  BY <1>1, <1>2 DEF IInv, TypeOK
<1>4. Reported'
  BY <1>1, <1>2, ReportedStays DEF IInv
<1>5. Sound'
  BY <1>1, <1>2 DEF IInv, Sound
<1> QED BY <1>3, <1>4, <1>5 DEF IInv

(* The checks between them stop every flaw that the share's check leaves.   *)
LEMMA ChecksSuffice ==
  ASSUME NEW flawed \in SUBSET Flaws, NEW present \in BOOLEAN,
         "share" \notin flawed, "ring" \notin flawed => present,
         verifyCommitment(flawed, present), verifySweepTx(flawed)
  PROVE  flawed = {}
<1>1. "ring" \notin flawed /\ "fee" \notin flawed
  BY DEF verifySweepTx
<1>2. present
  BY <1>1
<1>3. "amount" \notin flawed
  BY <1>2 DEF verifyCommitment
<1> QED BY <1>1, <1>3 DEF Flaws

LEMMA BuildStep ==
  ASSUME IInv, build
  PROVE  IInv'
<1>1. aborted' = aborted /\ UNCHANGED <<holds, told, calls, ring, notices, flaws, hash>>
  BY DEF build, world
<1>2. PICK priced \in SUBSET {"fee"} : \E present \in BOOLEAN :
        /\ "ring" \notin flaws => present
        /\ \/ buildFails(flaws \cup priced, present)
           \/ sign(flaws \cup priced, present)
  BY DEF build
<1>3. PICK present \in BOOLEAN :
        /\ "ring" \notin flaws => present
        /\ \/ buildFails(flaws \cup priced, present)
           \/ sign(flaws \cup priced, present)
  BY <1>2
<1>4. /\ flaws \cup priced \in SUBSET Flaws
      /\ "share" \notin flaws \cup priced
      /\ "ring" \notin flaws \cup priced => present
  BY <1>3 DEF IInv, TypeOK, Sound, Flaws
<1>5. /\ signed' \in {signed, signed + 1} /\ unsound' = {}
      /\ pc' = "send" => signed' # 0
      /\ pc' \in {"lockTx", "done", "send"} /\ node' \in Nodes
      /\ attempt' \in 0 .. SWEEP_MAX_ATTEMPTS - 1
      /\ outcome' \in {outcome, "failed"}
  <2>1. CASE buildFails(flaws \cup priced, present)
    BY <2>1, FailsType DEF buildFails, IInv, TypeOK, Sound
  <2>2. CASE sign(flaws \cup priced, present)
    <3>1. flaws \cup priced = {}
      BY <1>4, <2>2, ChecksSuffice DEF sign
    <3> QED BY <2>2, <3>1, SweepAssumption DEF sign, IInv, TypeOK, Sound, Nodes
  <2> QED BY <1>3, <2>1, <2>2
<1>6. TypeOK'
  BY <1>1, <1>5 DEF IInv, TypeOK
<1>7. Reported'
  BY <1>1, <1>5, ReportedStays DEF IInv
<1>8. Sound'
  BY <1>1, <1>5 DEF IInv, Sound
<1> QED BY <1>6, <1>7, <1>8 DEF IInv

LEMMA BroadcastStep ==
  ASSUME IInv, broadcast
  PROVE  IInv'
<1>1. /\ aborted' = aborted
      /\ UNCHANGED <<told, calls, ring, notices, flaws, signed, unsound>>
  BY DEF broadcast
<1>2. NextNode => /\ pc' \in {pc, "lockTx", "done"} /\ node' \in Nodes
                  /\ attempt' \in 0 .. SWEEP_MAX_ATTEMPTS - 1
                  /\ outcome' \in {outcome, "failed"}
  <2>1. CASE /\ node < NumNodes /\ node' = node + 1
             /\ UNCHANGED <<pc, attempt, outcome>>
    BY <2>1, SweepAssumption DEF IInv, TypeOK, Nodes
  <2>2. CASE Fails("nodes failed") /\ UNCHANGED node
    BY <2>2, SomeFails DEF Errors, IInv, TypeOK
  <2> QED BY <2>1, <2>2 DEF NextNode
<1>3. /\ holds' \in [Nodes -> 0 .. signed] /\ hash' \in 0 .. signed
      /\ pc' \in {pc, "lockTx", "done", "notify"} /\ node' \in Nodes
      /\ attempt' \in 0 .. SWEEP_MAX_ATTEMPTS - 1
      /\ outcome' \in {outcome, "failed"}
  BY <1>2 DEF broadcast, AlreadySpent, IInv, TypeOK
<1>4. \A n \in Nodes : holds[n] # 0 => holds'[n] = holds[n]
  BY DEF broadcast, IInv, TypeOK
<1>5. pc' = "notify" => SpentBy(hash)'
  <2> SUFFICES ASSUME pc' = "notify" PROVE SpentBy(hash)'
    OBVIOUS
  <2>1. ~NextNode
    BY <1>2 DEF broadcast
  <2>2. CASE /\ holds[node] \in {0, signed}
             /\ holds' = [holds EXCEPT ![node] = signed] /\ hash' \in {0, signed}
    <3>1. signed # 0 /\ node \in Nodes
      BY DEF broadcast, IInv, TypeOK, Reported
    <3> QED BY <2>2, <3>1 DEF SpentBy, IInv, TypeOK
  <2>3. CASE AlreadySpent(node) /\ hash' = 0 /\ holds' = holds
    BY <2>3 DEF AlreadySpent, SpentBy, IInv, TypeOK
  <2> QED BY <2>1, <2>2, <2>3 DEF broadcast
<1>6. TypeOK'
  BY <1>1, <1>3 DEF IInv, TypeOK
<1>7. Reported'
  BY <1>1, <1>3, <1>4, <1>5, SpentStays DEF IInv, Reported
<1>8. Sound'
  BY <1>1 DEF IInv, Sound
<1> QED BY <1>6, <1>7, <1>8 DEF IInv

LEMMA NotifyStep ==
  ASSUME IInv, notify
  PROVE  IInv'
<1>1. /\ aborted' = aborted
      /\ UNCHANGED <<holds, calls, attempt, ring, node, flaws, hash, signed, unsound>>
      /\ told' \in {told, told \cup {hash}}
      /\ notices' \in 0 .. NotifyAttempts - 1
      /\ \/ pc' = pc /\ outcome' = outcome
         \/ pc' = "done" /\ outcome' = "swept"
  BY SweepAssumption DEF notify, keep, End, IInv, TypeOK
<1>2. pc = "notify" /\ SpentBy(hash) /\ SpentBy(0)
  BY DEF notify, IInv, Reported, SpentBy
<1>3. TypeOK'
  BY <1>1 DEF IInv, TypeOK
<1>4. \A h : SpentBy(h) => SpentBy(h)'
  BY <1>1 DEF SpentBy
<1>5. Reported'
  BY <1>1, <1>2, <1>4 DEF IInv, Reported
<1>6. Sound'
  BY <1>1 DEF IInv, Sound
<1> QED BY <1>3, <1>5, <1>6 DEF IInv

LEMMA OutsideSteps ==
  ASSUME IInv, relay \/ cancel
  PROVE  IInv'
<1>0. aborted' \in BOOLEAN
  BY Zenon DEF relay, cancel, IInv, TypeOK
<1>1. UNCHANGED <<told, calls, pc, loops, keep, outcome>>
  BY Zenon DEF relay, cancel, world
<1>2. /\ holds' \in [Nodes -> 0 .. signed]
      /\ \A n \in Nodes : holds[n] # 0 => holds'[n] = holds[n]
  BY DEF relay, cancel, world, IInv, TypeOK
<1>3. TypeOK'
  BY <1>0, <1>1, <1>2 DEF IInv, TypeOK, loops, keep
<1>4. Reported'
  BY <1>1, <1>2, SpentStays DEF IInv, Reported, keep
<1>5. Sound'
  BY <1>1 DEF IInv, Sound, keep
<1> QED BY <1>3, <1>4, <1>5 DEF IInv

(* IInv holds in every reachable state.                                     *)
THEOREM Invariant == Spec => []IInv
<1>1. Init => IInv
  BY InvInit
<1>2. IInv /\ [Next]_vars => IInv'
  <2> SUFFICES ASSUME IInv, [Next]_vars PROVE IInv'
    OBVIOUS
  <2>1. CASE call \/ askOutputs \/ waitOutputs \/ outputsArrive \/ crash
    BY <2>1, QuietSteps
  <2>2. CASE scanLockTx \/ fetchRing
    BY <2>2, PreparingSteps
  <2>3. CASE build
    BY <2>3, BuildStep
  <2>4. CASE broadcast
    BY <2>4, BroadcastStep
  <2>5. CASE notify
    BY <2>5, NotifyStep
  <2>6. CASE relay \/ cancel
    BY <2>6, OutsideSteps
  <2>7. CASE UNCHANGED vars
    <3>1. aborted' \in BOOLEAN
      BY <2>7, Zenon DEF vars, IInv, TypeOK
    <3> QED BY <2>7, <3>1 DEF vars, world, loops, keep, IInv, TypeOK, Reported,
                              SpentBy, Sound
  <2> QED BY <2>1, <2>2, <2>3, <2>4, <2>5, <2>6, <2>7 DEF Next, Steps
<1> QED BY <1>1, <1>2, PTL DEF Spec

(* The loops stay within their bounds, and every transaction on a node, and *)
(* every hash told, is one that was signed.                                 *)
THEOREM TypeCorrect == Spec => []TypeOK
<1>1. IInv => TypeOK
  BY DEF IInv
<1> QED BY <1>1, Invariant, PTL

(* A sweep is reported, to the host or to the server, only when a node      *)
(* holds a transaction that spends the output: for any number of attempts,  *)
(* lost answers, crashes and repeated calls.                                *)
THEOREM ReportsAreTrue == Spec => []SweptMeansSpent
<1>1. IInv => SweptMeansSpent
  BY DEF IInv, Reported, SpentBy, SweptMeansSpent
<1> QED BY <1>1, Invariant, PTL

(* The checks of the keys, the commitment and the construction between them *)
(* leave nothing flawed to sign, in any attempt and whatever is answered.   *)
THEOREM SignaturesAreSound == Spec => []OnlySoundSigned
<1>1. IInv => OnlySoundSigned
  BY DEF IInv, Sound, OnlySoundSigned
<1> QED BY <1>1, Invariant, PTL
=============================================================================
