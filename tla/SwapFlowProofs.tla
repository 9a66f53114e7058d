--------------------------- MODULE SwapFlowProofs ---------------------------
(***************************************************************************)
(* Theorems about the flow for hand-made deposits, for any number of       *)
(* retries and of flow objects.  The server is free to return anything.    *)
(***************************************************************************)
EXTENDS SwapFlow, TLAPS

FlagsOK == timeUp \in BOOLEAN /\ aborted \in BOOLEAN /\ restricted \in BOOLEAN

ValuesOK ==
  /\ status \in Statuses /\ payload \in {"none", "address", "full"}
  /\ runs \in 1..MaxRuns
  /\ pc \in Labels /\ phase \in Phases /\ lastPhase \in Phases
  /\ seen \in Statuses
  /\ deposit \in {"none", "bare", "full"}
  /\ verification \in {"none", "pending", "refused", "passed", "server"}
  /\ tries \in 0..MAX_TRANSIENT_RETRIES

(* A restricted flow has emitted only the phases without a deposit, and it  *)
(* does not come to the steps that put an address into the context.  Before *)
(* those steps no flow has an address.                                      *)
RestrictedInv ==
  /\ restricted => /\ deposit = "none" /\ verification = "none"
                   /\ pc \in Polling \cup {"done"}
                   /\ {phase, lastPhase} \cap
                        {"awaiting-deposit", "verification-failed"} = {}
  /\ pc \in {"idle", "create", "submit", "load"} =>
       /\ deposit = "none" /\ verification = "none" /\ ~restricted
       /\ {phase, lastPhase} \cap {"awaiting-deposit", "verification-failed"} = {}

(* Once a verification is refused, the flow only polls.                     *)
Refused ==
  /\ deposit = "none" /\ ~restricted
  /\ pc \in Polling \cup {"done"}
  /\ phase \notin ProgressPhases

IInv ==
  /\ FlagsOK /\ ValuesOK /\ RestrictedInv
  /\ phase = "verification-failed" => Refused

-----------------------------------------------------------------------------
LEMMA PhaseTypes ==
  /\ \A s \in PostDeposit : PhaseOf(s) \in ProgressPhases
  /\ \A s : TerminalPhase(s) \in FinalPhases
  /\ FinalPhases \cup ProgressPhases \subseteq Phases
  /\ {"solving-pow", "creating-swap", "awaiting-deposit",
      "verification-failed"} \subseteq Phases
  /\ {"awaiting-deposit", "verification-failed"} \cap
       (FinalPhases \cup ProgressPhases) = {}
  /\ FinalPhases \cap ProgressPhases = {}
  /\ {"cancelled", "failed"} \subseteq FinalPhases
BY DEF PostDeposit, PhaseOf, ProgressPhases, TerminalPhase, FinalPhases, Phases

LEMMA InvInit ==
  ASSUME Init PROVE IInv
<1>1. FlagsOK
  BY Zenon DEF Init, FlagsOK
<1>2. /\ status = "none" /\ payload = "none" /\ runs = 1 /\ pc = "idle"
      /\ phase = "idle" /\ lastPhase = "idle" /\ seen = "none"
      /\ deposit = "none" /\ verification = "none" /\ tries = 0 /\ ~restricted
  BY Zenon DEF Init
<1>3. ValuesOK /\ RestrictedInv /\ phase # "verification-failed"
  BY <1>2, SwapFlowAssumption DEF ValuesOK, RestrictedInv, Statuses, Labels,
     Phases, Polling
<1> QED
  BY <1>1, <1>3 DEF IInv

(* A new swap, up to the verification of its address.                       *)
LEMMA NewSwapStep ==
  ASSUME IInv, start \/ solveChallenge \/ createSwap \/ resume \/ resumeFetchFails
  PROVE  IInv'
<1>1. /\ UNCHANGED <<hostVars, aborted, contextVars>>
      /\ pc \in {"idle", "create", "submit", "load"}
      /\ pc' \in {"create", "submit", "load", "verify", "done"}
  BY DEF start, solveChallenge, createSwap, resume, resumeFetchFails,
     handleError, Ends
<1>2. /\ phase' \in {phase, "solving-pow", "creating-swap", "cancelled", "failed"}
      /\ lastPhase' \in {lastPhase, "solving-pow", "creating-swap", "cancelled", "failed"}
  BY DEF start, solveChallenge, createSwap, resume, resumeFetchFails, Retry,
     handleError, Ends, transition, Same
<1>3. /\ status' \in Statuses /\ seen' \in Statuses
      /\ payload' \in {"none", "address", "full"}
      /\ tries' \in 0..MAX_TRANSIENT_RETRIES
  BY SwapFlowAssumption DEF start, solveChallenge, createSwap, resume,
     resumeFetchFails, Retry, IInv, ValuesOK, serverVars, Statuses
<1>4. FlagsOK'
  BY Zenon, <1>1 DEF IInv, FlagsOK, hostVars, contextVars
<1>5. ValuesOK'
  BY <1>1, <1>2, <1>3 DEF IInv, ValuesOK, hostVars, contextVars, Labels,
     Phases, FinalPhases
<1>6. RestrictedInv' /\ phase' # "verification-failed"
  BY <1>1, <1>2 DEF IInv, RestrictedInv, contextVars
<1> QED
  BY <1>4, <1>5, <1>6 DEF IInv

(* emitAwaitingDeposit and emitInitialResumePhase.                          *)
LEMMA DepositStep ==
  ASSUME IInv, verifyDepositAddress \/ awaitDeposit \/ resumeFull
                 \/ reverify \/ resumePhase
  PROVE  IInv'
<1>1. /\ UNCHANGED <<serverVars, hostVars, aborted, restricted, tries>>
      /\ pc \in {"verify", "qr", "load", "reverify", "resume-qr"}
      /\ pc' \in {"verify", "qr", "reverify", "resume-qr", "poll", "done"}
  BY DEF verifyDepositAddress, awaitDeposit, resumeFull, reverify,
     resumePhase, emitTerminal, handleError, Ends, contextVars
<1>2. ~restricted /\ phase # "verification-failed"
  BY <1>1 DEF IInv, RestrictedInv, Refused, Polling
<1>3. /\ phase' \in Phases /\ lastPhase' \in Phases
      /\ phase' = "verification-failed" => pc' = "poll" /\ deposit' = "none"
  <2>1. CASE verifyDepositAddress
    BY <1>2, <2>1, PhaseTypes DEF verifyDepositAddress, Withholds, handleError,
       Ends, transition, Same, IInv, ValuesOK
  <2>2. CASE awaitDeposit
    BY <1>2, <2>2, PhaseTypes DEF awaitDeposit, transition, Same, IInv, ValuesOK
  <2>3. CASE resumeFull
    BY <1>2, <2>3, PhaseTypes DEF resumeFull, emitTerminal, handleError, Ends,
       transition, Same, IInv, ValuesOK
  <2>4. CASE reverify
    BY <1>2, <2>4 DEF reverify, IInv, ValuesOK
  <2>5. CASE resumePhase
    <3>1. seen \in PostDeposit \/ ~Verified(deposit', verification) =>
            transition(IF Verified(deposit', verification)
                       THEN PhaseOf(seen) ELSE "failed")
      BY <2>5 DEF resumePhase, Report
    <3>2. Verified(deposit', verification) /\ seen \in PostDeposit =>
            PhaseOf(seen) \in ProgressPhases
      BY PhaseTypes
    <3> QED
      BY <1>2, <2>5, <3>1, <3>2, PhaseTypes DEF resumePhase, transition, Same,
         IInv, ValuesOK
  <2> QED
    BY <2>1, <2>2, <2>3, <2>4, <2>5, <1>1
<1>4. /\ seen' \in Statuses /\ deposit' \in {"none", "bare", "full"}
      /\ verification' \in {"none", "pending", "refused", "passed", "server"}
  BY DEF verifyDepositAddress, Withholds, awaitDeposit, resumeFull, reverify,
     resumePhase, Drawn, IInv, ValuesOK, contextVars
<1>5. FlagsOK'
  BY Zenon, <1>1 DEF IInv, FlagsOK, hostVars
<1>6. ValuesOK'
  BY <1>1, <1>3, <1>4 DEF IInv, ValuesOK, serverVars, hostVars, Labels
<1>7. RestrictedInv'
  BY <1>1, <1>2 DEF RestrictedInv
<1>8. phase' = "verification-failed" => Refused'
  BY <1>1, <1>2, <1>3, PhaseTypes DEF Refused, Polling
<1> QED
  BY <1>5, <1>6, <1>7, <1>8 DEF IInv

(* The two polling loops and the entry of the restricted one.               *)
LEMMA PollStep ==
  ASSUME IInv, runRestricted \/ pollHead \/ pollSleep \/ pollFails
                 \/ pollAnswer \/ pollAnswerRestricted
  PROVE  IInv'
<1>1. /\ UNCHANGED <<serverVars, hostVars, aborted, seen, tries>>
      /\ pc \in Polling \cup {"load"} /\ pc' \in Polling \cup {"done"}
      /\ pc = "load" => runRestricted
  BY DEF runRestricted, pollHead, pollSleep, pollFails, pollAnswer,
     pollAnswerRestricted, emitTerminal, Ends, Asks, Polling, contextVars
<1>2. /\ pc = "load" => restricted' = TRUE /\ deposit' = "none" /\ verification' = "none"
      /\ pc # "load" => restricted' = restricted /\ deposit' = deposit
      /\ pc # "load" /\ restricted => verification' = verification
      /\ verification' \in {"none", "pending", "refused", "passed", "server"}
  BY DEF runRestricted, HidesContext, pollHead, pollSleep, pollFails,
     pollAnswer, pollAnswerRestricted, Overwrites, contextVars, IInv, ValuesOK,
     Polling
<1>3. /\ phase' = phase \/ phase' \in FinalPhases \cup ProgressPhases \cup {"creating-swap"}
      /\ lastPhase' = lastPhase \/ lastPhase' \in FinalPhases \cup ProgressPhases
      /\ phase' # phase /\ phase' \in ProgressPhases =>
           deposit = "full" \/ restricted \/ pc = "load"
  <2>1. CASE runRestricted
    BY <2>1, PhaseTypes DEF runRestricted, emitTerminal, Ends, transition, Same,
       emitRestrictedStatusPhase
  <2>2. CASE pollHead \/ pollSleep \/ pollFails
    BY <2>2, PhaseTypes DEF pollHead, pollSleep, pollFails, Asks, Ends,
       transition, Same
  <2>3. CASE pollAnswer
    BY <2>3, PhaseTypes DEF pollAnswer, emitTerminal, Ends, transition, Same,
       Report, Verified
  <2>4. CASE pollAnswerRestricted
    BY <2>4, PhaseTypes DEF pollAnswerRestricted, emitTerminal, Ends,
       transition, Same, emitRestrictedStatusPhase
  <2> QED
    BY <2>1, <2>2, <2>3, <2>4
<1>4. FlagsOK'
  <2>1. restricted' \in BOOLEAN
    BY Zenon DEF runRestricted, pollHead, pollSleep, pollFails, pollAnswer,
       pollAnswerRestricted, contextVars, IInv, FlagsOK
  <2> QED
    BY Zenon, <1>1, <2>1 DEF IInv, FlagsOK, hostVars
<1>5. ValuesOK'
  BY <1>1, <1>2, <1>3, PhaseTypes DEF IInv, ValuesOK, serverVars, hostVars,
     Labels, Polling
<1>6. RestrictedInv'
  BY <1>1, <1>2, <1>3, PhaseTypes DEF IInv, RestrictedInv, Polling
<1>7. phase' = "verification-failed" => Refused'
  BY <1>1, <1>2, <1>3, PhaseTypes DEF IInv, RestrictedInv, Refused
<1> QED
  BY <1>4, <1>5, <1>6, <1>7 DEF IInv

LEMMA OtherStep ==
  ASSUME IInv, cancel \/ Restart \/ DeadlinePasses \/ ServerMoves
  PROVE  IInv'
<1>1. FlagsOK'
  BY Zenon DEF cancel, Restart, DeadlinePasses, ServerMoves, IInv, FlagsOK,
     hostVars, contextVars
<1>2. CASE Restart
  <2>1. /\ UNCHANGED serverVars /\ runs < MaxRuns /\ runs' = runs + 1
        /\ pc' = "idle" /\ phase' = "idle" /\ lastPhase' = "idle" /\ seen' = "none"
        /\ deposit' = "none" /\ verification' = "none" /\ tries' = 0 /\ ~restricted'
    BY Zenon, <1>2 DEF Restart
  <2>2. ValuesOK' /\ RestrictedInv' /\ phase' # "verification-failed"
    BY <2>1, SwapFlowAssumption DEF IInv, ValuesOK, RestrictedInv, serverVars,
       Labels, Phases, Statuses, Polling
  <2> QED
    BY <1>1, <2>2 DEF IInv
<1>3. CASE cancel \/ DeadlinePasses \/ ServerMoves
  <2>1. /\ UNCHANGED <<runs, pc, phase, lastPhase, seen, contextVars, tries>>
        /\ status' \in Statuses /\ payload' \in {"none", "address", "full"}
    BY <1>3 DEF cancel, DeadlinePasses, ServerMoves, hostVars, serverVars, IInv,
       ValuesOK
  <2>2. ValuesOK' /\ RestrictedInv' /\ (phase' = "verification-failed" => Refused')
    BY <2>1 DEF IInv, ValuesOK, RestrictedInv, Refused, contextVars
  <2> QED
    BY <1>1, <2>2 DEF IInv
<1> QED
  BY <1>2, <1>3

LEMMA InvNext ==
  ASSUME IInv, [Next]_vars PROVE IInv'
<1>1. CASE Next
  BY <1>1, NewSwapStep, DepositStep, PollStep, OtherStep DEF Next, Flow
<1>2. CASE UNCHANGED vars
  <2>1. FlagsOK'
    BY Zenon, <1>2 DEF vars, IInv, FlagsOK, hostVars, contextVars
  <2>2. ValuesOK' /\ RestrictedInv' /\ (phase' = "verification-failed" => Refused')
    BY <1>2 DEF vars, serverVars, hostVars, contextVars, IInv, ValuesOK,
       RestrictedInv, Refused
  <2> QED
    BY <2>1, <2>2 DEF IInv
<1> QED
  BY <1>1, <1>2

THEOREM Invariant == Spec => []IInv
BY InvInit, InvNext, PTL DEF Spec

-----------------------------------------------------------------------------
(* Every variable keeps its type.                                           *)
THEOREM TypeCorrect == Spec => []TypeOK
<1>1. IInv => TypeOK
  BY Zenon DEF IInv, FlagsOK, ValuesOK, TypeOK
<1> QED
  BY Invariant, <1>1, PTL

(* Without proof of ownership nothing of the deposit is ever shown.         *)
THEOREM RestrictedIsBlind == Spec => []RestrictedShowsNothing
<1>1. IInv => RestrictedShowsNothing
  BY DEF IInv, RestrictedInv, RestrictedShowsNothing
<1> QED
  BY Invariant, <1>1, PTL

-----------------------------------------------------------------------------
(* A refused address: while the flow object lives, the flow stays refused.  *)
LEMMA RefusedKept ==
  ASSUME IInv, Refused, [Next]_vars, NEW run, runs = run, runs' = run
  PROVE  Refused'
<1>1. CASE start \/ solveChallenge \/ createSwap \/ resume \/ resumeFetchFails
             \/ verifyDepositAddress \/ awaitDeposit \/ resumeFull \/ reverify
             \/ resumePhase \/ runRestricted
  BY <1>1 DEF Refused, Polling, start, solveChallenge, createSwap, resume,
     resumeFetchFails, verifyDepositAddress, awaitDeposit, resumeFull,
     reverify, resumePhase, runRestricted
<1>2. CASE pollHead \/ pollSleep \/ pollFails
  BY <1>2, PhaseTypes DEF Refused, Polling, pollHead, pollSleep, pollFails,
     Asks, Ends, transition, Same, contextVars
<1>3. CASE pollAnswer \/ pollAnswerRestricted
  BY <1>3, PhaseTypes DEF Refused, Polling, pollAnswer, pollAnswerRestricted,
     emitTerminal, Ends, transition, Same, Report, Verified, contextVars
<1>4. CASE Restart
  <2>1. runs \in Nat
    BY SwapFlowAssumption DEF IInv, ValuesOK
  <2> QED
    BY <1>4, <2>1 DEF Restart
<1>5. CASE cancel \/ DeadlinePasses \/ ServerMoves
  BY <1>5 DEF Refused, cancel, DeadlinePasses, ServerMoves, contextVars
<1>6. CASE UNCHANGED vars
  BY <1>6 DEF vars, contextVars, Refused
<1> QED
  BY <1>1, <1>2, <1>3, <1>4, <1>5, <1>6 DEF Next, Flow

(* The number of flow objects never falls, so a flow that is gone does not  *)
(* come back.                                                               *)
LEMMA RunsGrow ==
  ASSUME IInv, [Next]_vars PROVE runs' = runs \/ runs' = runs + 1
BY DEF Next, Flow, start, solveChallenge, createSwap, resume,
   resumeFetchFails, verifyDepositAddress, awaitDeposit, resumeFull, reverify,
   resumePhase, runRestricted, pollHead, pollSleep, pollFails, pollAnswer,
   pollAnswerRestricted, cancel, Restart, DeadlinePasses, ServerMoves,
   hostVars, vars

(* An address the provider did not confirm is never shown again by the flow *)
(* that refused it, and its swap never appears to be under way.             *)
THEOREM RefusalIsFinal == Spec => RefusalStands
<1> SUFFICES ASSUME NEW run \in 1..MaxRuns
             PROVE  Spec => []((phase = "verification-failed" /\ runs = run)
                      => [](runs = run => deposit = "none"
                                          /\ phase \notin ProgressPhases))
  BY DEF RefusalStands
<1> DEFINE Closed == runs > run \/ (runs = run /\ Refused)
<1>1. IInv /\ phase = "verification-failed" /\ runs = run => Closed
  BY DEF IInv
<1>2. IInv /\ Closed /\ [Next]_vars => Closed'
  <2> SUFFICES ASSUME IInv, Closed, [Next]_vars PROVE Closed'
    OBVIOUS
  <2>1. runs \in Nat /\ (runs' = runs \/ runs' = runs + 1)
    BY RunsGrow, SwapFlowAssumption DEF IInv, ValuesOK
  <2>2. runs = run /\ Refused /\ runs' = run => Refused'
    BY RefusedKept
  <2> QED
    BY <2>1, <2>2
<1>3. IInv /\ Closed => (runs = run => deposit = "none" /\ phase \notin ProgressPhases)
  BY SwapFlowAssumption DEF Refused, IInv, ValuesOK
<1> HIDE DEF Closed
<1> QED
  BY Invariant, <1>1, <1>2, <1>3, PTL DEF Spec
=============================================================================
