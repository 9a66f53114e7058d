-------------------------- MODULE AtomicFlowProofs --------------------------
(***************************************************************************)
(* Theorems about the atomic-swap flow, for every bound and every host.    *)
(*                                                                         *)
(* What the host is told is true because what the server says is, so the   *)
(* invariant has a part about the world (where the Bitcoin and the Monero  *)
(* are when the server reports an end) and a part about the flow (where    *)
(* its control may be once an end has been reported).                      *)
(***************************************************************************)
EXTENDS AtomicFlow, TLAPS

WorldInv ==
  /\ status = "refunded" => btc = "refunded"
  /\ xmr # "none" => btc \in {"redeemed", "punished"}
  /\ status = "punished" => btc = "punished"
  /\ status = "punished" /\ action = "none" => xmr = "none"
  /\ status = "completed" => xmr = "swept"

FlowInv ==
  /\ phase = "refunded" => btc = "refunded"
  /\ pc = "done" => phase \in FinalPhases \/ aborted
  /\ reached => pc \in {"after", "done", "resweep", "resweeping"}
  /\ pc = "after" /\ reached => phase \in FinalPhases
  /\ phase \in {"completed", "refunded"} =>
       pc = "done" \/ (pc = "after" /\ reached)
  /\ ~refuses /\ phase = "completed" => xmr = "swept"

(* TypeOK, with the flags apart from the rest.                              *)
FlagsOK ==
  /\ released \in BOOLEAN /\ cache \in BOOLEAN /\ aborted \in BOOLEAN
  /\ verified \in BOOLEAN /\ reached \in BOOLEAN /\ refuses \in BOOLEAN

ValuesOK ==
  /\ status \in Statuses /\ action \in RequiredActions
  /\ btc \in {"none", "locked", "redeemed", "cancelled", "refunded", "punished"}
  /\ xmr \in {"none", "ready", "swept"}
  /\ sweeps \in Nat /\ runs \in 1..MaxRuns
  /\ pc \in Labels /\ phase \in Phases /\ caller \in {"none", "after", "watch"}
  /\ lastSeen \in {"none", "pre", "post"}
  /\ tries \in 0..MAX_TRANSIENT_RETRIES

IInv == FlagsOK /\ ValuesOK /\ WorldInv /\ FlowInv

-----------------------------------------------------------------------------
(* What one reported stage does to the phase and to the terminal flag.      *)
LEMMA StageType ==
  ASSUME NEW stage, NEW verification, FlagsOK, ValuesOK,
         mapProgress(stage, verification)
  PROVE  /\ phase' \in Phases /\ lastSeen' \in {"none", "pre", "post"}
         /\ phase' \in {"completed", "refunded"} => reached'
         /\ phase' = "refunded" => stage = "refunded"
         /\ phase' = "completed" => stage \in {"complete", "completed"}
         /\ reached' => reached \/ phase' \in FinalPhases
         /\ reached' => reached \/ IsFinal(stage)
         /\ reached' \in BOOLEAN
<1>1. /\ StagePhase(stage) \in Phases
      /\ StagePhase(stage) \in {"completed", "refunded"} => IsFinal(stage)
      /\ StagePhase(stage) = "refunded" => stage = "refunded"
      /\ StagePhase(stage) = "completed" => stage \in {"complete", "completed"}
      /\ IsFinal(stage) => StagePhase(stage) \in FinalPhases
  BY DEF StagePhase, Phases, FinalPhases, PostFundingStages, IsFinal
<1>2. StatusClass(stage) \in {"pre", "post", "other"}
  BY DEF StatusClass
<1>3. reached' = (reached \/ IsFinal(stage)) /\ reached \in BOOLEAN
  BY DEF mapProgress, FlagsOK
<1>4. /\ lastSeen' = IF StatusClass(stage) = "other"
                     THEN lastSeen ELSE StatusClass(stage)
      /\ lastSeen \in {"none", "pre", "post"}
  BY DEF mapProgress, ValuesOK
<1>5. phase' = IF NeedsVerification(stage) /\ ~verification
               THEN "failed" ELSE StagePhase(stage)
  BY DEF mapProgress
<1>6. IsFinal(stage) => ~NeedsVerification(stage)
  BY DEF IsFinal, NeedsVerification, PostFundingStages
<1> QED
  BY <1>1, <1>2, <1>3, <1>4, <1>5, <1>6 DEF Phases, FinalPhases

(* An error ends the flow with one of three phases.                         *)
LEMMA ErrorEnds ==
  ASSUME NEW kind, handleError(kind)
  PROVE  pc' = "done" /\ phase' \in {"cancelled", "failed", "stalled"}
BY DEF handleError, routeError

LEMMA WorldKept ==
  ASSUME WorldInv, UNCHANGED <<serverVars, chainVars>> PROVE WorldInv'
BY DEF WorldInv, serverVars, chainVars

(* While no end has been reported, a step that reports a stage keeps the    *)
(* flow's part, if the stage is true and a final one makes the loop return. *)
LEMMA ReportKept ==
  ASSUME IInv, ~reached, NEW stage, NEW verification,
         mapProgress(stage, verification), pc' # "done",
         IsFinal(stage) => pc' = "after",
         stage = "refunded" => btc' = "refunded",
         stage \in {"complete", "completed"} => xmr' = "swept"
  PROVE  FlowInv'
<1>1. /\ phase' \in {"completed", "refunded"} => reached'
      /\ phase' = "refunded" => stage = "refunded"
      /\ phase' = "completed" => stage \in {"complete", "completed"}
      /\ reached' => phase' \in FinalPhases
      /\ reached' => IsFinal(stage)
  BY StageType DEF IInv
<1> QED
  BY <1>1 DEF FlowInv

(* A step that reports nothing keeps it too.                                *)
LEMMA QuietKept ==
  ASSUME IInv, ~reached, pc # "done", reached' => pc' = "done",
         phase' = phase \/ phase' \in Phases \ {"completed", "refunded"},
         pc' = "done" => phase' \in FinalPhases
  PROVE  FlowInv'
BY DEF IInv, FlowInv

-----------------------------------------------------------------------------
LEMMA InvInit ==
  ASSUME Init PROVE IInv
<1>1. FlagsOK
  BY Zenon DEF Init, FlagsOK
<1>2. ValuesOK
  <2>1. /\ status = "none" /\ action = "none" /\ btc = "none" /\ xmr = "none"
        /\ sweeps = 0 /\ runs = 1 /\ pc = "idle" /\ phase = "idle"
        /\ caller = "none" /\ lastSeen = "none" /\ tries = 0
    BY Zenon DEF Init
  <2> QED
    BY <2>1, FlowAssumption DEF ValuesOK, Statuses, RequiredActions, Labels, Phases
<1>3. WorldInv /\ FlowInv
  BY Zenon DEF Init, WorldInv, FlowInv
<1> QED
  BY <1>1, <1>2, <1>3 DEF IInv

(* The steps before the loop and those that change nothing but the control. *)
LEMMA EarlyStep ==
  ASSUME IInv, start \/ saveKeystore \/ resumeDeposit \/ prepareDeposit
                 \/ watchDeposit \/ resumeSwap \/ loopThrows
  PROVE  IInv'
<1>1. /\ pc' \in {"keygen", "prepare", "deposit", "create", "fetch", "done"}
      /\ phase' \in Phases \ {"completed", "refunded"}
      /\ pc' = "done" => phase' \in FinalPhases
      /\ tries' \in {tries, 0}
  BY ErrorEnds DEF start, saveKeystore, resumeDeposit, prepareDeposit,
     watchDeposit, resumeSwap, loopThrows, Phases, FinalPhases
<1>2. pc \notin {"after", "done", "resweep", "resweeping"}
  BY DEF start, saveKeystore, resumeDeposit, prepareDeposit,
     watchDeposit, resumeSwap, loopThrows
<1>3. UNCHANGED <<serverVars, chainVars, cache, runs, caller, aborted, memoVars>>
  BY DEF start, saveKeystore, resumeDeposit, prepareDeposit,
     watchDeposit, resumeSwap, loopThrows
<1>4. FlagsOK'
  BY Zenon, <1>3 DEF IInv, FlagsOK, chainVars, memoVars, serverVars
<1>5. ValuesOK'
  BY <1>1, <1>3, FlowAssumption DEF IInv, ValuesOK, serverVars, chainVars,
     memoVars, Labels
<1>6. WorldInv'
  BY <1>3 DEF IInv, WorldInv, serverVars, chainVars
<1>7. FlowInv'
  BY <1>1, <1>2, <1>3 DEF IInv, FlowInv, chainVars, memoVars
<1> QED
  BY <1>4, <1>5, <1>6, <1>7 DEF IInv

(* The steps of the drive loop.                                             *)
LEMMA LoopUnreached ==
  ASSUME IInv, pc \notin {"after", "done", "resweep", "resweeping"}
  PROVE  ~reached
BY DEF IInv, FlowInv

LEMMA LoopStep ==
  ASSUME IInv, loopReturns \/ loopWaits \/ loopSigns \/ loopChecksMonero
                 \/ loopSweeps \/ createSwap
  PROVE  IInv'
<1>1. ~reached /\ pc \in {"loop", "create"}
  BY LoopUnreached DEF loopReturns, loopWaits, loopSigns, loopChecksMonero,
     loopSweeps, createSwap, Reads
<1>2. UNCHANGED <<action, refuses, chainVars, cache, runs, caller, aborted,
                  tries>>
  BY DEF loopReturns, loopWaits, loopSigns, loopChecksMonero, loopSweeps,
     createSwap, serverVars
<1>3. /\ pc' \in {"loop", "gate", "encsig", "sweep", "after", "done"}
      /\ status' = status \/ (status = "none" /\ status' = "awaiting_funding")
  BY ErrorEnds DEF loopReturns, loopWaits, loopSigns, loopChecksMonero,
     loopSweeps, createSwap, Reads, StatusClass, IInv, ValuesOK, serverVars
<1>4. verified' \in BOOLEAN
  BY Zenon DEF loopReturns, loopWaits, loopSigns, loopChecksMonero,
     loopSweeps, createSwap, IInv, FlagsOK
<1>5. /\ lastSeen' \in {"none", "pre", "post"} /\ phase' \in Phases
      /\ reached' \in BOOLEAN
  <2>1. CASE \E stage, verification : mapProgress(stage, verification)
    BY <2>1, StageType DEF IInv
  <2>2. CASE NotReported
    BY <2>2 DEF NotReported, IInv, ValuesOK, FlagsOK
  <2>3. CASE handleError("other") /\ UNCHANGED <<status, lastSeen, reached>>
    BY <2>3, ErrorEnds DEF IInv, ValuesOK, FlagsOK, Phases, FinalPhases
  <2> QED
    BY <2>1, <2>2, <2>3 DEF loopReturns, loopWaits, loopSigns,
       loopChecksMonero, loopSweeps, createSwap, mapCoreProgress
<1>6. FlagsOK'
  BY Zenon, <1>2, <1>4, <1>5 DEF IInv, FlagsOK, chainVars, serverVars
<1>7. ValuesOK'
  BY <1>2, <1>3, <1>5 DEF IInv, ValuesOK, chainVars, Labels, Statuses,
     PRE_FUNDING_STATUSES
<1>8. WorldInv'
  BY <1>2, <1>3 DEF IInv, WorldInv, chainVars
<1>9. FlowInv'
  <2>1. CASE loopReturns
    <3>1. mapProgress(status, verified) /\ pc' = "after"
      BY <2>1 DEF loopReturns, mapCoreProgress
    <3>2. status # "complete"
      BY DEF IInv, ValuesOK, Statuses, PRE_FUNDING_STATUSES,
         TERMINAL_STATUSES, PostFundingStages
    <3> QED
      BY <1>1, <1>2, <3>1, <3>2, ReportKept DEF IInv, WorldInv, chainVars
  <2>2. CASE loopWaits
    <3>1. pc' = "loop" /\ ~IsFinal(status)
      BY <1>1, <2>2 DEF loopWaits, IInv, ValuesOK, Statuses, IsFinal,
         PRE_FUNDING_STATUSES, TERMINAL_STATUSES, PostFundingStages, Reads
    <3>2. CASE mapProgress(status, verified)
      BY <1>1, <3>1, <3>2, ReportKept DEF IsFinal
    <3>3. CASE NotReported
      BY <1>1, <3>1, <3>3, QuietKept DEF NotReported
    <3> QED
      BY <2>2, <3>2, <3>3 DEF loopWaits, mapCoreProgress
  <2>3. CASE loopSigns
    BY <1>1, <2>3, ReportKept DEF loopSigns, IsFinal
  <2>4. CASE loopChecksMonero
    BY <1>1, <2>4, ReportKept DEF loopChecksMonero, IsFinal, mapCoreProgress
  <2>5. CASE loopSweeps
    BY <1>1, <2>5, ReportKept DEF loopSweeps, IsFinal, mapCoreProgress
  <2>6. CASE createSwap
    <3>1. CASE mapProgress("creating_swap", verified) /\ pc' = "loop"
      BY <1>1, <3>1, ReportKept DEF IsFinal
    <3>2. CASE handleError("other") /\ UNCHANGED <<status, lastSeen, reached>>
      BY <1>1, <3>2, ErrorEnds, QuietKept DEF Phases, FinalPhases
    <3> QED
      BY <2>6, <3>1, <3>2 DEF createSwap, mapCoreProgress
  <2> QED
    BY <2>1, <2>2, <2>3, <2>4, <2>5, <2>6
<1> QED
  BY <1>6, <1>7, <1>8, <1>9 DEF IInv

(* The steps that end one of the loop's awaits.                             *)
LEMMA AwaitStep ==
  ASSUME IInv, loopGates \/ loopFunds \/ loopReleases \/ loopSwept
  PROVE  IInv'
<1>1. ~reached /\ pc \in {"gate", "send", "encsig", "sweep"}
  BY LoopUnreached DEF loopGates, loopFunds, loopReleases, loopSwept
<1>2. UNCHANGED <<serverVars, cache, runs, caller, aborted, verified, tries>>
  BY DEF loopGates, loopFunds, loopReleases, loopSwept, serverVars
<1>3. /\ pc' \in {"loop", "send", "after", "done"}
      /\ btc' = btc \/ (btc = "none" /\ btc' = "locked")
      /\ <<xmr, sweeps>>' = <<xmr, sweeps>>
           \/ (xmr # "none" /\ xmr' = "swept" /\ sweeps' = sweeps + 1)
  BY ErrorEnds DEF loopGates, loopFunds, loopReleases, loopSwept, Sweeps,
     chainVars
<1>4. released' \in BOOLEAN
  BY Zenon DEF loopGates, loopFunds, loopReleases, loopSwept, Sweeps,
     chainVars, IInv, FlagsOK
<1>5. /\ FlowInv' /\ lastSeen' \in {"none", "pre", "post"}
      /\ phase' \in Phases /\ reached' \in BOOLEAN
  <2>1. CASE \E stage : mapProgress(stage, verified) /\ pc' # "done"
                         /\ (stage \in {"funding", "verifying_xmr", "confirming"}
                              \/ (stage = "complete" /\ pc' = "after" /\ xmr' = "swept"))
    <3>1. PICK stage : mapProgress(stage, verified) /\ pc' # "done"
                       /\ (stage \in {"funding", "verifying_xmr", "confirming"}
                            \/ (stage = "complete" /\ pc' = "after" /\ xmr' = "swept"))
      BY <2>1
    <3>2. FlowInv'
      BY <1>1, <3>1, ReportKept DEF IsFinal
    <3>3. /\ lastSeen' \in {"none", "pre", "post"} /\ phase' \in Phases
          /\ reached' \in BOOLEAN
      BY <3>1, StageType DEF IInv
    <3> QED
      BY <3>2, <3>3
  <2>2. CASE NotReported /\ pc' # "done"
    <3>1. FlowInv'
      BY <1>1, <2>2, QuietKept DEF NotReported
    <3> QED
      BY <2>2, <3>1 DEF NotReported, IInv, ValuesOK, FlagsOK
  <2>3. CASE \E kind : handleError(kind) /\ lastSeen' = lastSeen
                        /\ reached' \in {reached, TRUE}
    <3>1. pc' = "done" /\ phase' \in {"cancelled", "failed", "stalled"}
      BY <2>3, ErrorEnds
    <3>2. FlowInv'
      BY <1>1, <3>1, QuietKept DEF Phases, FinalPhases
    <3>3. reached' \in BOOLEAN
      BY Zenon, <2>3 DEF IInv, FlagsOK
    <3> QED
      BY <2>3, <3>1, <3>2, <3>3 DEF IInv, ValuesOK, Phases, FinalPhases
  <2>4. CASE loopGates
    BY <2>4, <2>1, <2>2, <2>3 DEF loopGates, mapCoreProgress
  <2>5. CASE loopFunds
    BY <2>5, <2>1, <2>2, <2>3 DEF loopFunds, mapCoreProgress
  <2>6. CASE loopReleases
    BY <2>6, <2>1, <2>2, <2>3 DEF loopReleases, mapCoreProgress
  <2>7. CASE loopSwept
    BY <2>7, <2>1, <2>2, <2>3 DEF loopSwept, mapCoreProgress, Sweeps
  <2> QED
    BY <2>4, <2>5, <2>6, <2>7, <1>1
<1>6. FlagsOK'
  BY Zenon, <1>2, <1>4, <1>5 DEF IInv, FlagsOK, serverVars
<1>7. ValuesOK'
  BY <1>2, <1>3, <1>5 DEF IInv, ValuesOK, serverVars, Labels
<1>8. WorldInv'
  BY <1>2, <1>3 DEF IInv, WorldInv, serverVars
<1> QED
  BY <1>5, <1>6, <1>7, <1>8 DEF IInv

(* The first look at a swap that is resumed.                                *)
LEMMA FetchStep ==
  ASSUME IInv, fetchDetailWithRetry PROVE IInv'
<1>1. pc = "fetch" /\ ~reached
  BY LoopUnreached DEF fetchDetailWithRetry
<1>2. UNCHANGED <<serverVars, chainVars, cache, runs, caller, aborted,
                  lastSeen, reached>>
  BY DEF fetchDetailWithRetry
<1>3. /\ pc' \in {"fetch", "loop", "done"} /\ phase' \in Phases
      /\ tries' \in 0..MAX_TRANSIENT_RETRIES
      /\ pc' = "done" => phase' \in FinalPhases
      /\ phase' \in {"completed", "refunded"} => pc' = "done" /\ status = phase'
  BY <1>1, ErrorEnds, FlowAssumption DEF fetchDetailWithRetry, IInv, ValuesOK,
     Phases, FinalPhases, FetchRetries, emitTerminal, Ends, TerminalPhase
<1>4. verified' \in BOOLEAN
  BY Zenon DEF fetchDetailWithRetry, IInv, FlagsOK
<1>5. FlagsOK'
  BY Zenon, <1>2, <1>4 DEF IInv, FlagsOK, chainVars, serverVars
<1>6. ValuesOK'
  BY <1>2, <1>3 DEF IInv, ValuesOK, serverVars, chainVars, Labels
<1>7. WorldInv'
  BY <1>2, WorldKept DEF IInv
<1>8. FlowInv'
  BY <1>1, <1>2, <1>3 DEF IInv, FlowInv, WorldInv, chainVars
<1> QED
  BY <1>5, <1>6, <1>7, <1>8 DEF IInv

(* After the loop: the last look, the polling and the sweep.                *)
LEMMA AfterStep ==
  ASSUME IInv, afterReached \/ afterRefused \/ afterDetail \/ pollStopped
                 \/ pollRound \/ resweepStarts \/ userRetrySweep
  PROVE  IInv'
<1>1. UNCHANGED <<serverVars, chainVars, runs, aborted, memoVars, tries>>
  BY DEF afterReached, afterRefused, afterDetail, pollStopped, pollRound,
     resweepStarts, userRetrySweep, OfferedRetry
<1>2. /\ pc' \in {"done", "refund", "resweep", "resweeping", "watch"}
      /\ phase' \in Phases /\ caller' \in {"none", "after", "watch"}
      /\ phase' \in {"completed", "refunded"} =>
           /\ pc' = "done"
           /\ phase' = phase \/ status = phase'
                \/ (refuses /\ phase' = "completed")
      /\ pc' = "done" => phase' \in FinalPhases \/ aborted
      /\ reached => pc' \in {"done", "resweep", "resweeping"}
  <2>1. CASE afterReached
    BY <2>1 DEF afterReached, IInv, ValuesOK, FlowInv
  <2>2. CASE afterRefused
    BY <2>2 DEF afterRefused, IInv, ValuesOK, FlowInv, emitTerminal, Ends,
       TerminalPhase, Phases, FinalPhases
  <2>3. CASE afterDetail
    BY <2>3 DEF afterDetail, IInv, ValuesOK, FlowInv, emitTerminal, Ends,
       TerminalPhase, Phases, FinalPhases
  <2>4. CASE pollStopped
    BY <2>4 DEF pollStopped, PollStops, IInv, ValuesOK, FlowInv
  <2>5. CASE pollRound
    BY <2>5 DEF pollRound, IInv, ValuesOK, FlowInv, emitTerminal, Ends,
       TerminalPhase, Phases, FinalPhases
  <2>6. CASE resweepStarts
    BY <2>6 DEF resweepStarts, IInv, ValuesOK, FlowInv, Ends, Phases, FinalPhases
  <2>7. CASE userRetrySweep
    BY <2>7 DEF userRetrySweep, OfferedRetry, IInv, ValuesOK, FlowInv
  <2> QED
    BY <2>1, <2>2, <2>3, <2>4, <2>5, <2>6, <2>7
<1>3. cache' \in BOOLEAN
  BY Zenon DEF afterReached, afterRefused, afterDetail, pollStopped, pollRound,
     resweepStarts, userRetrySweep, MayCache, IInv, FlagsOK
<1>4. FlagsOK'
  BY Zenon, <1>1, <1>3 DEF IInv, FlagsOK, chainVars, memoVars, serverVars
<1>5. ValuesOK'
  BY <1>1, <1>2 DEF IInv, ValuesOK, serverVars, chainVars, memoVars, Labels
<1>6. WorldInv'
  BY <1>1, WorldKept DEF IInv
<1>7. FlowInv'
  BY <1>1, <1>2 DEF IInv, FlowInv, WorldInv, serverVars, chainVars, memoVars
<1> QED
  BY <1>4, <1>5, <1>6, <1>7 DEF IInv

LEMMA ResweepStep ==
  ASSUME IInv, resweepEnds PROVE IInv'
<1>1. UNCHANGED <<serverVars, btc, released, cache, runs, caller, aborted,
                  memoVars, tries>>
  BY DEF resweepEnds, Sweeps, chainVars
<1>2. /\ pc = "resweeping" /\ pc' = "done" /\ phase' \in {"completed", "failed"}
      /\ <<xmr, sweeps>>' = <<xmr, sweeps>>
           \/ (xmr # "none" /\ xmr' = "swept" /\ sweeps' = sweeps + 1)
      /\ phase' = "completed" => xmr' = "swept"
  BY DEF resweepEnds, Sweeps, chainVars, Ends, emitTerminal, TerminalPhase,
     IInv, WorldInv
<1>3. FlagsOK'
  BY Zenon, <1>1 DEF IInv, FlagsOK, memoVars, serverVars
<1>4. ValuesOK'
  BY <1>1, <1>2 DEF IInv, ValuesOK, serverVars, memoVars, Labels, Phases,
     FinalPhases
<1>5. WorldInv'
  BY <1>1, <1>2 DEF IInv, WorldInv, serverVars
<1>6. FlowInv'
  BY <1>1, <1>2 DEF FlowInv, FinalPhases
<1> QED
  BY <1>3, <1>4, <1>5, <1>6 DEF IInv

(* executeRefund.                                                           *)
LEMMA RefundStep ==
  ASSUME IInv, refundDetailFails \/ refundRefused \/ refundPrepared
                 \/ refundThrows \/ refundVerifies \/ refundSigns
                 \/ refundBroadcasts
  PROVE  IInv'
<1>1. UNCHANGED <<serverVars, released, xmr, sweeps, runs, caller, aborted,
                  memoVars, tries>>
  BY DEF refundDetailFails, refundRefused, refundPrepared, refundThrows,
     refundVerifies, refundSigns, refundBroadcasts, chainVars
<1>2. ~reached /\ pc \notin {"done", "after"}
  BY LoopUnreached DEF refundDetailFails, refundRefused, refundPrepared,
     refundThrows, refundVerifies, refundSigns, refundBroadcasts
<1>3. btc' = btc \/ (btc = "cancelled" /\ btc' = "refunded")
  BY DEF refundDetailFails, refundRefused, refundPrepared, refundThrows,
     refundVerifies, refundSigns, refundBroadcasts, chainVars
<1>4. /\ pc' \in {"cancel-check", "watch", "assemble", "broadcast", "done"}
      /\ phase' = phase \/ phase' \in Phases \ {"completed"}
      /\ phase' = "refunded" => pc' = "done" /\ btc' = "refunded"
      /\ pc' = "done" => phase' \in FinalPhases
  <2>1. phase # "refunded"
    BY <1>2 DEF IInv, FlowInv
  <2> QED
    BY <2>1, ErrorEnds DEF refundDetailFails, refundRefused, refundPrepared,
       refundThrows, refundVerifies, refundSigns, refundBroadcasts,
       Ends, AlreadyKnown, Phases, FinalPhases, chainVars
<1>5. cache' \in BOOLEAN
  BY Zenon DEF refundDetailFails, refundRefused, refundPrepared, refundThrows,
     refundVerifies, refundSigns, refundBroadcasts, MayCache, IInv, FlagsOK
<1>6. FlagsOK'
  BY Zenon, <1>1, <1>5 DEF IInv, FlagsOK, memoVars, serverVars
<1>7. ValuesOK'
  BY <1>1, <1>3, <1>4 DEF IInv, ValuesOK, serverVars, memoVars, Labels
<1>8. WorldInv'
  BY <1>1, <1>3 DEF IInv, WorldInv, serverVars
<1>9. FlowInv'
  BY <1>1, <1>2, <1>3, <1>4 DEF IInv, FlowInv, memoVars
<1> QED
  BY <1>6, <1>7, <1>8, <1>9 DEF IInv

(* The host cancels, or starts again.                                       *)
LEMMA HostStep ==
  ASSUME IInv, cancel \/ Restart PROVE IInv'
<1>1. CASE cancel
  <2>1. FlagsOK'
    BY Zenon, <1>1 DEF cancel, IInv, FlagsOK, chainVars, memoVars, serverVars
  <2>2. ValuesOK' /\ WorldInv' /\ FlowInv'
    BY <1>1 DEF cancel, IInv, ValuesOK, WorldInv, FlowInv, serverVars,
       chainVars, memoVars
  <2> QED
    BY <2>1, <2>2 DEF IInv
<1>2. CASE Restart
  <2>1. FlagsOK'
    BY Zenon, <1>2 DEF Restart, IInv, FlagsOK, chainVars, serverVars
  <2>2. /\ UNCHANGED <<serverVars, chainVars>> /\ runs < MaxRuns /\ runs' = runs + 1
        /\ pc' = "idle" /\ phase' = "idle" /\ caller' = "none"
        /\ lastSeen' = "none" /\ tries' = 0 /\ ~reached'
    BY Zenon, <1>2 DEF Restart
  <2>3. ValuesOK' /\ WorldInv' /\ FlowInv'
    BY <2>2, FlowAssumption DEF IInv, ValuesOK, WorldInv, FlowInv, serverVars,
       chainVars, Labels, Phases
  <2> QED
    BY <2>1, <2>3 DEF IInv
<1> QED
  BY <1>1, <1>2

(* The server and the chains move.                                          *)
LEMMA ServerStep ==
  ASSUME IInv, Server PROVE IInv'
<1>1. UNCHANGED <<refuses, released, sweeps, cache, runs, pc, phase, caller,
                  aborted, memoVars, tries>>
  BY DEF Server, AskFund, GiveUp, SeeLock, AskEncsig, TakeEncsig, Redeem,
     CancelDue, ConfirmCancel, Punish, Cooperate, SeeRefund, SeeSweep,
     ServerMoves, chainVars
<1>2. FlagsOK'
  BY Zenon, <1>1 DEF IInv, FlagsOK, memoVars, serverVars
<1>3. ValuesOK' /\ WorldInv' /\ FlowInv'
  <2>1. /\ status' \in Statuses /\ action' \in RequiredActions
        /\ btc' \in {"none", "locked", "redeemed", "cancelled", "refunded",
                     "punished"}
        /\ xmr' \in {"none", "ready", "swept"}
    BY DEF Server, AskFund, GiveUp, SeeLock, AskEncsig, TakeEncsig, Redeem,
       CancelDue, ConfirmCancel, Punish, Cooperate, SeeRefund, SeeSweep,
       ServerMoves, chainVars, IInv, ValuesOK, Statuses, RequiredActions,
       PRE_FUNDING_STATUSES, TERMINAL_STATUSES, PostFundingStages
  <2>2. ValuesOK'
    BY <1>1, <2>1 DEF IInv, ValuesOK, memoVars
  <2>3. /\ btc = "refunded" => btc' = "refunded"
        /\ xmr = "swept" => xmr' = "swept"
    BY DEF Server, AskFund, GiveUp, SeeLock, AskEncsig, TakeEncsig, Redeem,
       CancelDue, ConfirmCancel, Punish, Cooperate, SeeRefund, SeeSweep,
       ServerMoves, chainVars, IInv, WorldInv
  <2>4. WorldInv'
    BY DEF Server, AskFund, GiveUp, SeeLock, AskEncsig, TakeEncsig, Redeem,
       CancelDue, ConfirmCancel, Punish, Cooperate, SeeRefund, SeeSweep,
       ServerMoves, chainVars, IInv, WorldInv
  <2>5. FlowInv'
    BY <1>1, <2>3 DEF IInv, FlowInv, memoVars
  <2> QED
    BY <2>2, <2>4, <2>5
<1> QED
  BY <1>2, <1>3 DEF IInv

LEMMA InvNext ==
  ASSUME IInv, [Next]_vars PROVE IInv'
<1>1. CASE Next
  BY <1>1, EarlyStep, LoopStep, AwaitStep, FetchStep, AfterStep, ResweepStep,
     RefundStep, HostStep, ServerStep DEF Next, Flow, Host
<1>2. CASE UNCHANGED vars
  <2>1. FlagsOK'
    BY Zenon, <1>2 DEF vars, chainVars, memoVars, IInv, FlagsOK, serverVars
  <2>2. ValuesOK' /\ WorldInv' /\ FlowInv'
    BY <1>2 DEF vars, serverVars, chainVars, memoVars, IInv, ValuesOK,
       WorldInv, FlowInv
  <2> QED
    BY <2>1, <2>2 DEF IInv
<1> QED
  BY <1>1, <1>2

THEOREM Invariant == Spec => []IInv
BY InvInit, InvNext, PTL DEF Spec

-----------------------------------------------------------------------------
(* Every variable keeps its type.                                           *)
THEOREM TypeCorrect == Spec => []TypeOK
<1>1. IInv => TypeOK
  BY Zenon DEF IInv, FlagsOK, ValuesOK, TypeOK
<1> QED
  BY Invariant, <1>1, PTL

(* "refunded" is reported only of Bitcoin that the refund transaction has   *)
(* returned.                                                                *)
THEOREM RefundsAreTrue == Spec => []RefundedOnChain
<1>1. IInv => RefundedOnChain
  BY DEF IInv, FlowInv, RefundedOnChain
<1> QED
  BY Invariant, <1>1, PTL

(* No path through the flow ends without a verdict, but for a cancel.       *)
THEOREM EndsAreTold == Spec => []EndsWithVerdict
<1>1. IInv => EndsWithVerdict
  BY DEF IInv, FlowInv, EndsWithVerdict
<1> QED
  BY Invariant, <1>1, PTL

(* With a server that never refuses to show the swap, "completed" is        *)
(* reported only of Monero that has been swept.                             *)
THEOREM CompletionsAreTrue == Spec => []AnsweredCompletionTrue
<1>1. IInv => AnsweredCompletionTrue
  BY DEF IInv, FlowInv, AnsweredCompletionTrue, CompletedMeansSwept
<1> QED
  BY Invariant, <1>1, PTL

(* A completed or refunded swap keeps its phase for the flow's life.        *)
THEOREM VerdictsStand == Spec => VerdictStands
<1> DEFINE Stands == phase \in {"completed", "refunded"} =>
                       phase' \in {phase, "idle"}
<1>1. IInv /\ [Next]_vars => [Stands]_vars
  <2> SUFFICES ASSUME IInv, Next, phase \in {"completed", "refunded"}
               PROVE  phase' \in {phase, "idle"}
    BY DEF vars
  <2>1. pc = "done" \/ (pc = "after" /\ reached)
    BY DEF IInv, FlowInv
  <2>2. CASE Flow
    BY <2>1, <2>2 DEF Flow, start, saveKeystore, resumeDeposit,
       prepareDeposit, watchDeposit, createSwap, resumeSwap,
       fetchDetailWithRetry, loopThrows, loopReturns, loopWaits, loopSigns,
       loopGates, loopFunds, loopChecksMonero, loopReleases, loopSweeps,
       loopSwept, Reads, afterReached, afterRefused, afterDetail, pollStopped,
       pollRound, resweepStarts, resweepEnds, refundDetailFails, refundRefused,
       refundPrepared, refundThrows, refundVerifies, refundSigns,
       refundBroadcasts
  <2>3. CASE Host
    BY <2>1, <2>3 DEF Host, cancel, Restart, userRetrySweep
  <2>4. CASE Server
    BY <2>4 DEF Server, AskFund, GiveUp, SeeLock, AskEncsig, TakeEncsig,
       Redeem, CancelDue, ConfirmCancel, Punish, Cooperate, SeeRefund,
       SeeSweep, ServerMoves
  <2> QED
    BY <2>2, <2>3, <2>4 DEF Next
<1> QED
  BY Invariant, <1>1, PTL DEF Spec, VerdictStands
-----------------------------------------------------------------------------
(* Where one step takes the Bitcoin of the lock.                            *)
LockMoves ==
  \/ btc = "none" /\ btc' = "locked"
  \/ btc = "locked" /\ btc' \in {"redeemed", "cancelled"}
  \/ btc = "cancelled" /\ btc' \in {"refunded", "punished"}

LEMMA LockMovesOnce ==
  ASSUME [Next]_vars PROVE btc' = btc \/ LockMoves
<1>1. CASE loopFunds
  BY <1>1 DEF loopFunds, LockMoves
<1>2. CASE refundBroadcasts
  BY <1>2 DEF refundBroadcasts, LockMoves
<1>3. CASE loopSwept \/ resweepEnds
  BY <1>3 DEF loopSwept, resweepEnds, Sweeps, chainVars
<1>4. CASE loopReleases
  BY <1>4 DEF loopReleases
<1>5. CASE Flow /\ ~(loopFunds \/ refundBroadcasts \/ loopSwept
                       \/ resweepEnds \/ loopReleases)
  BY <1>5 DEF Flow, start, saveKeystore, resumeDeposit, prepareDeposit,
     watchDeposit, createSwap, resumeSwap, fetchDetailWithRetry, loopThrows,
     loopReturns, loopWaits, loopSigns, loopGates, loopChecksMonero,
     loopSweeps, afterReached, afterRefused, afterDetail, pollStopped,
     pollRound, resweepStarts, refundDetailFails, refundRefused,
     refundPrepared, refundThrows, refundVerifies, refundSigns, chainVars
<1>6. CASE Host
  BY <1>6 DEF Host, cancel, Restart, userRetrySweep, chainVars
<1>7. CASE Server
  BY <1>7 DEF Server, AskFund, GiveUp, SeeLock, AskEncsig, TakeEncsig, Redeem,
     CancelDue, ConfirmCancel, Punish, Cooperate, SeeRefund, SeeSweep,
     chainVars, LockMoves
<1>8. CASE UNCHANGED vars
  BY <1>8 DEF vars, chainVars
<1> QED
  BY <1>1, <1>2, <1>3, <1>4, <1>5, <1>6, <1>7, <1>8 DEF Next

(* The flow with its server and its chains implements the promise of the    *)
(* way back: every step is one of the promise, or one it does not see.      *)
THEOREM Refinement == Spec => KeepsRefundPromise
<1>1. Init => Promise!Init
  BY DEF Init, Promise!Init
<1>2. IInv /\ IInv' /\ [Next]_vars => [Promise!Next]_(Promise!vars)
  <2> SUFFICES ASSUME IInv, IInv', [Next]_vars
               PROVE  [Promise!Next]_(Promise!vars)
    OBVIOUS
  <2> DEFINE told == phase = "refunded"
  <2>1. (told => btc = "refunded") /\ (told' => btc' = "refunded")
    BY DEF IInv, FlowInv
  <2>2. CASE LockMoves
    <3>1. ~told /\ (btc' # "refunded" => ~told')
      BY <2>1, <2>2 DEF LockMoves
    <3> QED
      BY <2>2, <3>1
      DEF LockMoves, Promise!Next, Promise!Moves, Promise!Lock,
          Promise!Redeem, Promise!Cancel, Promise!Punish, Promise!Refund
  <2>3. CASE btc' = btc
    <3>1. CASE btc = "refunded"
      BY <2>3, <3>1 DEF Promise!Next, Promise!Tell
    <3>2. CASE btc # "refunded"
      BY <2>1, <2>3, <3>2 DEF Promise!vars
    <3> QED
      BY <3>1, <3>2
  <2> QED
    BY <2>2, <2>3, LockMovesOnce
<1> QED
  BY <1>1, <1>2, Invariant, PTL DEF Spec, KeepsRefundPromise, Promise!Spec

(* Once a swap has been reported as completed no sweep is made, whatever    *)
(* the server asks for.                                                     *)
THEOREM NoPhantomSweep == Spec => [][phase = "completed" => sweeps' = sweeps]_vars
<1>1. IInv /\ [Next]_vars => [phase = "completed" => sweeps' = sweeps]_vars
  <2> SUFFICES ASSUME IInv, [Next]_vars, phase = "completed"
               PROVE  sweeps' = sweeps
    OBVIOUS
  <2>1. pc \notin {"sweep", "resweeping", "loop", "send", "encsig"}
    BY DEF IInv, FlowInv
  <2>2. CASE Flow
    BY <2>1, <2>2 DEF Flow, start, saveKeystore, resumeDeposit,
       prepareDeposit, watchDeposit, createSwap, resumeSwap,
       fetchDetailWithRetry, loopThrows, loopReturns, loopWaits, loopSigns,
       loopGates, loopFunds, loopChecksMonero, loopReleases, loopSweeps,
       loopSwept, Reads, afterReached, afterRefused, afterDetail, pollStopped,
       pollRound, resweepStarts, resweepEnds, refundDetailFails, refundRefused,
       refundPrepared, refundThrows, refundVerifies, refundSigns,
       refundBroadcasts, chainVars
  <2>3. CASE Host
    BY <2>3 DEF Host, cancel, Restart, userRetrySweep, chainVars
  <2>4. CASE Server
    BY <2>4 DEF Server, AskFund, GiveUp, SeeLock, AskEncsig, TakeEncsig,
       Redeem, CancelDue, ConfirmCancel, Punish, Cooperate, SeeRefund,
       SeeSweep, ServerMoves, chainVars
  <2>5. CASE UNCHANGED vars
    BY <2>5 DEF vars, chainVars
  <2> QED
    BY <2>2, <2>3, <2>4, <2>5 DEF Next
<1> QED
  BY Invariant, <1>1, PTL DEF Spec
=============================================================================
