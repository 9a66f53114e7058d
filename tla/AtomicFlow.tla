----------------------------- MODULE AtomicFlow -----------------------------
(***************************************************************************)
(* The engine's atomic-swap flow (src/engine/flows/atomic-flow.ts): what   *)
(* the host sees of a BTC -> XMR swap.  The flow prepares the deposit,     *)
(* runs the drive loop and maps the loop's progress to phases; when the    *)
(* loop has returned it looks at the server again and refunds, sweeps or   *)
(* keeps polling.  A flow that is dropped by a crash is resumed from its   *)
(* keystore by a new flow object.                                          *)
(*                                                                         *)
(* The drive loop appears here by the stages it reports and the ways it    *)
(* ends; AtomicDrive models its gates.  What the loop does between two     *)
(* awaits is one action, and pc names the await the flow is in.            *)
(*                                                                         *)
(* getSwapDetail throws only on an error the API client passes on: a 4xx   *)
(* that is kept up, or an answer of another shape (refuses).  While the    *)
(* server is down it does not throw, and does not return: ApiClient        *)
(* repeats the request without limit, and the flow stays in its await.     *)
(*                                                                         *)
(* As in AtomicDrive, an operator written just before another of a similar *)
(* name is its faulty twin, to which nothing refers.                       *)
(***************************************************************************)
EXTENDS Naturals

CONSTANTS
  MAX_TRANSIENT_RETRIES,  \* retries of the first fetch of a resume
  HasProtocolCache,       \* the host passes loadSwapProtocol / saveSwapProtocol
  MaxRuns                 \* bound: flow objects created for this swap

ASSUME FlowAssumption ==
  /\ MAX_TRANSIENT_RETRIES \in Nat
  /\ HasProtocolCache \in BOOLEAN
  /\ MaxRuns \in Nat \ {0}

VARIABLES
  \* the server
  status,       \* SwapDetail.status, "none" before the swap is created
  action,       \* SwapDetail.requiredAction
  refuses,      \* the server may answer getSwapDetail with an error, fixed
  \* the chains
  btc,          \* "none", "locked", "redeemed", "cancelled", "refunded", "punished"
  released,     \* the server has the redeem encsig
  xmr,          \* "none", "ready" to be swept, "swept"
  sweeps,       \* sweep transactions this client has made
  \* the host
  cache,        \* the protocol cache holds a refund escape hatch
  runs,
  \* the flow
  pc, phase,
  caller,       \* from where executeRefund was entered
  aborted,      \* abortController
  verified,     \* flowCtx.verification is set
  lastSeen,     \* lastSeenStatus, as "none", "pre" or "post" funding
  reached,      \* hasReachedTerminal
  tries         \* attempt of fetchDetailWithRetry

serverVars == <<status, action, refuses>>
chainVars  == <<btc, released, xmr, sweeps>>
memoVars   == <<verified, lastSeen, reached>>
vars == <<serverVars, chainVars, cache, runs, pc, phase, caller, aborted,
          memoVars, tries>>

PRE_FUNDING_STATUSES == {"awaiting_funding"}
TERMINAL_STATUSES == {"completed", "refunded", "failed", "expired"}
PostFundingStages == {"swapping", "sending", "punished"}
Statuses == {"none", "cancelling"} \cup PRE_FUNDING_STATUSES
              \cup TERMINAL_STATUSES \cup PostFundingStages
RequiredActions == {"none", "fund", "submit_encsig", "cancel", "refund", "sweep"}

FinalPhases == {"completed", "refunded", "cancelled", "failed", "stalled"}
Phases == FinalPhases \cup
  {"idle", "keygen", "keystore-saved", "awaiting-deposit", "deposit-detected",
   "creating-swap", "signing", "funding", "computing-encsig", "confirming",
   "swapping", "sweeping", "verifying-cancel", "refunding"}
Labels == {"idle", "keygen", "prepare", "deposit", "create", "fetch", "loop",
           "gate", "send", "encsig", "sweep", "after", "watch", "resweep",
           "resweeping", "refund", "cancel-check", "assemble", "broadcast", "done"}

Init ==
  /\ status = "none" /\ action = "none" /\ refuses \in BOOLEAN
  /\ btc = "none" /\ released = FALSE /\ xmr = "none" /\ sweeps = 0
  /\ cache = FALSE /\ runs = 1
  /\ pc = "idle" /\ phase = "idle" /\ caller = "none" /\ aborted = FALSE
  /\ verified = FALSE /\ lastSeen = "none"
  /\ reached = FALSE /\ tries = 0

-----------------------------------------------------------------------------
(* How a flow ends: by an error thrown somewhere below start or             *)
(* resumeFromKeystore, or by a terminal status.                             *)

routeError(kind) ==
  IF aborted \/ kind = "cancelled" THEN "cancelled"
  ELSE IF kind = "verification" THEN "failed"
  ELSE IF lastSeen = "post" THEN "stalled"
  ELSE "failed"

handleError(kind) == phase' = routeError(kind) /\ pc' = "done"

Ends(newPhase) == phase' = newPhase /\ pc' = "done"

TerminalPhaseGuessed(final) == IF final = "refunded" THEN "refunded" ELSE "completed"
TerminalPhaseKept(final) ==
  IF final = "expired" THEN phase
  ELSE IF final \in {"completed", "refunded"} THEN final ELSE "failed"
TerminalPhase(final) ==
  IF final \in {"completed", "refunded"} THEN final ELSE "failed"

emitTerminal(final) == Ends(TerminalPhase(final))

-----------------------------------------------------------------------------
(* mapCoreProgress: a stage the drive loop reports becomes a phase.  Some   *)
(* phases need a verification in the flow context; without one the phase is *)
(* failed, and the loop is not told.                                        *)

NeedsVerification(stage) ==
  stage \in {"signing_psbt", "funding", "submit_encsig", "verifying_xmr",
             "confirming", "sweeping"} \cup PostFundingStages

StagePhase(stage) ==
  IF stage = "signing_psbt" THEN "signing"
  ELSE IF stage = "submit_encsig" THEN "computing-encsig"
  ELSE IF stage = "verifying_xmr" THEN "confirming"
  ELSE IF stage \in PostFundingStages THEN "swapping"
  ELSE IF stage \in {"funding", "confirming", "sweeping", "completed",
                     "refunded", "failed"} THEN stage
  ELSE IF stage = "complete" THEN "completed"
  ELSE IF stage = "expired" THEN "failed"
  ELSE "creating-swap"

IsFinalForgotten(stage) == stage \in {"completed", "failed", "refunded"}
IsFinal(stage) == stage \in {"complete", "completed", "failed", "refunded"}

StatusClass(s) ==
  IF s \in PRE_FUNDING_STATUSES THEN "pre"
  ELSE IF s \in PostFundingStages THEN "post" ELSE "other"

mapProgress(stage, verification) ==
  /\ phase' = IF NeedsVerification(stage) /\ ~verification
              THEN "failed" ELSE StagePhase(stage)
  /\ lastSeen' = IF StatusClass(stage) = "other"
                 THEN lastSeen ELSE StatusClass(stage)
  /\ reached' = (reached \/ IsFinal(stage))

mapCoreProgress(stage) == mapProgress(stage, verified)

-----------------------------------------------------------------------------
(* Up to the deposit.                                                       *)

start ==
  /\ pc = "idle" /\ status = "none"
  /\ pc' = "keygen" /\ phase' = "keygen"
  /\ UNCHANGED <<serverVars, chainVars, cache, runs, caller, aborted,
                 memoVars, tries>>

(* Keys made and checked by the server, keystore saved.                     *)
saveKeystore ==
  /\ pc = "keygen"
  /\ \/ ~aborted /\ pc' = "prepare" /\ phase' = "keystore-saved"
     \/ handleError("other")
  /\ UNCHANGED <<serverVars, chainVars, cache, runs, caller, aborted,
                 memoVars, tries>>

(* Resume without a swap: the deposit may be there already.                 *)
resumeDeposit ==
  /\ pc = "idle" /\ status = "none"
  /\ \/ pc' = "create" /\ phase' = "deposit-detected"
     \/ pc' = "deposit" /\ phase' = "awaiting-deposit"
     \/ handleError("other")
  /\ UNCHANGED <<serverVars, chainVars, cache, runs, caller, aborted,
                 memoVars, tries>>

prepareDeposit ==
  /\ pc = "prepare"
  /\ \/ ~aborted /\ pc' = "deposit" /\ phase' = "awaiting-deposit"
     \/ handleError("other")
  /\ UNCHANGED <<serverVars, chainVars, cache, runs, caller, aborted,
                 memoVars, tries>>

watchDeposit ==
  /\ pc = "deposit"
  /\ \/ pc' = "create" /\ phase' = "deposit-detected"
     \/ handleError("other")
  /\ UNCHANGED <<serverVars, chainVars, cache, runs, caller, aborted,
                 memoVars, tries>>

(* The deposit buys a swap; the signal is looked at before that.            *)
createSwap ==
  /\ pc = "create"
  /\ \/ /\ ~aborted /\ status = "none"
        /\ status' = "awaiting_funding"
        /\ mapCoreProgress("creating_swap")
        /\ pc' = "loop"
     \/ handleError("other") /\ UNCHANGED <<status, lastSeen, reached>>
  /\ UNCHANGED <<action, refuses, chainVars, cache, runs, caller, aborted, verified, tries>>

(* Resume of a swap the server knows.                                       *)
resumeSwap ==
  /\ pc = "idle" /\ status # "none"
  /\ pc' = "fetch" /\ phase' = "creating-swap" /\ tries' = 0
  /\ UNCHANGED <<serverVars, chainVars, cache, runs, caller, aborted, memoVars>>

FetchRetriesDown == tries' = tries - 1
FetchRetries == tries' = tries + 1

fetchDetailWithRetry ==
  /\ pc = "fetch"
  /\ \/ /\ refuses /\ tries < MAX_TRANSIENT_RETRIES /\ ~aborted
        /\ FetchRetries /\ phase' = "creating-swap" /\ UNCHANGED <<pc, verified>>
     \/ refuses /\ handleError("other") /\ UNCHANGED <<tries, verified>>
     \/ /\ status \in TERMINAL_STATUSES /\ emitTerminal(status)
        /\ UNCHANGED <<tries, verified>>
     \/ /\ status \notin TERMINAL_STATUSES
        /\ verified' = TRUE
        /\ pc' = "loop" /\ phase' = "creating-swap" /\ UNCHANGED tries
     \/ handleError("other") /\ UNCHANGED <<tries, verified>>
  /\ UNCHANGED <<serverVars, chainVars, cache, runs, caller, aborted,
                 lastSeen, reached>>

-----------------------------------------------------------------------------
(* The drive loop.  Reading the detail and dispatching on it takes one step *)
(* up to the next await.                                                    *)

Reads == pc = "loop" /\ ~aborted

NotReported == UNCHANGED <<lastSeen, reached, phase>>

loopThrows ==
  /\ pc = "loop"
  /\ aborted \/ refuses \/ status \in PRE_FUNDING_STATUSES
  /\ handleError("other")
  /\ UNCHANGED <<serverVars, chainVars, cache, runs, caller, aborted,
                 memoVars, tries>>

(* A terminal status, or one the loop leaves to its caller.                 *)
loopReturns ==
  /\ Reads
  /\ \/ status \in TERMINAL_STATUSES
     \/ action \in {"cancel", "refund"} /\ status # "sending"
  /\ mapCoreProgress(status)
  /\ pc' = "after"
  /\ UNCHANGED <<serverVars, chainVars, cache, runs, caller, aborted,
                 verified, tries>>

loopWaits ==
  /\ Reads
  /\ status \notin TERMINAL_STATUSES
  /\ \/ action = "none" /\ status # "sending" /\ mapCoreProgress(status)
     \/ action = "fund" /\ NotReported
  /\ UNCHANGED <<serverVars, chainVars, cache, runs, pc, caller, aborted,
                 verified, tries>>

(* The fund branch, up to the pre-signatures.  The verification travels     *)
(* with the stage, if the server sent one.                                  *)
loopSigns ==
  /\ Reads
  /\ status \notin TERMINAL_STATUSES /\ action = "fund"
  /\ verified' \in {verified, TRUE}
  /\ mapProgress("signing_psbt", verified')
  /\ pc' = "gate"
  /\ UNCHANGED <<serverVars, chainVars, cache, runs, caller, aborted, tries>>

loopGates ==
  /\ pc = "gate"
  /\ \/ handleError("verification") /\ UNCHANGED <<lastSeen, reached>>
     \/ handleError("other") /\ UNCHANGED <<lastSeen, reached>>
     \/ pc' = "loop" /\ NotReported
     \/ pc' = "send" /\ mapCoreProgress("funding")
  /\ UNCHANGED <<serverVars, chainVars, cache, runs, caller, aborted,
                 verified, tries>>

(* /presigs, the snapshot and /fund.  An answer that is lost is not         *)
(* reported.                                                                *)
loopFunds ==
  /\ pc = "send"
  /\ \/ /\ btc = "none" /\ status \in PRE_FUNDING_STATUSES
        /\ btc' = "locked" /\ pc' = "loop"
        /\ mapCoreProgress("funding") \/ NotReported
     \/ pc' = "loop" /\ NotReported /\ UNCHANGED btc
     \/ handleError("other") /\ UNCHANGED <<btc, lastSeen, reached>>
  /\ UNCHANGED <<serverVars, released, xmr, sweeps, cache, runs, caller,
                 aborted, verified, tries>>

loopChecksMonero ==
  /\ Reads
  /\ status \notin TERMINAL_STATUSES /\ action = "submit_encsig"
  /\ mapCoreProgress("submit_encsig")
  /\ pc' = "encsig"
  /\ UNCHANGED <<serverVars, chainVars, cache, runs, caller, aborted,
                 verified, tries>>

(* A bad Monero lock is reported as an error and then thrown.               *)
loopReleases ==
  /\ pc = "encsig"
  /\ \/ pc' = "loop" /\ mapCoreProgress("verifying_xmr") /\ UNCHANGED released
     \/ pc' = "loop" /\ NotReported /\ UNCHANGED released
     \/ /\ pc' = "loop" /\ mapCoreProgress("confirming")
        /\ released' \in {released, TRUE}
     \/ handleError("verification") /\ reached' \in {reached, TRUE}
        /\ UNCHANGED <<released, lastSeen>>
     \/ handleError("other") /\ UNCHANGED <<released, lastSeen, reached>>
  /\ UNCHANGED <<serverVars, btc, xmr, sweeps, cache, runs, caller, aborted,
                 verified, tries>>

loopSweeps ==
  /\ Reads
  /\ status \notin TERMINAL_STATUSES
  /\ action \notin {"fund", "submit_encsig"}
  /\ action = "sweep" \/ status = "sending"
  /\ mapCoreProgress("sweeping")
  /\ pc' = "sweep"
  /\ UNCHANGED <<serverVars, chainVars, cache, runs, caller, aborted,
                 verified, tries>>

(* A sweep of coins that are swept already is taken for one's own.          *)
Sweeps ==
  /\ xmr \in {"ready", "swept"}
  /\ xmr' = "swept" /\ sweeps' = sweeps + 1
  /\ UNCHANGED <<btc, released>>

loopSwept ==
  /\ pc = "sweep"
  /\ \/ Sweeps /\ mapCoreProgress("complete") /\ pc' = "after"
     \/ \E kind \in {"verification", "other"} : handleError(kind)
        /\ UNCHANGED <<chainVars, lastSeen, reached>>
  /\ UNCHANGED <<serverVars, cache, runs, caller, aborted, verified, tries>>

-----------------------------------------------------------------------------
(* The loop has returned.  Unless it reported an end, the server is asked   *)
(* once more; if that is refused, finalStatus keeps its initial value.      *)

afterReached ==
  /\ pc = "after" /\ reached
  /\ pc' = "done"
  /\ UNCHANGED <<serverVars, chainVars, cache, runs, phase, caller, aborted,
                 memoVars, tries>>

afterRefused ==
  /\ pc = "after" /\ ~reached /\ refuses
  /\ emitTerminal("completed")
  /\ UNCHANGED <<serverVars, chainVars, cache, runs, caller, aborted,
                 memoVars, tries>>

TriggersOnCancel == action = "cancel"
Triggers == action = "refund"

afterDetail ==
  /\ pc = "after" /\ ~reached
  /\ \/ Triggers /\ pc' = "refund" /\ caller' = "after" /\ UNCHANGED phase
     \/ /\ ~Triggers /\ (action = "sweep" \/ status = "sending")
        /\ pc' = "resweep" /\ UNCHANGED <<phase, caller>>
     \/ /\ ~Triggers /\ action # "sweep" /\ status \in TERMINAL_STATUSES
        /\ emitTerminal(status) /\ UNCHANGED caller
     \/ /\ ~Triggers /\ action # "sweep"
        /\ status \notin TERMINAL_STATUSES \cup {"sending"}
        /\ pc' = "watch" /\ UNCHANGED <<phase, caller>>
  /\ UNCHANGED <<serverVars, chainVars, cache, runs, aborted, memoVars, tries>>

(* pollUntilTerminal: whatever is thrown in a round is retried in the next. *)
PollStopsNever == FALSE
PollStops == aborted

pollStopped ==
  /\ pc = "watch" /\ PollStops
  /\ pc' = "done"
  /\ UNCHANGED <<serverVars, chainVars, cache, runs, phase, caller, aborted,
                 memoVars, tries>>

(* Params that carry a refund encsig are cached on the way.                 *)
MayCache == cache' \in {cache, cache \/ HasProtocolCache}

pollRound ==
  /\ pc = "watch" /\ ~PollStops
  /\ \/ status \in TERMINAL_STATUSES /\ emitTerminal(status)
        /\ UNCHANGED <<cache, caller>>
     \/ /\ status \notin TERMINAL_STATUSES /\ Triggers
        /\ pc' = "refund" /\ caller' = "watch"
        /\ MayCache /\ UNCHANGED phase
     \/ /\ status \notin TERMINAL_STATUSES /\ ~Triggers /\ action = "sweep"
        /\ pc' = "resweep"
        /\ MayCache /\ UNCHANGED <<phase, caller>>
     \/ /\ status \notin TERMINAL_STATUSES /\ ~Triggers /\ action # "sweep"
        /\ MayCache /\ UNCHANGED <<pc, phase, caller>>
  /\ UNCHANGED <<serverVars, chainVars, runs, aborted, memoVars, tries>>

-----------------------------------------------------------------------------
(* executeSweep, after the loop or when the user asks to try again.         *)

resweepStarts ==
  /\ pc = "resweep"
  /\ IF verified THEN pc' = "resweeping" /\ phase' = "sweeping"
                 ELSE Ends("failed")
  /\ UNCHANGED <<serverVars, chainVars, cache, runs, caller, aborted,
                 memoVars, tries>>

(* A failure that says the swap is completed is looked into.                *)
resweepEnds ==
  /\ pc = "resweeping"
  /\ \/ Sweeps /\ Ends("completed")
     \/ status = "completed" /\ emitTerminal("completed") /\ UNCHANGED chainVars
     \/ Ends("failed") /\ UNCHANGED chainVars
  /\ UNCHANGED <<serverVars, cache, runs, caller, aborted, memoVars, tries>>

(* The code asks for a swap only.  That the host offers the call when the   *)
(* flow has failed, and not before, is what it is told to do (the texts of  *)
(* a failed sweep), not a guard.                                            *)
OfferedRetry == pc = "done" /\ phase = "failed"

userRetrySweep ==
  /\ status # "none" /\ OfferedRetry
  /\ pc' = "resweep"
  /\ UNCHANGED <<serverVars, chainVars, cache, runs, phase, caller, aborted,
                 memoVars, tries>>

-----------------------------------------------------------------------------
(* executeRefund.                                                           *)

refundDetailFails ==
  /\ pc = "refund" /\ refuses
  /\ Ends("failed")
  /\ UNCHANGED <<serverVars, chainVars, cache, runs, caller, aborted,
                 memoVars, tries>>

(* No lock address, or no encsig with the server nor in the cache.          *)
refundRefused ==
  /\ pc = "refund"
  /\ Ends("failed")
  /\ UNCHANGED <<serverVars, chainVars, cache, runs, caller, aborted,
                 memoVars, tries>>

refundPrepared ==
  /\ pc = "refund"
  /\ MayCache
  /\ pc' = "cancel-check" /\ phase' = "verifying-cancel"
  /\ UNCHANGED <<serverVars, chainVars, runs, caller, aborted, memoVars, tries>>

(* What executeRefund does not catch ends the flow, or the polling round.   *)
refundThrows ==
  /\ pc \in {"cancel-check", "assemble"}
  /\ IF caller = "watch" THEN pc' = "watch" /\ UNCHANGED phase
                         ELSE handleError("other")
  /\ UNCHANGED <<serverVars, chainVars, cache, runs, caller, aborted,
                 memoVars, tries>>

(* discoverAndVerifyTxCancel: a confirmed transaction spends the lock.  A   *)
(* provider that lags does not see it yet.                                  *)
LockSpent == btc \notin {"none", "locked"}

refundVerifies ==
  /\ pc = "cancel-check"
  /\ \/ LockSpent /\ pc' = "assemble" /\ phase' = "refunding"
     \/ Ends("failed")
  /\ UNCHANGED <<serverVars, chainVars, cache, runs, caller, aborted,
                 memoVars, tries>>

refundSigns ==
  /\ pc = "assemble"
  /\ \/ pc' = "broadcast" /\ UNCHANGED phase
     \/ Ends("failed")
  /\ UNCHANGED <<serverVars, chainVars, cache, runs, caller, aborted,
                 memoVars, tries>>

AnyRejectionIsKnown == TRUE
AlreadyKnown == btc = "refunded"

refundBroadcasts ==
  /\ pc = "broadcast"
  /\ \/ /\ btc = "cancelled" /\ btc' = "refunded"
        /\ Ends("refunded") \/ Ends("failed")
     \/ AlreadyKnown /\ Ends("refunded") /\ UNCHANGED btc
     \/ Ends("failed") /\ UNCHANGED btc
  /\ UNCHANGED <<serverVars, released, xmr, sweeps, cache, runs, caller,
                 aborted, memoVars, tries>>

-----------------------------------------------------------------------------
(* The host.                                                                *)

cancel ==
  /\ pc \notin {"idle", "done"} /\ ~aborted
  /\ aborted' = TRUE
  /\ UNCHANGED <<serverVars, chainVars, cache, runs, pc, phase, caller,
                 memoVars, tries>>

(* The process stops and a new flow object is made.                         *)
Restart ==
  /\ pc # "idle" /\ runs < MaxRuns
  /\ runs' = runs + 1
  /\ pc' = "idle" /\ phase' = "idle" /\ caller' = "none" /\ aborted' = FALSE
  /\ verified' = FALSE /\ lastSeen' = "none"
  /\ reached' = FALSE /\ tries' = 0
  /\ UNCHANGED <<serverVars, chainVars, cache>>

-----------------------------------------------------------------------------
(* The server, the maker and the chains: external.                          *)

ServerMoves(newStatus, newAction) ==
  /\ status' = newStatus /\ action' = newAction
  /\ UNCHANGED <<refuses, cache, runs, pc, phase, caller, aborted, memoVars, tries>>

AskFund ==
  /\ status = "awaiting_funding" /\ action = "none" /\ btc = "none"
  /\ ServerMoves(status, "fund") /\ UNCHANGED chainVars

GiveUp ==
  /\ status = "awaiting_funding" /\ btc = "none"
  /\ \E final \in {"failed", "expired"} : ServerMoves(final, "none")
  /\ UNCHANGED chainVars

(* The required action may lag behind the status.                           *)
SeeLock ==
  /\ status = "awaiting_funding" /\ btc = "locked"
  /\ \E required \in {"none", action} : ServerMoves("swapping", required)
  /\ UNCHANGED chainVars

AskEncsig ==
  /\ status = "swapping" /\ action \in {"none", "fund"} /\ ~released
  /\ ServerMoves("swapping", "submit_encsig") /\ UNCHANGED chainVars

TakeEncsig ==
  /\ status = "swapping" /\ action = "submit_encsig" /\ released
  /\ ServerMoves("swapping", "none") /\ UNCHANGED chainVars

Redeem ==
  /\ btc = "locked" /\ released
  /\ btc' = "redeemed" /\ xmr' = "ready"
  /\ ServerMoves("sending", "sweep") /\ UNCHANGED <<released, sweeps>>

CancelDue ==
  /\ status = "swapping" /\ action \in {"none", "fund", "submit_encsig"}
  /\ \E required \in {"none", "cancel"} : ServerMoves("cancelling", required)
  /\ UNCHANGED chainVars

ConfirmCancel ==
  /\ status = "cancelling" /\ btc = "locked"
  /\ btc' = "cancelled"
  /\ ServerMoves("cancelling", "refund") /\ UNCHANGED <<released, xmr, sweeps>>

Punish ==
  /\ btc = "cancelled"
  /\ btc' = "punished"
  /\ ServerMoves("punished", "none") /\ UNCHANGED <<released, xmr, sweeps>>

Cooperate ==
  /\ status = "punished" /\ action = "none"
  /\ xmr' = "ready"
  /\ ServerMoves("punished", "sweep") /\ UNCHANGED <<btc, released, sweeps>>

SeeRefund ==
  /\ btc = "refunded" /\ status # "refunded"
  /\ ServerMoves("refunded", "none") /\ UNCHANGED chainVars

SeeSweep ==
  /\ xmr = "swept" /\ status \in {"sending", "punished"}
  /\ ServerMoves("completed", "none") /\ UNCHANGED chainVars

-----------------------------------------------------------------------------
Flow ==
  \/ start \/ saveKeystore \/ resumeDeposit \/ prepareDeposit \/ watchDeposit
  \/ createSwap \/ resumeSwap \/ fetchDetailWithRetry
  \/ loopThrows \/ loopReturns \/ loopWaits \/ loopSigns \/ loopGates
  \/ loopFunds \/ loopChecksMonero \/ loopReleases \/ loopSweeps \/ loopSwept
  \/ afterReached \/ afterRefused \/ afterDetail
  \/ pollStopped \/ pollRound
  \/ resweepStarts \/ resweepEnds
  \/ refundDetailFails \/ refundRefused \/ refundPrepared \/ refundThrows
  \/ refundVerifies \/ refundSigns \/ refundBroadcasts

Host == cancel \/ userRetrySweep \/ Restart

Server ==
  \/ AskFund \/ GiveUp \/ SeeLock \/ AskEncsig \/ TakeEncsig \/ Redeem
  \/ CancelDue \/ ConfirmCancel \/ Punish \/ Cooperate \/ SeeRefund \/ SeeSweep

Next == Flow \/ Host \/ Server

Spec == Init /\ [][Next]_vars

(* Hypotheses of the liveness properties; the specification promises none   *)
(* of them, since a server that is down is asked for ever.                  *)
(* What the flow awaits comes back, with an answer or an error.             *)
AwaitsReturn == WF_vars(Flow)

(* If it is asked again and again, a provider shows the spent lock one day, *)
(* and the server's params can be signed with.                              *)
RefundIsServed == SF_vars(refundVerifies) /\ SF_vars(refundSigns)

-----------------------------------------------------------------------------
TypeOK ==
  /\ status \in Statuses /\ action \in RequiredActions /\ refuses \in BOOLEAN
  /\ btc \in {"none", "locked", "redeemed", "cancelled", "refunded", "punished"}
  /\ released \in BOOLEAN /\ xmr \in {"none", "ready", "swept"}
  /\ sweeps \in Nat /\ cache \in BOOLEAN /\ runs \in 1..MaxRuns
  /\ pc \in Labels /\ phase \in Phases /\ caller \in {"none", "after", "watch"}
  /\ aborted \in BOOLEAN /\ verified \in BOOLEAN
  /\ lastSeen \in {"none", "pre", "post"}
  /\ reached \in BOOLEAN /\ tries \in 0..MAX_TRANSIENT_RETRIES

(* The host is told that a swap is refunded only when the refund            *)
(* transaction is on the chain, whoever reports it and however the          *)
(* broadcast was answered.                                                  *)
RefundedOnChain == phase = "refunded" => btc = "refunded"

(* A flow that has ended has told the host how, or was cancelled: no path   *)
(* through the loop, the polling, the refund or the sweep ends in silence.  *)
EndsWithVerdict == pc = "done" => phase \in FinalPhases \/ aborted

(* A completed or refunded swap stays so for the flow's life, whatever the  *)
(* server still reports: no phantom second sweep, no flicker.               *)
VerdictStands ==
  [][(phase \in {"completed", "refunded"}) => (phase' \in {phase, "idle"})]_vars

(* The host is told that a swap is completed only when the Monero has been  *)
(* swept.                                                                   *)
CompletedMeansSwept == phase = "completed" => xmr = "swept"

(* So it is if the server never refuses to show the swap.                   *)
AnsweredCompletionTrue == ~refuses => CompletedMeansSwept

(* A cancel brings the flow to its end wherever it arrives, once the await  *)
(* it finds comes back: no loop, poll or retry begins another round.        *)
CancelEnds == AwaitsReturn => (aborted ~> (pc = "done" \/ ~aborted))

(* A refund the server asks for while the flow polls is carried through to  *)
(* an end, however often the providers fail on the way, if the awaits come  *)
(* back and the server shows the swap.                                      *)
RefundConcludes ==
  AwaitsReturn /\ RefundIsServed =>
    (~refuses /\ pc = "watch" /\ action = "refund")
      ~> (pc = "done" \/ action # "refund")

-----------------------------------------------------------------------------
Promise == INSTANCE RefundPromise WITH told <- (phase = "refunded")

(* The flow, its server and the chains keep the promise of the way back:    *)
(* the lock is spent once, and refunded is what the host is told only of a  *)
(* cancelled lock that the refund has spent.                                *)
KeepsRefundPromise == Promise!Spec
=============================================================================
