------------------------------ MODULE SwapFlow ------------------------------
(***************************************************************************)
(* The engine's flow for swaps whose deposit the user makes by hand        *)
(* (src/engine/flows/swap-flow.ts): THORChain, Chainflip and NEAR Intents, *)
(* and atomic swaps without a keystore.  The flow creates a swap or looks  *)
(* one up, verifies the deposit address with the provider, invites the     *)
(* deposit and polls the server until the swap has ended.                  *)
(*                                                                         *)
(* The server is not trusted: it chooses what it returns.  pc names the    *)
(* await the flow is in.  "pending" stands for the three statuses before a *)
(* deposit, "failed" also for "withheld".                                  *)
(*                                                                         *)
(* An operator written just before another of a similar name is its faulty *)
(* twin, to which nothing refers.                                          *)
(***************************************************************************)
EXTENDS Naturals

CONSTANTS
  MAX_TRANSIENT_RETRIES,  \* retries of the creation and of the first fetch
  MaxRuns                 \* bound: flow objects created for this swap

ASSUME SwapFlowAssumption ==
  /\ MAX_TRANSIENT_RETRIES \in Nat
  /\ MaxRuns \in Nat \ {0}

VARIABLES
  \* the server
  status,       \* SwapDetail.status, "none" before the swap is created
  payload,      \* the detail has nothing, an "address", or also a verification ("full")
  \* the host
  runs,
  timeUp,       \* pollTimeoutMs has passed
  \* the flow
  pc,
  phase,        \* the phase last emitted
  lastPhase,    \* the phase of the last transition
  aborted,      \* abortController
  seen,         \* status of the detail a resume works on
  restricted,   \* the server withheld the details: no proof of ownership
  deposit,      \* depositAddr and qr of the flow context: "none", "bare" (no QR) or "full"
  verification, \* of the flow context: "none", "pending", "refused", "passed", "server"
  tries         \* attempt of the retry loops

serverVars  == <<status, payload>>
hostVars    == <<runs, timeUp>>
contextVars == <<restricted, deposit, verification>>
vars == <<serverVars, hostVars, pc, phase, lastPhase, aborted, seen,
          contextVars, tries>>

PostDeposit == {"deposited", "swapping", "sending", "cancelling"}
TERMINAL_STATUSES == {"completed", "refunded", "expired", "failed"}
Statuses == {"none", "pending", "punished"} \cup PostDeposit \cup TERMINAL_STATUSES

ProgressPhases == {"confirming", "swapping", "sending", "cancelling"}
FinalPhases == {"completed", "refunded", "expired", "failed", "cancelled"}
Phases == {"idle", "solving-pow", "creating-swap", "awaiting-deposit",
           "verification-failed"} \cup ProgressPhases \cup FinalPhases
Labels == {"idle", "create", "submit", "load", "verify", "qr", "reverify",
           "resume-qr", "poll", "sleep", "ask", "done"}
Polling == {"poll", "sleep", "ask"}

Init ==
  /\ status = "none" /\ payload = "none"
  /\ runs = 1 /\ timeUp = FALSE
  /\ pc = "idle" /\ phase = "idle" /\ lastPhase = "idle" /\ aborted = FALSE
  /\ seen = "none"
  /\ restricted = FALSE /\ deposit = "none" /\ verification = "none"
  /\ tries = 0

-----------------------------------------------------------------------------
(* Phases.                                                                  *)

Same == UNCHANGED <<phase, lastPhase>>

(* transition drops a phase that repeats the last one it let through.       *)
transition(new) ==
  IF new = lastPhase THEN Same ELSE phase' = new /\ lastPhase' = new

Ends(new) == transition(new) /\ pc' = "done"

handleError == Ends(IF aborted THEN "cancelled" ELSE "failed")

TerminalPhase(final) ==
  IF final \in {"completed", "refunded", "expired"} THEN final ELSE "failed"

emitTerminal(final) == Ends(TerminalPhase(final))

PhaseOf(s) == IF s = "deposited" THEN "confirming" ELSE s

(* requirePopulated and requireVerified: the context has an address and its *)
(* QR code, and for the latter a verification.                              *)
Verified(where, check) == where = "full" /\ check # "none"

(* The phase of a swap past its deposit, if the context allows it.          *)
Report(s, where, check) ==
  transition(IF Verified(where, check) THEN PhaseOf(s) ELSE "failed")

-----------------------------------------------------------------------------
(* A new swap.                                                              *)

start ==
  /\ pc = "idle" /\ status = "none"
  /\ transition("solving-pow") /\ pc' = "create" /\ tries' = 0
  /\ UNCHANGED <<serverVars, hostVars, aborted, seen, contextVars>>

(* A transient error is retried unless the flow has been cancelled.         *)
Retry ==
  /\ tries < MAX_TRANSIENT_RETRIES /\ ~aborted
  /\ tries' = tries + 1
  /\ transition("creating-swap")

solveChallenge ==
  /\ pc = "create"
  /\ \/ ~aborted /\ transition("creating-swap") /\ pc' = "submit" /\ UNCHANGED tries
     \/ Retry /\ UNCHANGED pc
     \/ handleError /\ UNCHANGED tries
  /\ UNCHANGED <<serverVars, hostVars, aborted, seen, contextVars>>

(* An answer that is lost leaves a swap nobody asks for again behind: the   *)
(* next attempt creates another.                                            *)
createSwap ==
  /\ pc = "submit"
  /\ \/ /\ status' = "pending" /\ payload' \in {"none", "address", "full"}
        /\ seen' = "pending"
        /\ IF aborted
           THEN handleError
           ELSE /\ phase' = "creating-swap" /\ UNCHANGED lastPhase
                /\ pc' = "verify"
        /\ UNCHANGED tries
     \/ Retry /\ pc' = "create" /\ UNCHANGED <<serverVars, seen>>
     \/ handleError /\ UNCHANGED <<serverVars, seen, tries>>
  /\ UNCHANGED <<hostVars, aborted, contextVars>>

-----------------------------------------------------------------------------
(* emitAwaitingDeposit.                                                     *)

WithholdsNot == UNCHANGED deposit
Withholds == deposit' = "none"

(* The provider is asked only about an address that comes with a            *)
(* verification.  A refused address is withheld and the flow polls on.      *)
verifyDepositAddress ==
  /\ pc = "verify"
  /\ \/ /\ aborted \/ payload = "full"
        /\ handleError /\ UNCHANGED <<verification, deposit>>
     \/ /\ ~aborted /\ payload = "full"
        /\ verification' = "refused" /\ Withholds
        /\ transition("verification-failed") /\ pc' = "poll"
     \/ /\ ~aborted
        /\ verification' = IF payload = "full" THEN "passed" ELSE "pending"
        /\ pc' = "qr" /\ Same /\ UNCHANGED deposit
  /\ UNCHANGED <<serverVars, hostVars, aborted, seen, restricted, tries>>

(* What generateQr leaves in the context.                                   *)
Drawn == deposit' \in IF payload = "none" THEN {"none"} ELSE {"bare", "full"}

awaitDeposit ==
  /\ pc = "qr"
  /\ Drawn
  /\ transition(IF deposit' = "full" THEN "awaiting-deposit" ELSE "failed")
  /\ pc' = "poll"
  /\ UNCHANGED <<serverVars, hostVars, aborted, seen, restricted,
                 verification, tries>>

-----------------------------------------------------------------------------
(* A swap the server knows.  The engine may pass the detail it has fetched. *)

resume ==
  /\ pc = "idle" /\ status # "none"
  /\ transition("creating-swap") /\ pc' = "load" /\ tries' = 0
  /\ UNCHANGED <<serverVars, hostVars, aborted, seen, contextVars>>

resumeFetchFails ==
  /\ pc = "load"
  /\ \/ Retry /\ UNCHANGED pc
     \/ handleError /\ UNCHANGED tries
  /\ UNCHANGED <<serverVars, hostVars, aborted, seen, contextVars>>

resumeFull ==
  /\ pc = "load"
  /\ seen' = status
  /\ \/ status \in TERMINAL_STATUSES /\ emitTerminal(status)
     \/ status \notin TERMINAL_STATUSES /\ aborted /\ handleError
     \/ /\ status \notin TERMINAL_STATUSES /\ ~aborted
        /\ pc' = (IF status = "pending" THEN "verify" ELSE "reverify")
        /\ Same
  /\ UNCHANGED <<serverVars, hostVars, aborted, contextVars, tries>>

(* emitInitialResumePhase: past the deposit a verification is best effort.  *)
reverify ==
  /\ pc = "reverify"
  /\ verification' \in IF payload = "full" THEN {"refused", "passed", "server"}
                                           ELSE {"server"}
  /\ pc' = "resume-qr"
  /\ UNCHANGED <<serverVars, hostVars, phase, lastPhase, aborted, seen,
                 restricted, deposit, tries>>

(* A status without a case of its own is taken for one before the deposit.  *)
resumePhase ==
  /\ pc = "resume-qr"
  /\ Drawn
  /\ IF seen \in PostDeposit \/ ~Verified(deposit', verification)
     THEN Report(seen, deposit', verification) /\ pc' = "poll"
     ELSE pc' = "verify" /\ Same
  /\ UNCHANGED <<serverVars, hostVars, aborted, seen, restricted,
                 verification, tries>>

-----------------------------------------------------------------------------
(* Restricted mode: phases without a deposit address.                       *)

(* A status before the deposit is emitted past transition.                  *)
emitRestrictedAsUsual ==
  transition(IF status \in PostDeposit THEN PhaseOf(status) ELSE "awaiting-deposit")
emitRestrictedStatusPhase ==
  IF status \in PostDeposit
  THEN transition(PhaseOf(status))
  ELSE phase' = "creating-swap" /\ UNCHANGED lastPhase

HidesContext == deposit' = "none" /\ verification' = "none"

runRestricted ==
  /\ pc = "load"
  /\ restricted' = TRUE /\ HidesContext
  /\ \/ status \in TERMINAL_STATUSES /\ emitTerminal(status)
     \/ /\ status \notin TERMINAL_STATUSES
        /\ emitRestrictedStatusPhase /\ pc' = "poll"
  /\ UNCHANGED <<serverVars, hostVars, aborted, seen, tries>>

-----------------------------------------------------------------------------
(* The polling loops, which differ in what they make of an answer.          *)

HaltedNever == FALSE
Halted == aborted

(* The loop head: a flow cancelled during a request stops without a word.   *)
pollHead ==
  /\ pc = "poll"
  /\ pc' = (IF timeUp \/ Halted THEN "done" ELSE "sleep")
  /\ UNCHANGED <<serverVars, hostVars, phase, lastPhase, aborted, seen,
                 contextVars, tries>>

Asks == IF Halted THEN Ends("cancelled") ELSE pc' = "ask" /\ Same

pollSleep ==
  /\ pc = "sleep"
  /\ Asks
  /\ UNCHANGED <<serverVars, hostVars, aborted, seen, contextVars, tries>>

pollFails ==
  /\ pc = "ask"
  /\ pc' = "poll"
  /\ UNCHANGED <<serverVars, hostVars, phase, lastPhase, aborted, seen,
                 contextVars, tries>>

(* A verification the server sends replaces one that has not passed.        *)
Overwrites(check) ==
  IF payload = "full" /\ check \notin {"passed", "server"} THEN "server" ELSE check

StopsAtCompletion(s) == s = "completed"
Stops(s) == s \in TERMINAL_STATUSES

pollAnswer ==
  /\ pc = "ask" /\ ~restricted
  /\ verification' = Overwrites(verification)
  /\ \/ Stops(status) /\ emitTerminal(status)
     \/ /\ ~Stops(status) /\ status \in PostDeposit
        /\ Report(status, deposit, verification') /\ pc' = "poll"
     \/ /\ ~Stops(status) /\ status \notin PostDeposit
        /\ Same /\ pc' = "poll"
  /\ UNCHANGED <<serverVars, hostVars, aborted, seen, restricted, deposit, tries>>

pollAnswerRestricted ==
  /\ pc = "ask" /\ restricted
  /\ \/ Stops(status) /\ emitTerminal(status)
     \/ ~Stops(status) /\ emitRestrictedStatusPhase /\ pc' = "poll"
  /\ UNCHANGED <<serverVars, hostVars, aborted, seen, contextVars, tries>>

-----------------------------------------------------------------------------
(* The host and the clock.                                                  *)

cancel ==
  /\ pc # "idle" /\ ~aborted
  /\ aborted' = TRUE
  /\ UNCHANGED <<serverVars, hostVars, pc, phase, lastPhase, seen,
                 contextVars, tries>>

Restart ==
  /\ pc # "idle" /\ runs < MaxRuns
  /\ runs' = runs + 1 /\ timeUp' = FALSE
  /\ pc' = "idle" /\ phase' = "idle" /\ lastPhase' = "idle" /\ aborted' = FALSE
  /\ seen' = "none"
  /\ restricted' = FALSE /\ deposit' = "none" /\ verification' = "none"
  /\ tries' = 0
  /\ UNCHANGED serverVars

DeadlinePasses ==
  /\ pc \in Polling /\ ~timeUp
  /\ timeUp' = TRUE
  /\ UNCHANGED <<serverVars, runs, pc, phase, lastPhase, aborted, seen,
                 contextVars, tries>>

(* The swap's progress as the server tells it, and a verification it adds.  *)
Moves ==
  {"pending"} \X {"deposited", "expired", "failed"}
    \cup {"deposited", "swapping"} \X {"cancelling", "refunded", "failed"}
    \cup {<<"deposited", "swapping">>, <<"swapping", "sending">>,
          <<"sending", "completed">>, <<"sending", "failed">>,
          <<"cancelling", "refunded">>, <<"cancelling", "punished">>,
          <<"punished", "completed">>}

ServerMoves ==
  /\ \/ status' \in Statuses /\ <<status, status'>> \in Moves /\ UNCHANGED payload
     \/ /\ status # "none" /\ payload = "address" /\ pc \in Polling
        /\ payload' = "full" /\ UNCHANGED status
  /\ UNCHANGED <<hostVars, pc, phase, lastPhase, aborted, seen, contextVars, tries>>

-----------------------------------------------------------------------------
Flow ==
  \/ start \/ solveChallenge \/ createSwap
  \/ verifyDepositAddress \/ awaitDeposit
  \/ resume \/ resumeFetchFails \/ resumeFull \/ reverify \/ resumePhase
  \/ runRestricted
  \/ pollHead \/ pollSleep \/ pollFails \/ pollAnswer \/ pollAnswerRestricted

Next == Flow \/ cancel \/ Restart \/ DeadlinePasses \/ ServerMoves

Spec == Init /\ [][Next]_vars

(* Hypotheses of the liveness properties; the specification promises none   *)
(* of them: while the server is down the API client repeats a request       *)
(* without limit, and the flow stays in its await.                          *)
(* What the flow awaits comes back, with an answer or an error.             *)
AwaitsReturn == WF_vars(Flow)

(* Not every poll fails.                                                    *)
PollsAnswered == SF_vars(pollAnswer) /\ SF_vars(pollAnswerRestricted)

-----------------------------------------------------------------------------
TypeOK ==
  /\ status \in Statuses /\ payload \in {"none", "address", "full"}
  /\ runs \in 1..MaxRuns /\ timeUp \in BOOLEAN
  /\ pc \in Labels /\ phase \in Phases /\ lastPhase \in Phases
  /\ aborted \in BOOLEAN /\ seen \in Statuses /\ restricted \in BOOLEAN
  /\ deposit \in {"none", "bare", "full"}
  /\ verification \in {"none", "pending", "refused", "passed", "server"}
  /\ tries \in 0..MAX_TRANSIENT_RETRIES

(* The address of a swap that the provider did not confirm is in no context *)
(* this flow emits afterwards, and the swap is never reported as under way, *)
(* although the server's word replaces the refused verification on the next *)
(* poll.                                                                    *)
RefusalStands ==
  \A run \in 1..MaxRuns :
    []((phase = "verification-failed" /\ runs = run)
         => [](runs = run => deposit = "none" /\ phase \notin ProgressPhases))

(* A flow without proof of ownership never emits a deposit address or a     *)
(* verification, at whatever status it starts and whatever comes after.     *)
RestrictedShowsNothing ==
  restricted => /\ deposit = "none" /\ verification = "none"
                /\ phase \notin {"awaiting-deposit", "verification-failed"}

(* An ended swap is reported as ended, however many polls fail, if they end *)
(* and not all of them fail, unless the host cancels or the hour of polling *)
(* is over.                                                                 *)
EndReported ==
  AwaitsReturn /\ PollsAnswered =>
    (pc \in Polling /\ status \in TERMINAL_STATUSES)
      ~> (phase \in FinalPhases \/ aborted \/ timeUp \/ pc = "idle")

(* A cancel ends the flow in every await, once that await comes back: no    *)
(* retry and no poll is begun after it.                                     *)
CancelEnds == AwaitsReturn => (aborted ~> (pc = "done" \/ ~aborted))
=============================================================================
