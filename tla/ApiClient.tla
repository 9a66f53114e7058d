----------------------------- MODULE ApiClient -----------------------------
(***************************************************************************)
(* How a swap is asked for: the loop of createSwapWithRetry                *)
(* (src/engine/flows/swap-flow.ts), the client it calls (src/api/index.ts) *)
(* with its own loop withRetry (src/lib/retry.ts), the categories of the   *)
(* errors (src/lib/errors.ts), and a server that takes every solved        *)
(* challenge once.  run.ts makes the same two calls without the outer      *)
(* loop: MaxTries = 0.                                                     *)
(*                                                                         *)
(* A challenge is a number.  A request that the client gave up may still   *)
(* be travelling, and be served later.                                     *)
(*                                                                         *)
(* An operator written just before another of a similar name is its faulty *)
(* twin, to which nothing refers.                                          *)
(***************************************************************************)
EXTENDS Integers

CONSTANTS
  MaxTries,    \* of the flow, after the first: maxRetries of SwapFlow
  MaxRetries,  \* of the client for a bounded category: maxBoundedRetries
  MaxAttempt   \* bound of the model on the attempts that carry a challenge

ASSUME ApiAssumption == {MaxTries, MaxRetries, MaxAttempt} \subseteq Nat

VARIABLES
  issued, verified,   \* challenges handed out, and those found solved
  swaps, refused,     \* those a swap was made for, those refused as used
  wire,               \* requests for a swap under way: <<challenge, attempt>>
  pc, call, token,    \* the client: where it is, the call, its challenge
  attempt, bounded,   \* of withRetry: the attempt, and its boundedRetries
  reply, tries, aborted, outcome,
  unsure              \* challenges whose answer, none, 5xx or of another
                      \* shape, left open if a swap was made

server == <<issued, verified, swaps, refused, wire>>
loops == <<attempt, bounded, tries>>
vars == <<server, pc, call, token, loops, reply, aborted, outcome, unsure>>

(* An error as its readers tell it apart: no answer, 5xx, 5xx with a text   *)
(* that names the user's mistake, an answer of another shape (ApiError 502  *)
(* SCHEMA_MISMATCH), 429, 404 with 408, 409 and 422, any other 4xx.         *)
Refusals == {"server", "permanent", "rate-limit", "bounded", "fatal"}
Errors == Refusals \cup {"network", "schema"}

Unbounded == {"network", "server", "permanent"}
Bounded == {"rate-limit", "bounded"}
isTransientError(e) == e \in {"network", "server", "schema", "rate-limit"}

Init ==
  /\ issued = 0 /\ verified = {} /\ swaps = {} /\ refused = {} /\ wire = {}
  /\ pc = "send" /\ call = "challenge" /\ token = 0
  /\ attempt = 0 /\ bounded = 0 /\ tries = 0
  /\ reply = "none" /\ aborted = FALSE /\ outcome = "none" /\ unsure = {}

-----------------------------------------------------------------------------
End(o) == pc' = "done" /\ outcome' = o

(* The loop of the flow: the last try sleeps as well, then throws.          *)
createSwapWithRetry(e) ==
  /\ IF isTransientError(e) THEN pc' = "pause" /\ UNCHANGED outcome
                            ELSE End("failed")
  /\ UNCHANGED loops

(* The loop of the client, that is given no signal.  An error with a        *)
(* category that repeating does not mend goes to the caller.                *)
Again ==
  /\ pc' = "send" /\ UNCHANGED <<tries, outcome>>
  /\ attempt' = IF call = "new" THEN attempt + 1 ELSE 0
withRetry(e) ==
  \/ e \in Unbounded /\ attempt < MaxAttempt /\ Again /\ UNCHANGED bounded
  \/ /\ e \in Bounded /\ bounded < MaxRetries /\ attempt < MaxAttempt
     /\ Again /\ bounded' = bounded + 1
  \/ /\ e \notin Unbounded /\ (e \in Bounded => bounded = MaxRetries)
     /\ createSwapWithRetry(e)

HasToken(header) == FALSE
hasSingleUseToken(header) == header = "X-Pow-Payload"

request(e) ==
  /\ IF hasSingleUseToken(IF call = "new" THEN "X-Pow-Payload" ELSE "")
     THEN createSwapWithRetry(e) ELSE withRetry(e)
  /\ reply' = "none" /\ UNCHANGED <<call, token, server, aborted>>

OnlyWhenCreating(S) == IF call = "new" THEN S ELSE {}

-----------------------------------------------------------------------------
(* runOnce: the request, the answer's head or the timer, the answer's body. *)
send ==
  /\ pc = "send" /\ pc' = "asked"
  /\ wire' = wire \cup OnlyWhenCreating({<<token, attempt>>})
  /\ UNCHANGED <<issued, verified, swaps, refused, call, token, loops, reply,
                 aborted, outcome, unsure>>

timeout ==
  /\ pc = "asked" /\ request("network")
  /\ unsure' = unsure \cup OnlyWhenCreating({token})

head ==
  /\ pc = "asked" /\ reply # "none" /\ pc' = "body"
  /\ UNCHANGED <<server, call, token, loops, reply, aborted, outcome, unsure>>

(* The timer is cleared by now.  A body that breaks off counts as an error  *)
(* of the network, one of another shape as an answer all the same.          *)
bodyFails ==
  /\ pc = "body"
  /\ \E e \in {"network", "schema"} \cup ({reply} \cap Refusals) :
       /\ request(e)
       /\ unsure' = unsure \cup
            (IF e \in Refusals \ {"server"} THEN {} ELSE OnlyWhenCreating({token}))

(* A challenge is solved, and the signal looked at, before it is spent.     *)
challengeRead ==
  /\ pc = "body" /\ call = "challenge" /\ reply = "ok"
  /\ issued' = issued + 1 /\ token' = issued + 1 /\ reply' = "none"
  /\ attempt' = 0 /\ bounded' = 0
  /\ IF aborted THEN End("cancelled") /\ UNCHANGED call
                ELSE pc' = "send" /\ call' = "new" /\ UNCHANGED outcome
  /\ UNCHANGED <<verified, swaps, refused, wire, tries, aborted, unsure>>

swapRead ==
  /\ pc = "body" /\ call = "new" /\ reply = "ok" /\ End("created")
  /\ UNCHANGED <<server, call, token, loops, reply, aborted, unsure>>

(* The pause of the flow, that the signal cuts short.                       *)
pause ==
  /\ pc = "pause" /\ attempt' = 0 /\ bounded' = 0
  /\ \/ aborted /\ End("cancelled") /\ UNCHANGED <<call, tries>>
     \/ /\ ~aborted /\ tries < MaxTries /\ tries' = tries + 1
        /\ pc' = "send" /\ call' = "challenge" /\ UNCHANGED outcome
     \/ ~aborted /\ tries = MaxTries /\ End("failed") /\ UNCHANGED <<call, tries>>
  /\ UNCHANGED <<server, token, reply, aborted, unsure>>

abort ==
  /\ pc # "done" /\ ~aborted /\ aborted' = TRUE
  /\ UNCHANGED <<server, pc, call, token, loops, reply, outcome, unsure>>

-----------------------------------------------------------------------------
(* The server.  An answer reaches the client if it still waits for it.      *)
Answer(r, a) ==
  reply' = IF pc = "asked" /\ call = "new" /\ r = <<token, attempt>> THEN a ELSE reply
UnchangedClient == UNCHANGED <<pc, call, token, loops, aborted, outcome, unsure>>

serveChallenge ==
  /\ pc = "asked" /\ call = "challenge" /\ reply = "none"
  /\ reply' \in {"ok"} \cup Refusals
  /\ UNCHANGED server /\ UnchangedClient

(* 5xx may come before or after the swap is made, 4xx before.               *)
serve(r) ==
  /\ r \in wire /\ wire' = wire \ {r} /\ UNCHANGED issued
  /\ \/ /\ r[1] \in verified /\ Answer(r, "fatal")
        /\ refused' = refused \cup {r[1]} /\ UNCHANGED <<verified, swaps>>
     \/ /\ r[1] \notin verified /\ verified' = verified \cup {r[1]}
        /\ \/ swaps' = swaps \cup {r[1]} /\ \E a \in {"ok", "server"} : Answer(r, a)
           \/ UNCHANGED swaps /\ \E a \in Refusals : Answer(r, a)
        /\ UNCHANGED refused
  /\ UnchangedClient

Done == pc = "done" /\ wire = {} /\ UNCHANGED vars

Next ==
  \/ send \/ timeout \/ head \/ bodyFails \/ challengeRead \/ swapRead \/ pause
  \/ abort \/ serveChallenge \/ (\E r \in wire : serve(r)) \/ Done
Spec == Init /\ [][Next]_vars

-----------------------------------------------------------------------------
TypeOK ==
  /\ issued \in Nat /\ token \in 0 .. issued
  /\ verified \subseteq 1 .. issued /\ refused \subseteq 1 .. issued
  /\ swaps \subseteq verified /\ unsure \subseteq 1 .. issued
  /\ wire \subseteq (1 .. issued) \X (0 .. MaxAttempt)
  /\ pc \in {"send", "asked", "body", "pause", "done"}
  /\ call \in {"challenge", "new"}
  /\ attempt \in 0 .. MaxAttempt /\ bounded \in 0 .. MaxRetries
  /\ tries \in 0 .. MaxTries /\ aborted \in BOOLEAN
  /\ reply \in {"none", "ok"} \cup Refusals
  /\ outcome \in {"none", "created", "failed", "cancelled"}

(* No challenge is spent twice, however the requests overtake each other    *)
(* and the two loops nest; so an error that reaches the user is never the   *)
(* server's complaint about a copy.  A swap that the flow does not go on    *)
(* with is one whose answer left it open if there is a swap; the one it     *)
(* goes on with is the one its last challenge paid for.                     *)
SwapsAccounted ==
  /\ refused = {}
  /\ swaps \subseteq unsure \cup {token}
  /\ outcome = "created" => token \in swaps
=============================================================================
