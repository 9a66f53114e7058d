---------------------------- MODULE MoneroSweep ----------------------------
(***************************************************************************)
(* The sweep of the Monero lock output (src/atomic-swap/monero-sweep/):    *)
(* sweepMonero asks the server for the maker's key share, and then makes   *)
(* up to SWEEP_MAX_ATTEMPTS attempts to find the output, draw a ring,      *)
(* check, sign, and broadcast to the monerod nodes in turn, and tells the  *)
(* server of it.  The host calls it again when it failed, when the process *)
(* died, or when the server was never told.                                *)
(*                                                                         *)
(* A transaction is the number of its signature.  Every attempt signs a    *)
(* new one, with other decoys, and all of them spend the same output: a    *)
(* node holds at most one, in its pool or in its chain.                    *)
(*                                                                         *)
(* As in AtomicDrive, an operator written just before another of a similar *)
(* name is its faulty twin, to which nothing refers.                       *)
(***************************************************************************)
EXTENDS Naturals

CONSTANTS
  NumNodes,            \* monerod nodes, asked in the order 1 .. NumNodes
  SWEEP_MAX_ATTEMPTS,
  MAX_RING_RETRIES,
  NotifyAttempts,      \* 3 in the code
  MaxCalls             \* bound: calls of sweepMonero for this swap

ASSUME SweepAssumption ==
  /\ NumNodes \in Nat \ {0} /\ SWEEP_MAX_ATTEMPTS \in Nat \ {0}
  /\ MAX_RING_RETRIES \in Nat \ {0} /\ NotifyAttempts \in Nat \ {0}
  /\ MaxCalls \in Nat

VARIABLES
  \* the world
  holds,     \* node -> the transaction it holds, 0 for none
  told,      \* hashes the server has been told of in sweep-complete
  calls,
  \* the call
  pc,        \* the await it is in
  aborted,   \* params.signal
  attempt, ring, node, notices,   \* the counters of its loops
  flaws,     \* what is wrong with the material in hand, known or not
  hash,      \* broadcastResult.txHash, 0 for the empty one
  outcome,
  \* all calls
  signed,    \* transactions signed; the latest one is number signed
  unsound    \* those signed from flawed material

loops == <<attempt, ring, node, notices>>
keep  == <<flaws, hash, signed, unsound>>
world == <<holds, told, calls>>
vars  == <<world, pc, aborted, loops, keep, outcome>>

Nodes == 1 .. NumNodes

(* "share": s_a is not the maker's.  "amount": the amount read from the     *)
(* lock transaction is not the committed one.  "ring": not RING_SIZE        *)
(* members.  "fee": not positive, above a tenth, or above the amount.       *)
Flaws == {"share", "amount", "ring", "fee"}

Init ==
  /\ holds = [n \in Nodes |-> 0] /\ told = {} /\ calls = 0
  /\ pc = "idle" /\ aborted = FALSE /\ outcome = "none"
  /\ attempt = 0 /\ ring = 0 /\ node = 1 /\ notices = 0
  /\ flaws = {} /\ hash = 0 /\ signed = 0 /\ unsound = {}

End(how) == pc' = "done" /\ outcome' = how

(* Errors by the text the classifier reads: every one the sweep words has   *)
(* 'failed' or 'network' in it; what the WASM module throws has neither.    *)
Errors == {"nodes failed", "no outputs", "no valid ring", "commitment",
           "fee", "verification", "wasm"}
isRetryableSweepError(e) == e # "wasm"

(* The catch of the attempt loop.  The wait before the next attempt is      *)
(* over; no signal cuts it short.                                           *)
Fails(e) ==
  \/ /\ isRetryableSweepError(e) /\ attempt < SWEEP_MAX_ATTEMPTS - 1
     /\ attempt' = attempt + 1 /\ pc' = "lockTx" /\ UNCHANGED outcome
  \/ /\ ~isRetryableSweepError(e) \/ attempt = SWEEP_MAX_ATTEMPTS - 1
     /\ End("failed") /\ UNCHANGED attempt

-----------------------------------------------------------------------------
(* The host calls while the server still asks for the sweep, which it does  *)
(* until it is told.                                                        *)
call ==
  /\ pc \in {"idle", "done"} /\ told = {} /\ calls < MaxCalls
  /\ calls' = calls + 1 /\ pc' = "outputs" /\ aborted' = FALSE
  /\ attempt' = 0 /\ ring' = 0 /\ node' = 1 /\ notices' = 0
  /\ flaws' = {} /\ hash' = 0 /\ outcome' = "none"
  /\ UNCHANGED <<holds, told, signed, unsound>>

askOutputs ==
  /\ pc = "outputs"
  /\ \/ aborted /\ End("cancelled")
     \/ ~aborted /\ pc' = "asked" /\ UNCHANGED outcome
  /\ UNCHANGED <<world, aborted, loops, keep>>

(* The delay between two requests, which the signal ends.                   *)
waitDeaf ==
  /\ pc = "wait"
  /\ pc' = "asked" /\ UNCHANGED outcome
  /\ UNCHANGED <<world, aborted, loops, keep>>
waitOutputs ==
  /\ pc = "wait"
  /\ \/ aborted /\ End("cancelled")
     \/ ~aborted /\ pc' = "outputs" /\ UNCHANGED outcome
  /\ UNCHANGED <<world, aborted, loops, keep>>

(* The checks of the answer: lock address, receive address, s_a.            *)
KeysTrusted(flawed, addressed, mine) == addressed /\ mine
KeysAccepted(flawed, addressed, mine) ==
  addressed /\ mine /\ "share" \notin flawed

outputsArrive ==
  /\ pc = "asked"
  /\ \/ pc' = "wait" /\ UNCHANGED <<outcome, flaws>>
     \/ End("failed") /\ UNCHANGED flaws
     \/ \E flawed \in SUBSET {"share"}, addressed \in BOOLEAN, mine \in BOOLEAN :
          \/ /\ KeysAccepted(flawed, addressed, mine)
             /\ pc' = "lockTx" /\ flaws' = flawed /\ UNCHANGED outcome
          \/ /\ ~KeysAccepted(flawed, addressed, mine)
             /\ End("failed") /\ UNCHANGED flaws
  /\ UNCHANGED <<world, aborted, loops, hash, signed, unsound>>

-----------------------------------------------------------------------------
(* One attempt: fetch and scan the lock transaction, fetch the output       *)
(* distribution, draw the first ring.                                       *)
scanLockTx ==
  /\ pc = "lockTx"
  /\ \/ \E e \in {"nodes failed", "no outputs", "wasm"} :
          Fails(e) /\ UNCHANGED <<ring, flaws>>
     \/ \E read \in SUBSET {"amount"} :
          /\ pc' = "ring" /\ ring' = 0
          /\ flaws' = (flaws \cap {"share"}) \cup read
          /\ UNCHANGED <<attempt, outcome>>
  /\ UNCHANGED <<world, aborted, node, notices, hash, signed, unsound>>

(* The keys of a ring arrive.  A ring with an invalid member is drawn       *)
(* again; validateRingMembers does not count the members.                   *)
RedrawsFreely == TRUE
Redraws == ring < MAX_RING_RETRIES - 1

fetchRing ==
  /\ pc = "ring"
  /\ \/ Redraws /\ ring' = ring + 1
        /\ UNCHANGED <<pc, attempt, outcome, flaws>>
     \/ ~Redraws /\ Fails("no valid ring") /\ UNCHANGED <<ring, flaws>>
     \/ \E e \in {"nodes failed", "wasm"} : Fails(e) /\ UNCHANGED <<ring, flaws>>
     \/ \E drawn \in SUBSET {"ring"} :
          /\ pc' = "build" /\ flaws' = flaws \cup drawn
          /\ UNCHANGED <<ring, attempt, outcome>>
  /\ UNCHANGED <<world, aborted, node, notices, hash, signed, unsound>>

(* The commitment is checked against the real member of the ring, if the    *)
(* ring has it.                                                             *)
verifyCommitment(flawed, present) == present => "amount" \notin flawed
verifySweepTx(flawed) == flawed \cap {"ring", "fee"} = {}

(* The fee is settled (the fallback stands in for an estimate that fails),  *)
(* and the checks and the signature follow without an await.                *)
buildFails(flawed, present) ==
  /\ \/ ~verifyCommitment(flawed, present) /\ Fails("commitment")
     \/ "fee" \in flawed /\ Fails("fee")
     \/ ~verifySweepTx(flawed) /\ Fails("verification")
     \/ Fails("wasm")
  /\ UNCHANGED <<node, signed, unsound>>

sign(flawed, present) ==
  /\ verifyCommitment(flawed, present) /\ verifySweepTx(flawed)
  /\ signed' = signed + 1 /\ pc' = "send" /\ node' = 1
  /\ unsound' = IF flawed = {} THEN unsound ELSE unsound \cup {signed + 1}
  /\ UNCHANGED <<attempt, outcome>>

build ==
  /\ pc = "build"
  /\ \E priced \in SUBSET {"fee"}, present \in BOOLEAN :
       /\ "ring" \notin flaws => present
       /\ \/ buildFails(flaws \cup priced, present)
          \/ sign(flaws \cup priced, present)
  /\ UNCHANGED <<world, aborted, ring, notices, flaws, hash>>

-----------------------------------------------------------------------------
(* broadcastTransaction: the nodes in turn, until one has it.               *)
NextNode ==
  \/ /\ node < NumNodes /\ node' = node + 1 /\ UNCHANGED <<pc, attempt, outcome>>
  \/ /\ node = NumNodes /\ Fails("nodes failed") /\ UNCHANGED node

(* A double spend is taken for an earlier broadcast of this client.         *)
AlreadySpentAny(n) == holds[n] # signed
AlreadySpent(n) == holds[n] \notin {0, signed}

broadcast ==
  /\ pc = "send"
  /\ \/ (* unreachable, or refused for its ring or its fee *)
        NextNode /\ UNCHANGED <<holds, hash>>
     \/ (* accepted, or known; the answer may be lost on its way back *)
        /\ holds[node] \in {0, signed} /\ signed \notin unsound
        /\ holds' = [holds EXCEPT ![node] = signed]
        /\ \/ NextNode /\ UNCHANGED hash
           \/ /\ hash' \in {0, signed} /\ pc' = "notify"
              /\ UNCHANGED <<node, attempt, outcome>>
     \/ /\ AlreadySpent(node)
        /\ hash' = 0 /\ pc' = "notify"
        /\ UNCHANGED <<holds, node, attempt, outcome>>
  /\ UNCHANGED <<told, calls, aborted, ring, notices, flaws, signed, unsound>>

(* sweep-complete, with the placeholder sweep-<swapId> (0 here) for an      *)
(* empty hash.  A request may count and its answer be lost.                 *)
notify ==
  /\ pc = "notify"
  /\ told' \in {told, told \cup {hash}}
  /\ \/ hash \in told' /\ End("swept") /\ UNCHANGED notices
     \/ /\ notices < NotifyAttempts - 1
        /\ notices' = notices + 1 /\ UNCHANGED <<pc, outcome>>
     \/ /\ notices = NotifyAttempts - 1
        /\ End("swept") /\ UNCHANGED notices
  /\ UNCHANGED <<holds, calls, aborted, attempt, ring, node, keep>>

-----------------------------------------------------------------------------
relay ==
  /\ \E m, n \in Nodes : /\ holds[m] # 0 /\ holds[n] = 0
                         /\ holds' = [holds EXCEPT ![n] = holds[m]]
  /\ UNCHANGED <<told, calls, pc, aborted, loops, keep, outcome>>

cancel ==
  /\ pc \notin {"idle", "done"} /\ ~aborted /\ aborted' = TRUE
  /\ UNCHANGED <<world, pc, loops, keep, outcome>>

crash ==
  /\ pc \notin {"idle", "done"}
  /\ pc' = "idle"
  /\ UNCHANGED <<world, aborted, loops, keep, outcome>>

Steps == askOutputs \/ waitOutputs \/ outputsArrive \/ scanLockTx \/ fetchRing
           \/ build \/ broadcast \/ notify
Next == call \/ Steps \/ relay \/ cancel \/ crash

Spec == Init /\ [][Next]_vars

(* The hypothesis of CallEnds, which the specification does not promise:    *)
(* the requests of a call end, with an answer or an error.  While the       *)
(* server is down executeAction repeats its request without limit and       *)
(* without the signal; a request to monerod has no timeout of its own.      *)
CallsReturn == WF_vars(Steps)

-----------------------------------------------------------------------------
(* The types of the variables, with the bounds of the loops.                *)
TypeOK ==
  /\ holds \in [Nodes -> 0 .. signed] /\ told \subseteq 0 .. signed
  /\ calls \in 0 .. MaxCalls
  /\ pc \in {"idle", "outputs", "asked", "wait", "lockTx", "ring", "build",
             "send", "notify", "done"}
  /\ aborted \in BOOLEAN
  /\ attempt \in 0 .. SWEEP_MAX_ATTEMPTS - 1
  /\ ring \in 0 .. MAX_RING_RETRIES - 1
  /\ node \in Nodes /\ notices \in 0 .. NotifyAttempts - 1
  /\ flaws \subseteq Flaws /\ hash \in 0 .. signed
  /\ outcome \in {"none", "cancelled", "failed", "swept"}
  /\ signed \in Nat /\ unsound \subseteq 1 .. signed

(* A sweep reported to the host, or to the server, is on a node: success is *)
(* reported after a double spend, without a hash and with a notification    *)
(* that failed, but never for an output that nobody has spent.  The hash    *)
(* the server is told, if it is one, is of a transaction a node holds.      *)
SweptMeansSpent ==
  /\ outcome = "swept" => \E n \in Nodes : holds[n] # 0
  /\ \A h \in told : \E n \in Nodes : holds[n] # 0 /\ h \in {0, holds[n]}

(* Nothing is signed with another share than the maker's, for another       *)
(* amount than the one committed to, over a ring of another size or at a    *)
(* fee above a tenth, whatever the server and the nodes answer; each of     *)
(* these is read at one await and stopped, if at all, at a later one.       *)
OnlySoundSigned == unsound = {}

(* A call that was given the keys, and one that is aborted, ends if its     *)
(* requests do: the waiting for the keys heeds the signal, and the attempts *)
(* and their loops run out.                                                 *)
CallEnds ==
  CallsReturn =>
    (pc = "lockTx" \/ (aborted /\ pc # "done")) ~> pc \in {"done", "idle"}
=============================================================================
