--------------------------- MODULE MiradexEngine ---------------------------
(***************************************************************************)
(* The engine a host talks to (src/engine/miradex-engine.ts).  It holds    *)
(* one flow of each kind, replaces it when the host starts or resumes a    *)
(* swap, and lets only the newest flow of a kind write the state the host  *)
(* shows.  Its calls await the server (resume) and the import of the       *)
(* flow's module, so that the host's next call, and the words of a flow    *)
(* that is about to be replaced, may fall in between.                      *)
(*                                                                         *)
(* A flow object is named by its kind and its generation.  What it does    *)
(* is the subject of SwapFlow and AtomicFlow; here it emits, and ends.     *)
(* Calls that throw before they change anything are left out.              *)
(*                                                                         *)
(* An operator written just before another of a similar name is its faulty *)
(* twin, to which nothing refers.                                          *)
(***************************************************************************)
EXTENDS Integers, FiniteSets

CONSTANT MaxCalls        \* bound: calls of the host

ASSUME EngineAssumption == MaxCalls \in Nat

VARIABLES
  generation,   \* swapFlowGeneration and atomicFlowGeneration
  current,      \* generation of the flow in swapFlow and atomicFlow, 0 for null
  activeFlow,
  shown,        \* the two halves of the engine's state: what, and which flow said so
  fetching,     \* resume calls awaiting getSwapDetail (or the keystores)
  imports,      \* calls awaiting the import of their flow, by generation
  live,         \* flow objects whose start or resume has not come back
  aborted,      \* flow objects that have been cancelled
  destroyed,    \* the host has called destroy, its last call
  calls,
  overlapped    \* history: the host made a call before the last one came back

engineVars == <<generation, current, activeFlow, shown>>
callVars   == <<fetching, imports>>
flowVars   == <<live, aborted>>
hostVars   == <<destroyed, calls, overlapped>>
vars == <<engineVars, callVars, flowVars, hostVars>>

Kinds == {"swap", "atomic"}
Whats == {"idle", "active", "ended", "failed", "cancelled"}
Said(g, what) == [by |-> g, what |-> what]

Init ==
  /\ generation = [k \in Kinds |-> 0] /\ current = [k \in Kinds |-> 0]
  /\ activeFlow = "idle"
  /\ shown = [k \in Kinds |-> Said(0, "idle")]
  /\ fetching = 0 /\ imports = [k \in Kinds |-> {}]
  /\ live = {} /\ aborted = {}
  /\ destroyed = FALSE /\ calls = 0 /\ overlapped = FALSE

Busy == fetching > 0 \/ \E k \in Kinds : imports[k] # {}

HostCalls ==
  /\ ~destroyed /\ calls < MaxCalls
  /\ calls' = calls + 1 /\ overlapped' = (overlapped \/ Busy)

-----------------------------------------------------------------------------
(* Replacing a flow.                                                        *)

Flow(k) == {<<k, current[k]>>} \cap (Kinds \X (Nat \ {0}))

Cancels(ks) == aborted' = aborted \cup UNION {Flow(k) : k \in ks}

(* createScopedSwapEmit and createScopedAtomicEmit, then the import.        *)
createScopedEmitQuietly(k) ==
  /\ UNCHANGED aborted
  /\ generation' = [generation EXCEPT ![k] = @ + 1]
  /\ imports' = [imports EXCEPT ![k] = @ \cup {generation[k] + 1}]
createScopedEmit(k) ==
  /\ Cancels({k})
  /\ generation' = [generation EXCEPT ![k] = @ + 1]
  /\ imports' = [imports EXCEPT ![k] = @ \cup {generation[k] + 1}]

AcceptsAll(k, g) == TRUE
Accepts(k, g) == g = generation[k]

Shows(k, g, what) ==
  shown' = IF Accepts(k, g) THEN [shown EXCEPT ![k] = Said(g, what)] ELSE shown

startSwap ==
  /\ HostCalls /\ createScopedEmit("swap")
  /\ UNCHANGED <<current, activeFlow, shown, fetching, live, destroyed>>

(* Also resumeAtomicSwap, which differs in what the flow then does.         *)
startAtomicSwap ==
  /\ HostCalls /\ createScopedEmit("atomic")
  /\ UNCHANGED <<current, activeFlow, shown, fetching, live, destroyed>>

resume ==
  /\ HostCalls /\ Cancels(Kinds)
  /\ fetching' = fetching + 1
  /\ UNCHANGED <<engineVars, imports, live, destroyed>>

(* The provider and the keystores decide which flow continues the swap.     *)
resumeFetched(k) ==
  /\ fetching > 0 /\ fetching' = fetching - 1
  /\ createScopedEmit(k)
  /\ UNCHANGED <<current, activeFlow, shown, live, hostVars>>

resumeFails ==
  /\ fetching > 0 /\ fetching' = fetching - 1
  /\ activeFlow' = "swap"
  /\ shown' = [shown EXCEPT !["swap"] = Said(0, "failed")]
  /\ UNCHANGED <<generation, current, imports, flowVars, hostVars>>

KeepsFirst(k, g) == IF current[k] = 0 THEN g ELSE current[k]
Installs(k, g) == g

AwaitedForever(k, g) == imports[k]
StillAwaited(k, g) == imports[k] \ {g}

(* Imports of one module come back in the order they were made.             *)
imported(k) == \E g \in imports[k] :
  /\ \A other \in imports[k] : g <= other
  /\ imports' = [imports EXCEPT ![k] = StillAwaited(k, g)]
  /\ current' = [current EXCEPT ![k] = Installs(k, g)]
  /\ activeFlow' = k
  /\ live' = live \cup {<<k, g>>}
  /\ Shows(k, g, "active")
  /\ UNCHANGED <<generation, fetching, aborted, hostVars>>

-----------------------------------------------------------------------------
(* The host's other calls.                                                  *)

cancelSwap ==
  /\ HostCalls /\ Cancels({"swap"})
  /\ shown' = [shown EXCEPT !["swap"] = Said(0, "cancelled")]
  /\ UNCHANGED <<generation, current, activeFlow, callVars, live, destroyed>>

cancelAtomicSwap ==
  /\ HostCalls /\ Cancels({"atomic"})
  /\ shown' = [shown EXCEPT !["atomic"] = Said(0, "cancelled")]
  /\ UNCHANGED <<generation, current, activeFlow, callVars, live, destroyed>>

(* The host offers it when the atomic flow has failed.                      *)
userRetrySweep ==
  /\ HostCalls
  /\ shown["atomic"].what = "failed" /\ current["atomic"] # 0
  /\ live' = live \cup Flow("atomic")
  /\ UNCHANGED <<engineVars, callVars, aborted, destroyed>>

ExitedActive == {activeFlow} \cap Kinds
Exited == Kinds

exitToIdle ==
  /\ HostCalls /\ Cancels(Exited)
  /\ activeFlow' = "idle"
  /\ shown' = [k \in Kinds |-> Said(0, "idle")]
  /\ UNCHANGED <<generation, current, callVars, live, destroyed>>

destroy ==
  /\ HostCalls /\ Cancels(Kinds)
  /\ destroyed' = TRUE
  /\ UNCHANGED <<engineVars, callVars, live>>

-----------------------------------------------------------------------------
(* The flows.  A cancelled flow may emit what an answer it awaited told it. *)
(* A flow whose time for polling is over ends without a word, and so does   *)
(* one cancelled while it asks.                                             *)

flowEmits(f) ==
  /\ Shows(f[1], f[2], "active")
  /\ UNCHANGED <<generation, current, activeFlow, callVars, flowVars, hostVars>>

flowEnds(f) ==
  /\ live' = live \ {f}
  /\ \/ \E what \in {"ended", "failed"} : Shows(f[1], f[2], what)
     \/ f \in aborted /\ Shows(f[1], f[2], "cancelled")
     \/ UNCHANGED shown
  /\ UNCHANGED <<generation, current, activeFlow, callVars, aborted, hostVars>>

-----------------------------------------------------------------------------
Host == \/ startSwap \/ startAtomicSwap \/ resume \/ cancelSwap
        \/ cancelAtomicSwap \/ userRetrySweep \/ exitToIdle \/ destroy

Next ==
  \/ Host \/ resumeFails
  \/ \E k \in Kinds : resumeFetched(k) \/ imported(k)
  \/ \E f \in live : flowEmits(f) \/ flowEnds(f)

Spec == Init /\ [][Next]_vars

-----------------------------------------------------------------------------
Running == live \ aborted

(* Generations are handed out and installed in order.                       *)
TypeOK ==
  /\ generation \in [Kinds -> Nat] /\ current \in [Kinds -> Nat]
  /\ activeFlow \in Kinds \cup {"idle"}
  /\ shown \in [Kinds -> [by : Nat, what : Whats]]
  /\ fetching \in Nat /\ calls \in 0..MaxCalls
  /\ imports \in [Kinds -> SUBSET Nat]
  /\ live \subseteq Kinds \X (Nat \ {0}) /\ aborted \subseteq Kinds \X (Nat \ {0})
  /\ destroyed \in BOOLEAN /\ overlapped \in BOOLEAN
  /\ \A k \in Kinds : /\ current[k] <= generation[k]
                      /\ \A g \in imports[k] : current[k] < g /\ g <= generation[k]

(* Whatever the order of calls and answers, a flow that is still heard is   *)
(* the one the engine holds: a cancel of the host reaches it.               *)
HeardIsHeld ==
  \A f \in live : Accepts(f[1], f[2]) => current[f[1]] = f[2]

(* If the host waits for each call to come back before the next, at most    *)
(* one flow of a kind runs without having been cancelled: no second flow    *)
(* watches, signs or funds beside the one that is shown.                    *)
OneFlowRuns ==
  ~overlapped => \A f, h \in Running : f[1] = h[1] => f = h

(* If the host waits for its calls, an idle or destroyed engine has         *)
(* cancelled every flow: nothing of a swap goes on behind an idle screen.   *)
IdleRunsNothing ==
  (~overlapped /\ (activeFlow = "idle" \/ destroyed)) => Running = {}

(* A flow that has been replaced, or whose successor has been asked for,    *)
(* never writes the engine's state again: what a flow writes comes from the *)
(* one the engine holds, with no other on its way.                          *)
ReplacedIsSilent ==
  [][\A k \in Kinds : shown'[k] # shown[k] =>
       \/ shown'[k].by = 0
       \/ shown'[k].by = current'[k] /\ imports'[k] = {}]_vars
=============================================================================
