------------------------ MODULE MiradexEngineProofs ------------------------
(***************************************************************************)
(* Theorems about the engine, for any number of calls of the host, in any  *)
(* order and with any answers in between.                                  *)
(***************************************************************************)
EXTENDS MiradexEngine, TLAPS

(* Flows are installed in the order of their generations.                   *)
Installed == \A f \in live : f[2] <= current[f[1]]

Quiet(k) == Flow(k) \subseteq aborted

(* What waiting for each call buys: one call at a time is under way, the    *)
(* flow it replaces is cancelled, and only held flows run.                  *)
Sequential ==
  /\ \A f \in Running : f[2] = current[f[1]]
  /\ fetching > 0 => /\ fetching = 1
                     /\ \A k \in Kinds : imports[k] = {} /\ Quiet(k)
  /\ \A k \in Kinds : imports[k] # {} =>
       /\ Quiet(k)
       /\ \A g, h \in imports[k] : g = h
       /\ \A l \in Kinds \ {k} : imports[l] = {}
  /\ activeFlow = "idle" \/ destroyed => \A k \in Kinds : Quiet(k)
  /\ destroyed => ~Busy

IInv == TypeOK /\ Installed /\ (~overlapped => Sequential)

-----------------------------------------------------------------------------
LEMMA FlowOf ==
  ASSUME TypeOK, NEW k \in Kinds
  PROVE  /\ current[k] = 0 => Flow(k) = {}
         /\ current[k] # 0 => Flow(k) = {<<k, current[k]>>}
BY DEF Flow, TypeOK

(* A cancel aborts the flows held, and nothing is ever taken back.          *)
LEMMA CancelsType ==
  ASSUME TypeOK, NEW ks \in SUBSET Kinds, Cancels(ks)
  PROVE  /\ aborted \subseteq aborted' /\ aborted' \subseteq Kinds \X (Nat \ {0})
         /\ \A k \in ks : Flow(k) \subseteq aborted'
BY DEF Cancels, Flow, TypeOK

LEMMA ShowsType ==
  ASSUME TypeOK, NEW k \in Kinds, NEW g \in Nat, NEW what \in Whats,
         Shows(k, g, what)
  PROVE  shown' \in [Kinds -> [by : Nat, what : Whats]]
BY DEF Shows, Said, TypeOK

LEMMA InvInit ==
  ASSUME Init PROVE IInv
<1>1. /\ generation = [k \in Kinds |-> 0] /\ current = [k \in Kinds |-> 0]
      /\ activeFlow = "idle" /\ shown = [k \in Kinds |-> Said(0, "idle")]
      /\ fetching = 0 /\ imports = [k \in Kinds |-> {}]
      /\ live = {} /\ aborted = {} /\ calls = 0 /\ ~destroyed
  BY Zenon DEF Init
<1>2. destroyed \in BOOLEAN /\ overlapped \in BOOLEAN
  BY Zenon DEF Init
<1>3. TypeOK
  BY <1>1, <1>2, EngineAssumption DEF TypeOK, Said, Whats
<1>4. Installed /\ Sequential
  BY <1>1 DEF Installed, Sequential, Running, Quiet, Flow, Busy
<1> QED
  BY <1>3, <1>4 DEF IInv

(* The host's counters.                                                     *)
LEMMA HostFlags ==
  ASSUME TypeOK, HostCalls
  PROVE  /\ calls' \in 0..MaxCalls /\ overlapped' \in BOOLEAN /\ ~destroyed
         /\ ~overlapped' => ~overlapped /\ ~Busy
<1>1. calls' \in 0..MaxCalls
  BY EngineAssumption DEF HostCalls, TypeOK
<1>2. overlapped' \in BOOLEAN
  BY Zenon DEF HostCalls
<1>3. ~destroyed /\ (~overlapped' => ~overlapped /\ ~Busy)
  BY Zenon DEF HostCalls
<1> QED
  BY <1>1, <1>2, <1>3

-----------------------------------------------------------------------------
(* A call or an answer that makes room for a new flow.                      *)
LEMMA EmitScoped ==
  ASSUME IInv, NEW k \in Kinds, createScopedEmit(k),
         UNCHANGED <<current, activeFlow, shown, live, destroyed>>,
         calls' \in 0..MaxCalls, overlapped' \in BOOLEAN,
         fetching' \in Nat, fetching' <= fetching,
         ~overlapped' => /\ ~overlapped /\ ~destroyed /\ fetching' = 0
                         /\ \A l \in Kinds : imports[l] = {}
  PROVE  IInv'
<1>1. /\ generation' = [generation EXCEPT ![k] = @ + 1]
      /\ imports' = [imports EXCEPT ![k] = @ \cup {generation[k] + 1}]
      /\ aborted \subseteq aborted' /\ aborted' \subseteq Kinds \X (Nat \ {0})
      /\ Flow(k) \subseteq aborted'
  BY CancelsType DEF createScopedEmit, IInv
<1>2. TypeOK'
  <2>1. generation' \in [Kinds -> Nat] /\ imports' \in [Kinds -> SUBSET Nat]
    BY <1>1 DEF IInv, TypeOK
  <2>2. \A l \in Kinds : /\ current[l] <= generation'[l]
                         /\ \A g \in imports'[l] : current[l] < g /\ g <= generation'[l]
    BY <1>1 DEF IInv, TypeOK
  <2> QED
    BY <1>1, <2>1, <2>2 DEF IInv, TypeOK
<1>3. Installed'
  BY DEF IInv, Installed
<1>4. ASSUME ~overlapped' PROVE Sequential'
  <2>1. Sequential /\ fetching' = 0 /\ ~destroyed' /\ \A l \in Kinds : imports[l] = {}
    BY <1>4 DEF IInv
  <2>2. \A f \in Running' : f[2] = current'[f[1]]
    BY <1>1, <2>1 DEF Sequential, Running
  <2>3. \A l \in Kinds : Flow(l)' = Flow(l)
    BY DEF Flow
  <2>4. /\ imports'[k] = {generation[k] + 1} /\ Quiet(k)'
        /\ \A l \in Kinds \ {k} : imports'[l] = {}
    BY <1>1, <2>1, <2>3 DEF Quiet, IInv, TypeOK
  <2>5. activeFlow' = "idle" => \A l \in Kinds : Quiet(l)'
    BY <1>1, <2>1, <2>3 DEF Sequential, Quiet
  <2> QED
    BY <2>1, <2>2, <2>4, <2>5 DEF Sequential
<1> QED
  BY <1>2, <1>3, <1>4 DEF IInv

LEMMA StartStep ==
  ASSUME IInv, startSwap \/ startAtomicSwap PROVE IInv'
<1>1. PICK k \in Kinds :
        /\ HostCalls /\ createScopedEmit(k)
        /\ UNCHANGED <<current, activeFlow, shown, fetching, live, destroyed>>
  BY DEF startSwap, startAtomicSwap, Kinds
<1>2. /\ calls' \in 0..MaxCalls /\ overlapped' \in BOOLEAN /\ ~destroyed
      /\ ~overlapped' => ~overlapped /\ ~Busy
  BY <1>1, HostFlags DEF IInv
<1>3. fetching \in Nat /\ fetching' = fetching
  BY <1>1 DEF IInv, TypeOK
<1>4. ~Busy => fetching = 0 /\ \A l \in Kinds : imports[l] = {}
  BY <1>3 DEF Busy
<1> QED
  BY <1>1, <1>2, <1>3, <1>4, EmitScoped

LEMMA FetchedStep ==
  ASSUME IInv, NEW k \in Kinds, resumeFetched(k) PROVE IInv'
<1>1. /\ fetching > 0 /\ fetching' = fetching - 1 /\ createScopedEmit(k)
      /\ UNCHANGED <<current, activeFlow, shown, live, destroyed, calls, overlapped>>
  BY DEF resumeFetched, hostVars
<1>2. fetching' \in Nat /\ fetching' <= fetching
  BY <1>1 DEF IInv, TypeOK
<1>3. calls' \in 0..MaxCalls /\ overlapped' \in BOOLEAN
  BY <1>1 DEF IInv, TypeOK
<1>4. ~overlapped => /\ ~destroyed /\ fetching = 1
                     /\ \A l \in Kinds : imports[l] = {}
  BY <1>1 DEF IInv, Sequential, Busy
<1>5. ~overlapped' => /\ ~overlapped /\ ~destroyed /\ fetching' = 0
                      /\ \A l \in Kinds : imports[l] = {}
  BY <1>1, <1>4
<1> QED
  BY <1>1, <1>2, <1>3, <1>5, EmitScoped
-----------------------------------------------------------------------------
(* A call that cancels flows and replaces none.                             *)
LEMMA CancelStep ==
  ASSUME IInv, HostCalls, NEW ks \in SUBSET Kinds, Cancels(ks),
         UNCHANGED <<generation, current, imports, live>>,
         activeFlow' \in Kinds \cup {"idle"},
         shown' \in [Kinds -> [by : Nat, what : Whats]],
         destroyed' \in BOOLEAN,
         fetching' \in {fetching, fetching + 1},
         fetching' # fetching => ~destroyed',
         activeFlow' # activeFlow \/ destroyed' \/ fetching' # fetching => ks = Kinds
  PROVE  IInv'
<1>1. /\ calls' \in 0..MaxCalls /\ overlapped' \in BOOLEAN /\ ~destroyed
      /\ ~overlapped' => ~overlapped /\ ~Busy
  BY HostFlags DEF IInv
<1>2. /\ aborted \subseteq aborted' /\ aborted' \subseteq Kinds \X (Nat \ {0})
      /\ \A k \in ks : Flow(k) \subseteq aborted'
  BY CancelsType DEF IInv
<1>3. TypeOK'
  <2>1. fetching' \in Nat
    BY DEF IInv, TypeOK
  <2> QED
    BY <1>1, <1>2, <2>1 DEF IInv, TypeOK
<1>4. Installed'
  BY DEF IInv, Installed
<1>5. ASSUME ~overlapped' PROVE Sequential'
  <2>1. Sequential /\ fetching = 0 /\ \A l \in Kinds : imports'[l] = {}
    BY <1>1, <1>5 DEF IInv, Busy, TypeOK
  <2>2. \A f \in Running' : f[2] = current'[f[1]]
    BY <1>2, <2>1 DEF Sequential, Running
  <2>3. \A l \in Kinds : Flow(l)' = Flow(l)
    BY DEF Flow
  <2>4. ks = Kinds => \A l \in Kinds : Quiet(l)'
    BY <1>2, <2>3 DEF Quiet
  <2>5. activeFlow = "idle" => \A l \in Kinds : Quiet(l)'
    BY <1>2, <2>1, <2>3 DEF Sequential, Quiet
  <2>6. fetching' > 0 => fetching' = 1 /\ fetching' # fetching
    BY <2>1
  <2>7. destroyed' => \A l \in Kinds : Quiet(l)'
    BY <2>4
  <2>8. CASE fetching' = 0
    BY <2>1, <2>2, <2>4, <2>5, <2>7, <2>8 DEF Sequential, Busy
  <2>9. CASE fetching' = 1 /\ ~destroyed'
    BY <2>1, <2>2, <2>4, <2>6, <2>9 DEF Sequential
  <2> QED
    BY <2>1, <2>6, <2>8, <2>9
<1> QED
  BY <1>3, <1>4, <1>5 DEF IInv

LEMMA HostCancels ==
  ASSUME IInv, resume \/ cancelSwap \/ cancelAtomicSwap \/ exitToIdle \/ destroy
  PROVE  IInv'
<1>1. destroyed \in BOOLEAN /\ activeFlow \in Kinds \cup {"idle"}
      /\ shown \in [Kinds -> [by : Nat, what : Whats]]
  BY Zenon DEF IInv, TypeOK
<1>2. /\ [k \in Kinds |-> Said(0, "idle")] \in [Kinds -> [by : Nat, what : Whats]]
      /\ \A k : [shown EXCEPT ![k] = Said(0, "cancelled")]
                  \in [Kinds -> [by : Nat, what : Whats]]
  BY <1>1 DEF Said, Whats
<1>3. {"swap"} \in SUBSET Kinds /\ {"atomic"} \in SUBSET Kinds /\ Kinds \in SUBSET Kinds
  BY DEF Kinds
<1>4. CASE resume
  <2>1. ~destroyed' /\ destroyed' \in BOOLEAN
    BY <1>4, <1>1, HostFlags DEF resume, IInv
  <2>2. fetching' = fetching + 1 /\ UNCHANGED <<engineVars, imports, live>>
        /\ HostCalls /\ Cancels(Kinds)
    BY <1>4 DEF resume
  <2> QED
    BY <1>1, <1>3, <2>1, <2>2, CancelStep DEF engineVars
<1>5. CASE cancelSwap \/ cancelAtomicSwap
  <2>1. PICK k \in Kinds :
          /\ HostCalls /\ Cancels({k})
          /\ shown' = [shown EXCEPT ![k] = Said(0, "cancelled")]
          /\ UNCHANGED <<generation, current, activeFlow, callVars, live, destroyed>>
    BY <1>5 DEF cancelSwap, cancelAtomicSwap, Kinds
  <2>2. ~destroyed' /\ destroyed' \in BOOLEAN
    BY <2>1, <1>1, HostFlags DEF IInv
  <2> QED
    BY <1>1, <1>2, <2>1, <2>2, CancelStep DEF callVars
<1>6. CASE exitToIdle
  <2>1. ~destroyed' /\ destroyed' \in BOOLEAN
    BY <1>6, <1>1, HostFlags DEF exitToIdle, IInv
  <2> QED
    BY <1>2, <1>3, <1>6, <2>1, CancelStep DEF exitToIdle, callVars, Exited
<1>7. CASE destroy
  <2>1. destroyed' \in BOOLEAN
    BY Zenon, <1>7 DEF destroy
  <2> QED
    BY <1>1, <1>3, <1>7, <2>1, CancelStep DEF destroy, callVars, engineVars
<1> QED
  BY <1>4, <1>5, <1>6, <1>7

LEMMA RetryStep ==
  ASSUME IInv, userRetrySweep PROVE IInv'
<1>1. /\ HostCalls /\ live' = live \cup Flow("atomic")
      /\ UNCHANGED <<engineVars, callVars, aborted, destroyed>>
  BY DEF userRetrySweep
<1>2. /\ calls' \in 0..MaxCalls /\ overlapped' \in BOOLEAN /\ ~destroyed
      /\ ~overlapped' => ~overlapped /\ ~Busy
  BY <1>1, HostFlags DEF IInv
<1>3. \A f \in Flow("atomic") : f \in Kinds \X (Nat \ {0}) /\ f[2] = current[f[1]]
  BY DEF Flow
<1>4. TypeOK'
  BY <1>1, <1>2, <1>3 DEF IInv, TypeOK, engineVars, callVars
<1>5. Installed'
  BY <1>1, <1>3 DEF IInv, Installed, TypeOK, engineVars
<1>6. ASSUME ~overlapped' PROVE Sequential'
  <2>1. Sequential /\ ~Busy
    BY <1>2, <1>6 DEF IInv
  <2>2. \A f \in Running' : f[2] = current'[f[1]]
    BY <1>1, <1>3, <2>1 DEF Sequential, Running, engineVars
  <2>3. UNCHANGED <<fetching, imports, activeFlow, destroyed, current, aborted>>
    BY <1>1 DEF engineVars, callVars
  <2> QED
    BY <2>1, <2>2, <2>3 DEF Sequential, Quiet, Flow, Busy
<1> QED
  BY <1>4, <1>5, <1>6 DEF IInv

-----------------------------------------------------------------------------
LEMMA FailsStep ==
  ASSUME IInv, resumeFails PROVE IInv'
<1>1. /\ fetching > 0 /\ fetching' = fetching - 1 /\ activeFlow' = "swap"
      /\ shown' = [shown EXCEPT !["swap"] = Said(0, "failed")]
      /\ UNCHANGED <<generation, current, imports, live, aborted, destroyed,
                     calls, overlapped>>
  BY DEF resumeFails, flowVars, hostVars
<1>2. TypeOK'
  BY <1>1 DEF IInv, TypeOK, Kinds, Said, Whats
<1>3. Installed'
  BY <1>1 DEF IInv, Installed
<1>4. ASSUME ~overlapped' PROVE Sequential'
  <2>1. Sequential /\ ~destroyed /\ fetching = 1
    BY <1>1, <1>4 DEF IInv, Sequential, Busy
  <2>2. \A f \in Running' : f[2] = current'[f[1]]
    BY <1>1, <2>1 DEF Sequential, Running
  <2> QED
    BY <1>1, <2>1, <2>2 DEF Sequential, Quiet, Flow
<1> QED
  BY <1>2, <1>3, <1>4 DEF IInv

LEMMA ImportedStep ==
  ASSUME IInv, NEW k \in Kinds, imported(k) PROVE IInv'
<1>1. PICK g \in imports[k] :
        /\ \A other \in imports[k] : g <= other
        /\ imports' = [imports EXCEPT ![k] = @ \ {g}]
        /\ current' = [current EXCEPT ![k] = g]
        /\ activeFlow' = k /\ live' = live \cup {<<k, g>>}
        /\ Shows(k, g, "active")
        /\ UNCHANGED <<generation, fetching, aborted, hostVars>>
  BY DEF imported, StillAwaited, Installs
<1>2. /\ g \in Nat \ {0} /\ current[k] < g /\ g <= generation[k]
      /\ \A other \in imports[k] \ {g} : g < other
  BY <1>1 DEF IInv, TypeOK
<1>3. shown' \in [Kinds -> [by : Nat, what : Whats]]
  BY <1>1, <1>2, ShowsType DEF IInv, Whats
<1>4. TypeOK'
  <2>1. /\ current' \in [Kinds -> Nat] /\ imports' \in [Kinds -> SUBSET Nat]
        /\ live' \subseteq Kinds \X (Nat \ {0})
    BY <1>1, <1>2 DEF IInv, TypeOK
  <2>2. \A l \in Kinds : /\ current'[l] <= generation'[l]
                         /\ \A h \in imports'[l] : current'[l] < h /\ h <= generation'[l]
    BY <1>1, <1>2 DEF IInv, TypeOK
  <2> QED
    BY <1>1, <1>3, <2>1, <2>2 DEF IInv, TypeOK, hostVars
<1>5. Installed'
  BY <1>1, <1>2 DEF IInv, Installed, TypeOK
<1>6. ASSUME ~overlapped' PROVE Sequential'
  <2>1. Sequential /\ ~destroyed' /\ fetching' = 0
    BY <1>1, <1>6 DEF IInv, Sequential, Busy, TypeOK, hostVars
  <2>2. \A l \in Kinds : imports'[l] = {}
    BY <1>1, <2>1 DEF Sequential, IInv, TypeOK
  <2>3. Quiet(k)
    BY <1>1, <2>1 DEF Sequential
  <2>4. ASSUME NEW f \in Running' PROVE f[2] = current'[f[1]]
    <3>1. CASE f = <<k, g>>
      BY <1>1, <3>1 DEF IInv, TypeOK
    <3>2. CASE f \in Running
      <4>1. f[2] = current[f[1]] /\ f \in Kinds \X (Nat \ {0}) /\ f \notin aborted
        BY <2>1, <3>2 DEF Sequential, Running, IInv, TypeOK
      <4>2. f = <<f[1], current[f[1]]>> /\ f[1] \in Kinds /\ current[f[1]] # 0
        BY <4>1
      <4>3. f[1] # k
        BY <2>3, <4>1, <4>2 DEF Quiet, Flow
      <4> QED
        BY <1>1, <4>1, <4>3 DEF IInv, TypeOK
    <3> QED
      BY <1>1, <3>1, <3>2 DEF Running
  <2>5. activeFlow' # "idle"
    BY <1>1 DEF Kinds
  <2> QED
    BY <2>1, <2>2, <2>4, <2>5 DEF Sequential
<1> QED
  BY <1>4, <1>5, <1>6 DEF IInv

LEMMA FlowStep ==
  ASSUME IInv, NEW f \in live, flowEmits(f) \/ flowEnds(f) PROVE IInv'
<1>1. /\ UNCHANGED <<generation, current, activeFlow, callVars, aborted, hostVars>>
      /\ live' \subseteq live
  BY DEF flowEmits, flowEnds, flowVars
<1>2. f[1] \in Kinds /\ f[2] \in Nat
  BY DEF IInv, TypeOK
<1>3. shown' \in [Kinds -> [by : Nat, what : Whats]]
  <2>1. UNCHANGED shown \/ \E what \in Whats : Shows(f[1], f[2], what)
    BY DEF flowEmits, flowEnds, Whats
  <2> QED
    BY <1>2, <2>1, ShowsType DEF IInv, TypeOK
<1>4. TypeOK'
  BY <1>1, <1>3 DEF IInv, TypeOK, callVars, hostVars
<1>5. Installed'
  BY <1>1 DEF IInv, Installed
<1>6. Running' \subseteq Running
  BY <1>1 DEF Running
<1>7. ~overlapped' => Sequential'
  BY <1>1, <1>6 DEF IInv, Sequential, Quiet, Flow, Busy, callVars, hostVars
<1> QED
  BY <1>4, <1>5, <1>7 DEF IInv

LEMMA InvNext ==
  ASSUME IInv, [Next]_vars PROVE IInv'
<1>1. CASE Next
  BY <1>1, StartStep, FetchedStep, HostCancels, RetryStep, FailsStep,
     ImportedStep, FlowStep DEF Next, Host
<1>2. CASE UNCHANGED vars
  BY <1>2 DEF vars, engineVars, callVars, flowVars, hostVars, IInv, TypeOK,
     Installed, Sequential, Running, Quiet, Flow, Busy
<1> QED
  BY <1>1, <1>2

THEOREM Invariant == Spec => []IInv
BY InvInit, InvNext, PTL DEF Spec

-----------------------------------------------------------------------------
(* Every variable keeps its type, and generations their order.              *)
THEOREM TypeCorrect == Spec => []TypeOK
<1>1. IInv => TypeOK
  BY DEF IInv
<1> QED
  BY Invariant, <1>1, PTL

(* However calls and answers interleave, a cancel of the host reaches the   *)
(* flow that is heard.                                                      *)
THEOREM CancelReaches == Spec => []HeardIsHeld
<1>1. IInv => HeardIsHeld
  <2> SUFFICES ASSUME IInv, NEW f \in live, f[2] = generation[f[1]]
               PROVE  current[f[1]] = f[2]
    BY DEF HeardIsHeld, Accepts
  <2>1. /\ f[1] \in Kinds /\ f[2] <= current[f[1]]
        /\ generation[f[1]] \in Nat /\ current[f[1]] \in Nat
        /\ current[f[1]] <= generation[f[1]]
    BY DEF IInv, TypeOK, Installed
  <2> QED
    BY <2>1
<1> QED
  BY Invariant, <1>1, PTL

(* A host that waits for its calls never has two flows of a kind at work.   *)
THEOREM OneAtATime == Spec => []OneFlowRuns
<1>1. IInv => OneFlowRuns
  <2> SUFFICES ASSUME IInv, ~overlapped, NEW f \in Running, NEW h \in Running,
                      f[1] = h[1]
               PROVE  f = h
    BY DEF OneFlowRuns
  <2>1. f \in Kinds \X (Nat \ {0}) /\ h \in Kinds \X (Nat \ {0})
    BY DEF IInv, TypeOK, Running
  <2>2. f[2] = current[f[1]] /\ h[2] = current[h[1]]
    BY DEF IInv, Sequential
  <2> QED
    BY <2>1, <2>2
<1> QED
  BY Invariant, <1>1, PTL

(* Behind an idle screen, and after destroy, no flow goes on.               *)
THEOREM IdleIsQuiet == Spec => []IdleRunsNothing
<1>1. IInv => IdleRunsNothing
  <2> SUFFICES ASSUME IInv, ~overlapped, activeFlow = "idle" \/ destroyed,
                      NEW f \in Running
               PROVE  FALSE
    BY DEF IdleRunsNothing
  <2>1. f \in Kinds \X (Nat \ {0}) /\ f \notin aborted /\ f[2] = current[f[1]]
    BY DEF IInv, Sequential, TypeOK, Running
  <2>2. Quiet(f[1])
    BY <2>1 DEF IInv, Sequential
  <2> QED
    BY <2>1, <2>2 DEF Quiet, Flow
<1> QED
  BY Invariant, <1>1, PTL

(* What a flow writes into the engine's state comes from the flow held.     *)
THEOREM ReplacedFlowsAreSilent == Spec => ReplacedIsSilent
<1>1. IInv /\ IInv' /\ [Next]_vars =>
        [\A k \in Kinds : shown'[k] # shown[k] =>
           \/ shown'[k].by = 0
           \/ shown'[k].by = current'[k] /\ imports'[k] = {}]_vars
  <2> SUFFICES ASSUME IInv, IInv', Next, NEW k \in Kinds, shown'[k] # shown[k],
                      shown'[k].by # 0
               PROVE  shown'[k].by = current'[k] /\ imports'[k] = {}
    BY DEF vars
  <2>1. PICK f \in live' \cup live :
          /\ f[1] = k /\ f[2] = generation[k] /\ shown'[k].by = f[2]
          /\ generation' = generation
          /\ f \in live' \/ UNCHANGED <<current, imports>>
    <3>1. CASE \E l \in Kinds : imported(l)
      <4>0. PICK l \in Kinds : imported(l)
        BY <3>1
      <4>1. PICK g \in imports[l] :
              /\ live' = live \cup {<<l, g>>} /\ Shows(l, g, "active")
              /\ generation' = generation
        BY <4>0 DEF imported
      <4>2. l = k /\ g = generation[k] /\ shown'[k].by = g
        BY <4>1 DEF Shows, Accepts, Said, IInv, TypeOK
      <4> QED
        BY <4>1, <4>2
    <3>2. CASE \E f \in live : flowEmits(f) \/ flowEnds(f)
      <4>1. PICK f \in live, what \in Whats :
              /\ Shows(f[1], f[2], what)
              /\ UNCHANGED <<generation, current, imports>>
        BY <3>2 DEF flowEmits, flowEnds, callVars, Whats
      <4>2. f[1] \in Kinds
        BY DEF IInv, TypeOK
      <4>3. f[1] = k /\ f[2] = generation[k] /\ shown'[k].by = f[2]
        BY <4>1, <4>2 DEF Shows, Accepts, Said, IInv, TypeOK
      <4> QED
        BY <4>1, <4>3
    <3>3. CASE Host \/ resumeFails \/ \E l \in Kinds : resumeFetched(l)
      BY <3>3 DEF Host, startSwap, startAtomicSwap, resume, cancelSwap,
         cancelAtomicSwap, userRetrySweep, exitToIdle, destroy, resumeFails,
         resumeFetched, engineVars, Said, IInv, TypeOK, Kinds
    <3> QED
      BY <3>1, <3>2, <3>3 DEF Next
  <2>2. f[2] <= current'[k] /\ current'[k] <= generation'[k]
    BY <2>1 DEF IInv, Installed, TypeOK
  <2>3. current'[k] = generation'[k]
    BY <2>1, <2>2 DEF IInv, TypeOK
  <2>4. \A g \in imports'[k] : current'[k] < g /\ g <= generation'[k] /\ g \in Nat
    BY DEF IInv, TypeOK
  <2> QED
    BY <2>1, <2>3, <2>4 DEF IInv, TypeOK
<1> QED
  BY Invariant, <1>1, PTL DEF Spec, ReplacedIsSilent
=============================================================================
