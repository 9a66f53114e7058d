-------------------------- MODULE ApiClientProofs --------------------------
(***************************************************************************)
(* ApiClient for any number of tries: a challenge is spent once, and only  *)
(* an answer that did not tell leaves a swap behind.                       *)
(***************************************************************************)
EXTENDS ApiClient, TLAPS

(* A request under way carries a challenge that no server has seen, and is  *)
(* the only one that does.                                                  *)
Fresh ==
  /\ \A r \in wire : r[1] \notin verified /\ r[2] = 0
  /\ call = "new" => token \in 1 .. issued /\ attempt = 0
  /\ call = "new" /\ pc = "send" => token \notin verified /\ <<token, 0>> \notin wire

(* What the answer in hand tells of the challenge.                          *)
Told ==
  /\ pc \in {"send", "pause"} => reply = "none"
  /\ call = "new" /\ reply # "none" => token \in verified
  /\ call = "new" /\ reply = "ok" => token \in swaps
  /\ call = "new" /\ reply \in Refusals \ {"server"} => token \notin swaps

(* Challenges that have, or may yet get, a swap.                            *)
Open == swaps \cup {r[1] : r \in wire}
Covered ==
  /\ Open \subseteq unsure \cup {token}
  /\ pc # "done" /\ (call = "challenge" \/ pc = "pause") => Open \subseteq unsure
  /\ outcome # "none" => pc = "done"

IInv == TypeOK /\ Fresh /\ Told /\ Covered /\ SwapsAccounted

USE ApiAssumption
USE DEF Refusals

LEMMA InitIInv == Init => IInv
<1> SUFFICES ASSUME Init PROVE IInv
  OBVIOUS
<1>1. TypeOK
  <2>1. /\ issued = 0 /\ token = 0 /\ attempt = 0 /\ bounded = 0 /\ tries = 0
        /\ verified = {} /\ swaps = {} /\ refused = {} /\ wire = {} /\ unsure = {}
        /\ pc = "send" /\ call = "challenge" /\ reply = "none" /\ outcome = "none"
    BY DEF Init
  <2>2. aborted \in BOOLEAN
    BY Zenon DEF Init
  <2> QED BY <2>1, <2>2 DEF TypeOK
<1>2. Fresh
  BY DEF Init, Fresh
<1>3. Told
  BY DEF Init, Told
<1>4. Open = {}
  BY DEF Init, Open
<1>5. Covered
  BY <1>4 DEF Init, Covered
<1>6. SwapsAccounted
  BY DEF Init, SwapsAccounted
<1> QED BY <1>1, <1>2, <1>3, <1>5, <1>6 DEF IInv

(* An error that ends a call: of one that carries a challenge, the flow     *)
(* hears; of the other, either loop may go on.                              *)
LEMMA Requested ==
  ASSUME IInv, NEW e \in Errors, request(e)
  PROVE  /\ UNCHANGED <<call, token, server, aborted>> /\ reply' = "none"
         /\ bounded' \in 0 .. MaxRetries /\ tries' = tries
         /\ attempt' \in 0 .. MaxAttempt
         /\ call = "new" => attempt' = attempt /\ pc' # "send"
         /\ \/ pc' \in {"send", "pause"} /\ outcome' = outcome
            \/ pc' = "done" /\ outcome' = "failed"
<1>1. ASSUME call = "new", createSwapWithRetry(e)
      PROVE  /\ bounded' = bounded /\ attempt' = attempt /\ tries' = tries
             /\ \/ pc' = "pause" /\ outcome' = outcome
                \/ pc' = "done" /\ outcome' = "failed"
  BY <1>1 DEF createSwapWithRetry, loops, End
<1>2. CASE call = "new"
  BY <1>1, <1>2 DEF request, hasSingleUseToken, IInv, TypeOK
<1>3. CASE call # "new"
  <2>1. withRetry(e) /\ UNCHANGED <<call, token, server, aborted>> /\ reply' = "none"
    BY <1>3 DEF request, hasSingleUseToken
  <2>2. attempt \in 0 .. MaxAttempt /\ bounded \in 0 .. MaxRetries
    BY DEF IInv, TypeOK
  <2>3. \/ Again /\ bounded' \in 0 .. MaxRetries
        \/ createSwapWithRetry(e)
    BY <2>1, <2>2 DEF withRetry
  <2>4. CASE Again /\ bounded' \in 0 .. MaxRetries
    <3>1. pc' = "send" /\ tries' = tries /\ outcome' = outcome /\ attempt' = 0
      BY <1>3, <2>4 DEF Again
    <3>2. attempt' \in 0 .. MaxAttempt
      BY <3>1
    <3> QED BY <1>3, <2>1, <2>4, <3>1, <3>2
  <2>5. CASE createSwapWithRetry(e)
    <3>1. bounded' = bounded /\ attempt' = attempt /\ tries' = tries
      BY <2>5 DEF createSwapWithRetry, loops
    <3>2. \/ pc' = "pause" /\ outcome' = outcome
          \/ pc' = "done" /\ outcome' = "failed"
      BY <2>5 DEF createSwapWithRetry, End
    <3> QED BY <1>3, <2>1, <2>2, <3>1, <3>2
  <2> QED BY <2>3, <2>4, <2>5
<1> QED BY <1>2, <1>3

(* The steps in which the client loses an answer: the challenge is counted  *)
(* as unsure unless the answer told that there is no swap.                  *)
LEMMA LosesAnswer ==
  ASSUME IInv, NEW e \in Errors, request(e), pc \in {"asked", "body"},
         \/ unsure' = unsure \cup OnlyWhenCreating({token})
         \/ e = reply /\ e \in Refusals \ {"server"} /\ unsure' = unsure
  PROVE  IInv'
<1>1. /\ UNCHANGED <<call, token, issued, verified, swaps, refused, wire, aborted>>
      /\ reply' = "none" /\ bounded' \in 0 .. MaxRetries /\ tries' = tries
      /\ attempt' \in 0 .. MaxAttempt
      /\ call = "new" => attempt' = attempt /\ pc' # "send"
      /\ \/ pc' \in {"send", "pause"} /\ outcome' = outcome
         \/ pc' = "done" /\ outcome' = "failed"
  BY Requested DEF server
<1>2. unsure \subseteq unsure' /\ unsure' \subseteq 1 .. issued
  BY DEF OnlyWhenCreating, IInv, TypeOK, Fresh
<1>3. outcome = "none"
  BY DEF IInv, Covered
<1>4. TypeOK'
  BY <1>1, <1>2, <1>3 DEF IInv, TypeOK
<1>5. Fresh'
  BY <1>1 DEF IInv, Fresh
<1>6. Told'
  BY <1>1 DEF IInv, Told
<1>7. Open' = Open
  BY <1>1 DEF Open
<1>8. call = "new" => token \in unsure' \/ token \notin Open
  BY DEF IInv, Told, Fresh, Open, OnlyWhenCreating
<1>9. Open \subseteq unsure'
  BY <1>2, <1>8 DEF IInv, Covered, TypeOK
<1>10. Covered'
  BY <1>1, <1>3, <1>7, <1>9 DEF Covered
<1>11. SwapsAccounted'
  BY <1>1, <1>3, <1>10 DEF IInv, SwapsAccounted, Covered, Open
<1> QED BY <1>4, <1>5, <1>6, <1>10, <1>11 DEF IInv

LEMMA ServeIInv ==
  ASSUME IInv, NEW r \in wire, serve(r)
  PROVE  IInv'
<1>1. /\ UNCHANGED <<pc, call, token, attempt, bounded, tries, aborted, outcome, unsure, issued>>
      /\ wire' = wire \ {r} /\ r[1] \notin verified /\ r[2] = 0
      /\ r[1] \in 1 .. issued /\ r = <<r[1], 0>>
  BY DEF serve, UnchangedClient, loops, IInv, Fresh, TypeOK
<1>2. /\ verified' = verified \cup {r[1]} /\ refused' = refused
      /\ \/ swaps' = swaps \cup {r[1]} /\ \E a \in {"ok", "server"} : Answer(r, a)
         \/ swaps' = swaps /\ \E a \in Refusals : Answer(r, a)
  BY <1>1 DEF serve
<1>3. PICK a \in {"ok"} \cup Refusals :
        /\ reply' = IF pc = "asked" /\ call = "new" /\ r = <<token, attempt>>
                    THEN a ELSE reply
        /\ \/ swaps' = swaps \cup {r[1]} /\ a \in {"ok", "server"}
           \/ swaps' = swaps /\ a \in Refusals
  BY <1>2 DEF Answer
<1>4. swaps' \subseteq swaps \cup {r[1]} /\ swaps \subseteq swaps'
  BY <1>3
<1>5. TypeOK'
  BY <1>1, <1>2, <1>3 DEF IInv, TypeOK
<1>6. Fresh'
  <2>1. \A q \in wire' : q[1] # r[1]
    BY <1>1 DEF IInv, Fresh, TypeOK
  <2>2. call = "new" /\ pc = "send" => token # r[1]
    BY <1>1 DEF IInv, Fresh
  <2> QED BY <1>1, <1>2, <2>1, <2>2 DEF IInv, Fresh
<1>7. Told'
  <2>1. CASE pc = "asked" /\ call = "new" /\ r = <<token, attempt>>
    <3>1. token = r[1] /\ reply' = a /\ token \in verified'
      BY <2>1, <1>2, <1>3
    <3>2. a = "ok" => token \in swaps'
      BY <3>1, <1>3
    <3>3. a \in Refusals \ {"server"} => token \notin swaps'
      BY <3>1, <1>1, <1>3 DEF IInv, TypeOK
    <3> QED BY <2>1, <3>1, <3>2, <3>3, <1>1 DEF Told
  <2>2. CASE ~(pc = "asked" /\ call = "new" /\ r = <<token, attempt>>)
    <3>1. reply' = reply
      BY <2>2, <1>3
    <3>2. reply # "none" /\ call = "new" => r[1] # token
      BY <1>1 DEF IInv, Told
    <3> QED BY <3>1, <3>2, <1>1, <1>2, <1>4 DEF IInv, Told
  <2> QED BY <2>1, <2>2
<1>8. Open' \subseteq Open
  BY <1>1, <1>4 DEF Open
<1>9. Covered'
  BY <1>1, <1>8 DEF IInv, Covered
<1>10. SwapsAccounted'
  BY <1>1, <1>2, <1>4, <1>9 DEF IInv, SwapsAccounted, Covered, Open
<1> QED BY <1>5, <1>6, <1>7, <1>9, <1>10 DEF IInv

LEMMA NextIInv == IInv /\ [Next]_vars => IInv'
<1> SUFFICES ASSUME IInv, [Next]_vars PROVE IInv'
  OBVIOUS
<1>1. CASE send
  <2>1. /\ UNCHANGED <<issued, verified, swaps, refused, call, token, attempt,
                       bounded, tries, reply, aborted, outcome, unsure>>
        /\ pc = "send" /\ pc' = "asked"
        /\ wire' = wire \cup (IF call = "new" THEN {<<token, attempt>>} ELSE {})
    BY <1>1 DEF send, OnlyWhenCreating, loops
  <2>2. TypeOK'
    BY <2>1 DEF IInv, TypeOK, Fresh
  <2>3. Fresh'
    BY <2>1 DEF IInv, Fresh
  <2>4. Told'
    BY <2>1 DEF IInv, Told
  <2>5. Open' \subseteq Open \cup {token} /\ (call # "new" => Open' = Open)
    BY <2>1 DEF Open
  <2>6. Covered'
    BY <2>1, <2>5 DEF IInv, Covered
  <2>7. SwapsAccounted'
    BY <2>1 DEF IInv, SwapsAccounted
  <2> QED BY <2>2, <2>3, <2>4, <2>6, <2>7 DEF IInv
<1>2. CASE timeout
  BY <1>2, LosesAnswer DEF timeout, Errors
<1>3. CASE head
  BY <1>3 DEF head, loops, server, IInv, TypeOK, Fresh, Told, Covered, Open, SwapsAccounted
<1>4. CASE bodyFails
  <2>1. PICK e \in {"network", "schema"} \cup ({reply} \cap Refusals) :
          /\ request(e)
          /\ unsure' = unsure \cup
               (IF e \in Refusals \ {"server"} THEN {} ELSE OnlyWhenCreating({token}))
    BY <1>4 DEF bodyFails
  <2>2. e \in Errors /\ pc \in {"asked", "body"}
    BY <1>4 DEF bodyFails, Errors
  <2>3. \/ unsure' = unsure \cup OnlyWhenCreating({token})
        \/ e = reply /\ e \in Refusals \ {"server"} /\ unsure' = unsure
    BY <2>1
  <2> QED BY <2>1, <2>2, <2>3, LosesAnswer
<1>5. CASE challengeRead
  <2>1. /\ UNCHANGED <<verified, swaps, refused, wire, tries, aborted, unsure>>
        /\ pc = "body" /\ call = "challenge" /\ reply' = "none"
        /\ issued' = issued + 1 /\ token' = issued + 1 /\ attempt' = 0 /\ bounded' = 0
        /\ \/ pc' = "done" /\ outcome' = "cancelled" /\ call' = call
           \/ pc' = "send" /\ call' = "new" /\ outcome' = outcome
    BY <1>5 DEF challengeRead, End
  <2>2. TypeOK'
    BY <2>1 DEF IInv, TypeOK
  <2>3. issued + 1 \notin verified /\ <<issued + 1, 0>> \notin wire
    BY DEF IInv, TypeOK
  <2>4. Fresh' /\ Told'
    BY <2>1, <2>3 DEF IInv, Fresh, Told, TypeOK
  <2>5. Open' = Open
    BY <2>1 DEF Open
  <2>6. Covered'
    BY <2>1, <2>5 DEF IInv, Covered
  <2>7. SwapsAccounted'
    BY <2>1, <2>6 DEF IInv, SwapsAccounted, Covered, Open
  <2> QED BY <2>2, <2>4, <2>6, <2>7 DEF IInv
<1>6. CASE swapRead
  BY <1>6 DEF swapRead, End, loops, server, IInv, TypeOK, Fresh, Told, Covered, Open,
              SwapsAccounted
<1>7. CASE pause
  <2>1. /\ UNCHANGED <<issued, verified, swaps, refused, wire, token, reply, aborted, unsure>>
        /\ pc = "pause" /\ attempt' = 0 /\ bounded' = 0 /\ tries' \in 0 .. MaxTries
        /\ \/ pc' = "done" /\ outcome' \in {"cancelled", "failed"} /\ call' = call
           \/ pc' = "send" /\ call' = "challenge" /\ outcome' = outcome
    BY <1>7 DEF pause, End, server, IInv, TypeOK
  <2>2. TypeOK'
    BY <2>1 DEF IInv, TypeOK
  <2>3. Fresh' /\ Told'
    BY <2>1 DEF IInv, Fresh, Told
  <2>4. Open' = Open
    BY <2>1 DEF Open
  <2>5. Covered'
    BY <2>1, <2>4 DEF IInv, Covered
  <2>6. SwapsAccounted'
    BY <2>1, <2>5 DEF IInv, SwapsAccounted, Covered
  <2> QED BY <2>2, <2>3, <2>5, <2>6 DEF IInv
<1>8. CASE abort
  BY <1>8 DEF abort, loops, server, IInv, TypeOK, Fresh, Told, Covered, Open, SwapsAccounted
<1>9. CASE serveChallenge
  BY <1>9 DEF serveChallenge, UnchangedClient, loops, server, IInv, TypeOK, Fresh, Told,
              Covered, Open, SwapsAccounted
<1>10. CASE \E r \in wire : serve(r)
  BY <1>10, ServeIInv
<1>11. CASE Done \/ UNCHANGED vars
  <2>1. UNCHANGED vars
    BY <1>11 DEF Done
  <2> QED BY <2>1 DEF vars, loops, server, IInv, TypeOK, Fresh, Told, Covered, Open,
                      SwapsAccounted
<1> QED BY <1>1, <1>2, <1>3, <1>4, <1>5, <1>6, <1>7, <1>8, <1>9, <1>10, <1>11 DEF Next

(* A challenge under way is new to the server, and what may have a swap is  *)
(* in hand or unsure: the inductive invariant.                              *)
THEOREM Invariant == Spec => []IInv
BY InitIInv, NextIInv, PTL DEF Spec

(* The counters of the two loops stay within their limits, and no request   *)
(* carries a challenge that was not handed out.                             *)
THEOREM TypeCorrect == Spec => []TypeOK
<1>1. IInv => TypeOK
  BY DEF IInv
<1> QED BY <1>1, Invariant, PTL

(* For any number of tries of either loop, and requests that are served at  *)
(* any time after they were given up: no challenge is spent twice, and no   *)
(* swap is left behind but by an answer that did not tell.                  *)
THEOREM SwapsAreAccounted == Spec => []SwapsAccounted
<1>1. IInv => SwapsAccounted
  BY DEF IInv
<1> QED BY <1>1, Invariant, PTL
=============================================================================
