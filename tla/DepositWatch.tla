---------------------------- MODULE DepositWatch ----------------------------
(***************************************************************************)
(* The wait for the user's bitcoin: watchForDeposit, with the quorum of    *)
(* Bitcoin servers it polls and its fallback mempool.space                 *)
(* (src/lib/bitcoin/deposit-watcher.ts, src/blockchain/quorum-provider.ts).*)
(*                                                                         *)
(* A payment is one output to the deposit address.  A server lists it with *)
(* its value; the quorum merges what enough servers list.  The servers are *)
(* read at the same time and settle one by one, while payments arrive,     *)
(* confirm and vanish; the merge waits for the last of them.               *)
(*                                                                         *)
(* An operator written just before another of a similar name is its faulty *)
(* twin, to which nothing refers.                                          *)
(***************************************************************************)
EXTENDS QuorumReads

CONSTANTS
  Payments, Amount,           \* the outputs, and the satoshis of each
  Forged,                     \* entries that are not true, for a wrong server
  Servers, Quorum,
  MAX_DEPOSIT_UTXOS

ASSUME DepositAssumption ==
  /\ IsFiniteSet(Servers) /\ Quorum \in Nat \ {0} /\ Quorum <= Cardinality(Servers)
  /\ Amount \in [Payments -> Nat \ {0}] /\ Forged \subseteq Payments \X (Nat \ {0})
  /\ MAX_DEPOSIT_UTXOS \in Nat

VARIABLES
  status,     \* payment -> "absent", "pool", "mined", or "spent" before the watch
  liars,      \* the servers that may list anything
  pc, blockchain, aborted,
  settled,    \* the servers whose read has come back
  answers,    \* what they listed
  dropped,    \* history: payments that vanished during the reads
  seen,       \* unconfirmed payments mempool.space told of
  found       \* the deposit: through what, and its entries

world == <<status, liars>>
reads == <<settled, answers, dropped>>
vars == <<world, pc, blockchain, aborted, reads, seen, found>>

Entry(p) == <<p, Amount[p]>>
Paid(where) == {p \in Payments : status[p] \in where}
Here == {Entry(p) : p \in Paid({"pool", "mined"})}
Entries == {Entry(p) : p \in Payments} \cup Forged

None == [via |-> "none", utxos |-> {}]
NoReads == settled' = {} /\ dropped' = {} /\ answers' = [s \in Servers |-> NoAnswer]

(* blockchain: the provider of the host, or undefined.                      *)
Init ==
  /\ status \in [Payments -> {"absent", "spent"}]
  /\ liars \in SUBSET Servers
  /\ pc = "poll" /\ blockchain \in BOOLEAN /\ aborted = FALSE
  /\ settled = {} /\ answers = [s \in Servers |-> NoAnswer] /\ dropped = {}
  /\ seen = {} /\ found = None

-----------------------------------------------------------------------------
(* The quorum provider asks all servers at once.                            *)
listUnspent ==
  /\ pc = "poll" /\ ~aborted /\ blockchain
  /\ pc' = "reading"
  /\ UNCHANGED <<world, blockchain, aborted, reads, seen, found>>

(* A read comes back or fails; one that does neither keeps the poll waiting.*)
(* A server that works lists outputs that are there, and may lag.           *)
MayList(s) == IF s \in liars THEN Entries ELSE Here

settle(s) ==
  /\ pc = "reading" /\ s \notin settled
  /\ settled' = settled \cup {s}
  /\ \E listed \in (SUBSET MayList(s)) \cup {NoAnswer} :
       answers' = [answers EXCEPT ![s] = listed]
  /\ UNCHANGED <<world, pc, blockchain, aborted, dropped, seen, found>>

Wait == pc' = "pause" /\ UNCHANGED found
Found(via, utxos) == pc' = "found" /\ found' = [via |-> via, utxos |-> utxos]

AggregateOnly(utxos) ==
  /\ UNCHANGED blockchain
  /\ IF utxos # {} /\ Cardinality(utxos) <= MAX_DEPOSIT_UTXOS
     THEN Found("provider", utxos) ELSE Wait

(* Too many outputs is an error like any other: the fallback takes over for *)
(* good, and does not count them.                                           *)
aggregateUtxos(utxos) ==
  \/ utxos = {} /\ Wait /\ UNCHANGED blockchain
  \/ /\ utxos # {} /\ Cardinality(utxos) <= MAX_DEPOSIT_UTXOS
     /\ Found("provider", utxos) /\ UNCHANGED blockchain
  \/ /\ Cardinality(utxos) > MAX_DEPOSIT_UTXOS
     /\ blockchain' = FALSE /\ Wait

MergedAny(lists) == Merged(lists, 1)
MergedByQuorum(lists) == Merged(lists, Quorum)

(* Promise.allSettled: the merge waits for every server, whatever a quorum  *)
(* of them has said.                                                        *)
pickQuorumUtxos ==
  /\ pc = "reading" /\ settled = Servers
  /\ aggregateUtxos(MergedByQuorum(answers))
  /\ NoReads
  /\ UNCHANGED <<world, aborted, seen>>

(* A provider that throws.  The quorum provider does not.                   *)
providerThrows ==
  /\ pc = "poll" /\ ~aborted /\ blockchain
  /\ blockchain' = FALSE /\ Wait
  /\ UNCHANGED <<world, aborted, reads, seen>>

(* mempool.space: first the unconfirmed transactions, then all of them, the *)
(* unconfirmed again and the outputs already spent included.                *)
fetchMempool ==
  /\ pc = "poll" /\ ~aborted /\ ~blockchain
  /\ seen' = Paid({"pool"}) /\ pc' = "fetched"
  /\ UNCHANGED <<world, blockchain, aborted, reads, found>>

fetchConfirmed ==
  /\ pc = "fetched" /\ seen' = {}
  /\ LET all == seen \cup Paid({"pool", "mined", "spent"})
     IN  \/ all = {} /\ Wait
         \/ all # {} /\ Found("mempool", {Entry(p) : p \in all})
  /\ UNCHANGED <<world, blockchain, aborted, reads>>

fetchFails ==
  /\ pc = "fetched" \/ (pc = "poll" /\ ~aborted /\ ~blockchain)
  /\ seen' = {} /\ Wait
  /\ UNCHANGED <<world, blockchain, aborted, reads>>

(* The signal is looked at between polls; it ends neither pause nor read.   *)
delay ==
  /\ pc = "pause" /\ pc' = "poll"
  /\ UNCHANGED <<world, blockchain, aborted, reads, seen, found>>
stop ==
  /\ pc = "poll" /\ aborted /\ pc' = "aborted"
  /\ UNCHANGED <<world, blockchain, aborted, reads, seen, found>>

-----------------------------------------------------------------------------
move(p, from, to) ==
  /\ status[p] = from /\ status' = [status EXCEPT ![p] = to]
  /\ UNCHANGED <<liars, pc, blockchain, aborted, settled, answers, seen, found>>
pay(p) == move(p, "absent", "pool") /\ UNCHANGED dropped
confirm(p) == move(p, "pool", "mined") /\ UNCHANGED dropped
drop(p) ==
  /\ move(p, "pool", "absent")
  /\ dropped' = IF pc = "reading" THEN dropped \cup {p} ELSE dropped

abort ==
  /\ pc \notin {"found", "aborted"} /\ ~aborted /\ aborted' = TRUE
  /\ UNCHANGED <<world, pc, blockchain, reads, seen, found>>

Watch ==
  \/ listUnspent \/ (\E s \in Servers : settle(s)) \/ pickQuorumUtxos
  \/ providerThrows \/ fetchMempool \/ fetchConfirmed \/ fetchFails \/ delay \/ stop

Next ==
  \/ Watch \/ abort
  \/ \E p \in Payments : pay(p) \/ confirm(p) \/ drop(p)

Spec == Init /\ [][Next]_vars

-----------------------------------------------------------------------------
TypeOK ==
  /\ status \in [Payments -> {"absent", "pool", "mined", "spent"}]
  /\ liars \subseteq Servers /\ blockchain \in BOOLEAN /\ aborted \in BOOLEAN
  /\ pc \in {"poll", "reading", "pause", "fetched", "found", "aborted"}
  /\ settled \subseteq Servers /\ dropped \subseteq Payments
  /\ answers \in [Servers -> (SUBSET Entries) \cup {NoAnswer}]
  /\ seen \subseteq Payments
  /\ found.via \in {"none", "provider", "mempool"} /\ found.utxos \subseteq Entries

(* While fewer servers than the quorum are wrong, what is found through the *)
(* provider was at the address, with that value, in the course of the poll, *)
(* although the servers are read at different moments, lie, lag and fail,   *)
(* and an output is counted once however many of them list it.              *)
DepositBacked ==
  [][found'.via = "provider" /\ found' # found /\ Cardinality(liars) < Quorum =>
       found'.utxos \subseteq Here \cup {Entry(p) : p \in dropped}]_vars

(* Hypotheses of DepositSeen; the specification promises none of them.      *)
(* Every read of a poll, of a wrong server too, comes back: no request has  *)
(* a timer, and the merge waits for all.                                    *)
ReadsReturn == WF_vars(Watch)

(* As long as the provider is asked, again and again a poll ends in which   *)
(* the servers that work have listed all there is.                          *)
AllListed ==
  /\ pc = "reading" /\ settled = Servers
  /\ \A s \in Servers \ liars : answers[s] = Here
ServersCatchUp == []<>(~blockchain \/ AllListed)

(* Not every request to mempool.space fails.                                *)
FallbackAnswers == SF_vars(fetchMempool) /\ SF_vars(fetchConfirmed)

(* Then a deposit that stays is found, by the quorum or by the fallback, or *)
(* the watch is aborted, while enough servers for a quorum work: neither    *)
(* what the others list nor the cap on outputs keeps it from being found.   *)
DepositSeen ==
  ReadsReturn /\ ServersCatchUp /\ FallbackAnswers =>
    \A p \in Payments :
      (status[p] = "mined" /\ Cardinality(Servers \ liars) >= Quorum)
        ~> (pc = "found" \/ aborted)
=============================================================================
