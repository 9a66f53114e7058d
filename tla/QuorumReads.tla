---------------------------- MODULE QuorumReads ----------------------------
(***************************************************************************)
(* What a caller reads through several untrusted servers at once:          *)
(* createQuorumProvider (src/blockchain/quorum-provider.ts) over Bitcoin   *)
(* servers, and fetchTransactionQuorum (src/lib/monero/rpc.ts) over Monero *)
(* nodes.  The answers of one call are a function from the servers asked   *)
(* to what each said, NoAnswer for a request that failed or timed out.     *)
(***************************************************************************)
EXTENDS Integers, FiniteSets

CONSTANT NoAnswer

Answered(answers) == {p \in DOMAIN answers : answers[p] # NoAnswer}

(* One value for all: a value that q servers gave.  None is an error; of    *)
(* several, any may come first.                                             *)
Said(answers, v) == {p \in Answered(answers) : answers[p] = v}
Agreed(answers, q) ==
  {v \in {answers[p] : p \in Answered(answers)} :
      Cardinality(Said(answers, v)) >= q}

(* Lists: the entries that q servers listed.  There is no error: when few   *)
(* servers answer, the merged list is empty.                                *)
Listing(answers, e) == {p \in Answered(answers) : e \in answers[p]}
Merged(answers, q) ==
  {e \in UNION {answers[p] : p \in Answered(answers)} :
      Cardinality(Listing(answers, e)) >= q}

(* sorted[k div 2] of the k numbers that the servers S gave.                *)
IsMedian(number, S, m) ==
  LET k == Cardinality(S)
  IN  /\ \E p \in S : number[p] = m
      /\ Cardinality({p \in S : number[p] < m}) <= k \div 2
      /\ k \div 2 < Cardinality({p \in S : number[p] <= m})
=============================================================================
