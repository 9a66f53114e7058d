------------------------- MODULE QuorumReadsProofs -------------------------
(***************************************************************************)
(* The two components that believe several untrusted servers at once, for  *)
(* any number of servers, payments and confirmations.                      *)
(*                                                                         *)
(*  - QuorumReads: what a quorum says an honest server says, and the       *)
(*    predicate IsMedian is the number that the code sorts out.            *)
(*  - XmrLock: what a quorum of nodes returns was said by an honest one,   *)
(*    and the verdict on a Monero lock is true of the chain, also when     *)
(*    nodes give no confirmations at all.                                  *)
(*  - DepositWatch: the servers are read at different moments, and a       *)
(*    deposit that their quorum reports was there in the meantime.         *)
(*                                                                         *)
(* The two specifications share no variable and no constant but NoAnswer;  *)
(* each theorem is about one of them.                                      *)
(***************************************************************************)
EXTENDS XmrLock, DepositWatch, FiniteSetTheorems, TLAPS

-----------------------------------------------------------------------------
(* Among the subsets of a finite set that have a property, one is least.    *)
LEMMA LeastSubset ==
  ASSUME NEW U, IsFiniteSet(U), NEW Z \in SUBSET (SUBSET U), Z # {}
  PROVE  \E T \in Z : \A R \in Z : R \subseteq T => R = T
<1>1. IsWellFoundedOn(StrictSubsetOrdering(U), SUBSET U)
  BY FS_StrictSubsetOrderingWellFounded, FS_FiniteSubsetsOfFinite
<1>2. \E T \in Z : \A R \in Z : <<R, T>> \notin StrictSubsetOrdering(U)
  BY <1>1, WFMin
<1> QED BY <1>2 DEF StrictSubsetOrdering

(* Of more nodes than there are liars one is honest.                        *)
LEMMA HonestOne ==
  ASSUME NEW S, NEW L, IsFiniteSet(S), IsFiniteSet(L),
         Cardinality(L) < Cardinality(S)
  PROVE  \E n \in S : n \notin L
<1>1. S \subseteq L => Cardinality(S) <= Cardinality(L)
  BY FS_Subset
<1>2. Cardinality(S) \in Nat /\ Cardinality(L) \in Nat
  BY FS_CardinalityType
<1> QED BY <1>1, <1>2

(* A value that a quorum agrees on was said by a server that works, while   *)
(* fewer than the quorum are wrong: what RefundPath takes for granted of    *)
(* the Bitcoin provider (quorum-provider.ts:34-46, 89-107).                 *)
THEOREM AgreedIsHonest ==
  ASSUME NEW replies, IsFiniteSet(DOMAIN replies), NEW W \in SUBSET DOMAIN replies,
         NEW q \in Nat, Cardinality(W) < q, NEW v \in Agreed(replies, q)
  PROVE  \E s \in Answered(replies) \ W : replies[s] = v
<1>1. Said(replies, v) \subseteq DOMAIN replies /\ Cardinality(Said(replies, v)) >= q
  BY DEF Said, Answered, Agreed
<1>2. IsFiniteSet(Said(replies, v)) /\ IsFiniteSet(W)
  BY <1>1, FS_Subset
<1>3. Cardinality(Said(replies, v)) \in Nat /\ Cardinality(W) \in Nat
  BY <1>2, FS_CardinalityType
<1>4. PICK s \in Said(replies, v) : s \notin W
  BY <1>1, <1>2, <1>3, HonestOne
<1> QED BY <1>4 DEF Said

(* A quorum of more than half of the servers agrees on one value at most,   *)
(* in whatever order the replies come; the code asks for no such quorum     *)
(* (quorum-provider.ts:24), and with less the first to be counted wins.     *)
THEOREM AgreedIsOne ==
  ASSUME NEW replies, IsFiniteSet(DOMAIN replies), NEW q \in Nat,
         2 * q > Cardinality(DOMAIN replies),
         NEW v \in Agreed(replies, q), NEW w \in Agreed(replies, q)
  PROVE  v = w
<1> DEFINE S == Said(replies, v)
           T == Said(replies, w)
           D == DOMAIN replies
<1>1. S \subseteq D /\ T \subseteq D /\ Cardinality(S) >= q /\ Cardinality(T) >= q
  BY DEF Said, Answered, Agreed
<1>2. IsFiniteSet(S) /\ IsFiniteSet(T)
  BY <1>1, FS_Subset
<1>3. Cardinality(S) \in Nat /\ Cardinality(T) \in Nat /\ Cardinality(D) \in Nat
  BY <1>2, FS_CardinalityType
<1>4. Cardinality(S) + Cardinality(T) > Cardinality(D)
  <2> HIDE DEF S, T, D
  <2>1. 2 * q > Cardinality(D)
    BY DEF D
  <2> QED BY <1>1, <1>3, <2>1
<1>5. S \cap T # {}
  <2> HIDE DEF S, T, D
  <2>1. IsFiniteSet(D)
    BY DEF D
  <2> QED BY <1>1, <1>4, <2>1, FS_MajoritiesIntersect
<1> QED BY <1>5 DEF Said

-----------------------------------------------------------------------------
(* Of finitely many, one with the greatest number.                          *)
LEMMA GreatestOf ==
  ASSUME NEW S, IsFiniteSet(S), S # {}, NEW number \in [S -> Int]
  PROVE  \E p \in S : \A q \in S : number[q] <= number[p]
<1> DEFINE Up(p) == {q \in S : number[q] >= number[p]}
           Z == {Up(p) : p \in S}
<1>1. PICK T \in Z : \A R \in Z : R \subseteq T => R = T
  <2>1. Z \in SUBSET (SUBSET S)
    OBVIOUS
  <2>2. \A p \in S : Up(p) \in Z
    OBVIOUS
  <2> HIDE DEF Z
  <2>3. Z # {}
    BY <2>2
  <2> QED BY <2>1, <2>3, LeastSubset
<1>2. PICK p \in S : T = Up(p)
  BY <1>1
<1>3. ASSUME NEW q \in S, ~(number[q] <= number[p]) PROVE FALSE
  <2>1. number[q] \in Int /\ number[p] \in Int /\ number[q] > number[p]
    BY <1>3
  <2>2. Up(q) \subseteq Up(p)
    BY <2>1
  <2>3. Up(q) = Up(p)
    BY <1>1, <1>2, <2>2
  <2>4. p \in Up(p) /\ p \notin Up(q)
    BY <2>1
  <2> QED BY <2>3, <2>4
<1> QED BY <1>2, <1>3

(* No two numbers are both the median.                                      *)
LEMMA MedianUnique ==
  ASSUME NEW S, IsFiniteSet(S), NEW number \in [S -> Int],
         NEW m, NEW n, IsMedian(number, S, m), IsMedian(number, S, n)
  PROVE  m = n
<1> DEFINE k == Cardinality(S)
<1>1. m \in Int /\ n \in Int /\ k \in Nat
  BY FS_CardinalityType DEF IsMedian
<1>2. ASSUME NEW a \in Int, NEW b \in Int, a < b,
             IsMedian(number, S, a), IsMedian(number, S, b)
      PROVE  FALSE
  <2> DEFINE UpTo == {p \in S : number[p] <= a}
             Below == {p \in S : number[p] < b}
  <2>1. UpTo \subseteq Below /\ Below \subseteq S
    BY <1>2
  <2>2. IsFiniteSet(Below) /\ IsFiniteSet(UpTo)
    BY <2>1, FS_Subset
  <2>3. Cardinality(UpTo) <= Cardinality(Below)
    BY <2>1, <2>2, FS_Subset
  <2>4. Cardinality(UpTo) \in Nat /\ Cardinality(Below) \in Nat
    BY <2>2, FS_CardinalityType
  <2>5. k \div 2 < Cardinality(UpTo) /\ Cardinality(Below) <= k \div 2
    BY <1>2 DEF IsMedian
  <2>6. k \div 2 \in Nat
    BY <1>1
  <2> HIDE DEF UpTo, Below, k
  <2> QED BY <2>3, <2>4, <2>5, <2>6
<1> QED BY <1>1, <1>2

(* Any numbers at all have one.                                             *)
LEMMA MedianExists ==
  ASSUME NEW S, IsFiniteSet(S), S # {}, NEW number \in [S -> Int]
  PROVE  \E m \in Int : IsMedian(number, S, m)
<1> DEFINE k == Cardinality(S)
           UpTo(a) == {p \in S : number[p] <= a}
           Below(a) == {p \in S : number[p] < a}
           Z == {T \in SUBSET S : k \div 2 < Cardinality(T)
                                  /\ \E p \in S : T = UpTo(number[p])}
<1>1. k \in Nat /\ k > 0
  BY FS_CardinalityType, FS_EmptySet
<1>2. Z # {}
  <2>1. PICK p \in S : \A q \in S : number[q] <= number[p]
    BY GreatestOf
  <2>2. UpTo(number[p]) = S
    BY <2>1
  <2>3. k \div 2 < k
    BY <1>1
  <2> QED BY <2>2, <2>3
<1>3. PICK T \in Z : \A R \in Z : R \subseteq T => R = T
  <2>1. Z \in SUBSET (SUBSET S)
    OBVIOUS
  <2> HIDE DEF Z
  <2> QED BY <1>2, <2>1, LeastSubset
<1>4. PICK p \in S : T = UpTo(number[p]) /\ k \div 2 < Cardinality(T)
  BY <1>3
<1> DEFINE m == number[p]
<1>5. Cardinality(Below(m)) <= k \div 2
  <2> SUFFICES ASSUME ~(Cardinality(Below(m)) <= k \div 2) PROVE FALSE
    OBVIOUS
  <2>1. IsFiniteSet(Below(m)) /\ Below(m) \subseteq S
    BY FS_Subset
  <2>2. Cardinality(Below(m)) \in Nat /\ k \div 2 \in Nat
    <3> HIDE DEF Below
    <3> QED BY <1>1, <2>1, FS_CardinalityType
  <2>3. k \div 2 < Cardinality(Below(m)) /\ Below(m) # {}
    <3>1. k \div 2 < Cardinality(Below(m))
      <4> HIDE DEF Below, k
      <4> QED BY <2>2
    <3>2. Cardinality(Below(m)) # 0
      <4> HIDE DEF Below, k
      <4> QED BY <2>2, <3>1
    <3> HIDE DEF Below
    <3> QED BY <3>1, <3>2, FS_EmptySet
  <2> DEFINE low == [q \in Below(m) |-> number[q]]
  <2>4. low \in [Below(m) -> Int]
    OBVIOUS
  <2>5. PICK q \in Below(m) : \A r \in Below(m) : low[r] <= low[q]
    <3> HIDE DEF Below, low
    <3> QED BY <2>1, <2>3, <2>4, GreatestOf
  <2>6. \A r \in Below(m) : number[r] <= number[q]
    BY <2>5
  <2>7. q \in S /\ number[q] < m /\ number[q] \in Int /\ m \in Int
    BY <2>5
  <2>8. UpTo(number[q]) = Below(m)
    BY <2>6, <2>7
  <2>9. Below(m) \in Z
    BY <2>3, <2>7, <2>8
  <2>10. Below(m) \subseteq T /\ p \in T /\ p \notin Below(m)
    BY <1>4
  <2> QED BY <1>3, <2>9, <2>10
<1>6. IsMedian(number, S, m)
  BY <1>4, <1>5 DEF IsMedian
<1> QED BY <1>6

(* The predicate IsMedian stands for one number: any replies have exactly   *)
(* one median, so a quorum that agrees on the transaction of a lock always  *)
(* gets a number of confirmations for it (rpc.ts:199).                      *)
THEOREM MedianIsDefined ==
  ASSUME NEW S, IsFiniteSet(S), S # {}, NEW number \in [S -> Int]
  PROVE  \E m \in Int : \A n : IsMedian(number, S, n) <=> n = m
<1>1. PICK m \in Int : IsMedian(number, S, m)
  BY MedianExists
<1> QED BY <1>1, MedianUnique

(* It is the number the code picks: whatever way the k numbers are sorted,  *)
(* the median is the one at index k div 2 (rpc.ts:201).                     *)
THEOREM MedianIsMiddle ==
  ASSUME NEW S, IsFiniteSet(S), S # {}, NEW number \in [S -> Int],
         NEW sorted \in Bijection(0 .. Cardinality(S) - 1, S),
         \A i, j \in 0 .. Cardinality(S) - 1 :
           i <= j => number[sorted[i]] <= number[sorted[j]]
  PROVE  IsMedian(number, S, number[sorted[Cardinality(S) \div 2]])
<1> DEFINE k == Cardinality(S)
           h == k \div 2
           m == number[sorted[h]]
           Low == {p \in S : number[p] < m}
           UpTo == {p \in S : number[p] <= m}
<1>1. k \in Nat /\ k > 0
  BY FS_CardinalityType, FS_EmptySet
<1>2. h \in Nat /\ h <= k - 1 /\ h \in 0 .. k - 1
  BY <1>1
<1>3. /\ \A i \in 0 .. k - 1 : sorted[i] \in S /\ number[sorted[i]] \in Int
      /\ \A p \in S : \E i \in 0 .. k - 1 : sorted[i] = p
      /\ \A i, j \in 0 .. k - 1 : sorted[i] = sorted[j] => i = j
  BY DEF Bijection, Injection, Surjection, IsInjective
<1>4. IsFiniteSet(Low) /\ IsFiniteSet(UpTo)
  BY FS_Subset
<1>5. Cardinality(Low) <= h
  <2> DEFINE I == 0 .. h - 1
             J == {i \in I : sorted[i] \in Low}
             f == [i \in J |-> sorted[i]]
  <2>1. \A p \in Low : \E i \in J : sorted[i] = p
    <3> SUFFICES ASSUME NEW p \in Low PROVE \E i \in J : sorted[i] = p
      OBVIOUS
    <3>1. PICK i \in 0 .. k - 1 : sorted[i] = p
      BY <1>3
    <3>2. ~(h <= i)
      <4>1. number[sorted[i]] < m /\ number[sorted[i]] \in Int /\ m \in Int
        BY <3>1, <1>2, <1>3
      <4> QED BY <4>1, <1>2
    <3> QED BY <3>1, <3>2, <1>2
  <2>2. f \in Surjection(J, Low)
    BY <2>1 DEF Surjection
  <2>3. IsFiniteSet(I) /\ Cardinality(I) = h
    <3>1. h - 1 \in Int /\ (0 > h - 1 => h = 0) /\ (h - 1) - 0 + 1 = h
      <4> HIDE DEF h
      <4> QED BY <1>2
    <3> HIDE DEF h
    <3> QED BY <3>1, FS_Interval
  <2>4. J \subseteq I
    OBVIOUS
  <2> HIDE DEF I, J, f, Low, h
  <2>5. IsFiniteSet(J) /\ Cardinality(J) <= h
    BY <2>3, <2>4, FS_Subset
  <2>6. Cardinality(Low) <= Cardinality(J)
    BY <2>2, <2>5, FS_Surjection
  <2>7. Cardinality(Low) \in Nat /\ Cardinality(J) \in Nat
    BY <1>4, <2>5, FS_CardinalityType
  <2> QED BY <1>2, <2>5, <2>6, <2>7
<1>6. h < Cardinality(UpTo)
  <2> DEFINE I == 0 .. h
             f == [i \in I |-> sorted[i]]
  <2>1. \A i \in I : i \in 0 .. k - 1 /\ i <= h
    <3> HIDE DEF k, h
    <3> QED BY <1>1, <1>2
  <2>2. \A i \in I : sorted[i] \in UpTo
    BY <2>1, <1>2, <1>3
  <2>3. f \in Injection(I, UpTo)
    BY <2>1, <2>2, <1>3 DEF Injection, IsInjective
  <2>4. Cardinality(I) = h + 1
    <3>1. h \in Int /\ ~(0 > h) /\ h - 0 + 1 = h + 1
      <4> HIDE DEF h
      <4> QED BY <1>2
    <3> HIDE DEF h
    <3> QED BY <3>1, FS_Interval
  <2> HIDE DEF I, f, UpTo, h
  <2>5. Cardinality(I) <= Cardinality(UpTo)
    BY <2>3, <1>4, FS_Injection
  <2>6. Cardinality(UpTo) \in Nat
    BY <1>4, FS_CardinalityType
  <2> QED BY <1>2, <2>4, <2>5, <2>6
<1>7. \E p \in S : number[p] = m
  BY <1>2, <1>3
<1> QED BY <1>5, <1>6, <1>7 DEF IsMedian

(* More than half of a quorum said no less than the median (rpc.ts:199): an *)
(* honest node is among them while less than half a quorum are wrong.       *)
LEMMA MedianBacked ==
  ASSUME NEW S, NEW L, NEW q \in Nat, NEW number \in [S -> Int], NEW m \in Int,
         IsFiniteSet(S), IsFiniteSet(L),
         Cardinality(S) >= q, 2 * Cardinality(L) < q, IsMedian(number, S, m)
  PROVE  \E n \in S \ L : m <= number[n]
<1> DEFINE Low  == {p \in S : number[p] < m}
           High == {p \in S : number[p] >= m}
           k    == Cardinality(S)
<1>1. /\ IsFiniteSet(Low) /\ IsFiniteSet(High)
      /\ Low \cup High = S /\ Low \cap High = {}
  <2>1. Low \subseteq S /\ High \subseteq S
    OBVIOUS
  <2>2. IsFiniteSet(Low) /\ IsFiniteSet(High)
    BY <2>1, FS_Subset
  <2>3. \A p \in S : number[p] \in Int
    OBVIOUS
  <2> QED BY <2>2, <2>3
<1>2. Cardinality(Low) + Cardinality(High) = k
  <2> HIDE DEF Low, High
  <2>1. Cardinality(Low \cup High)
          = Cardinality(Low) + Cardinality(High) - Cardinality(Low \cap High)
    BY <1>1, FS_Union
  <2>2. Cardinality(Low \cap High) = 0
    BY <1>1, FS_EmptySet
  <2>3. Cardinality(Low) \in Nat /\ Cardinality(High) \in Nat
    BY <1>1, FS_CardinalityType
  <2>4. Cardinality(Low \cup High) = k
    BY <1>1
  <2> HIDE DEF k
  <2> QED BY <2>1, <2>2, <2>3, <2>4
<1>3. Cardinality(Low) <= k \div 2
  BY DEF IsMedian
<1>4. /\ k \in Nat /\ Cardinality(L) \in Nat
      /\ Cardinality(Low) \in Nat /\ Cardinality(High) \in Nat
  BY <1>1, FS_CardinalityType
<1>5. Cardinality(L) < Cardinality(High)
  <2> HIDE DEF Low, High, k
  <2>1. 2 * (k \div 2) <= k
    BY <1>4
  <2>2. k >= q
    BY DEF k
  <2> QED BY <1>2, <1>3, <1>4, <2>1, <2>2
<1>6. PICK n \in High : n \notin L
  <2> HIDE DEF High
  <2> QED BY <1>1, <1>5, HonestOne
<1> QED BY <1>6

-----------------------------------------------------------------------------(* What an honest node was heard to say was true, and stays so: the maker's *)
(* transaction is fixed and its confirmations only grow.                    *)
HonestHeard == \A n \in nodes \ wrong : said[n] # NoAnswer => Truthful(said[n])

(* A final verdict stands with the answers it was made of: no round begins  *)
(* after it, so what Trusted says of these answers stays as it is.          *)
OpenWhileAsked == at = "asked" => verdict \in {"none", "retry"}

(* The inductive invariant of the check of a lock.                          *)
LockInv == LockTypeOK /\ HonestHeard /\ OpenWhileAsked /\ LockVerdictTrue

LEMMA InitLock ==
  ASSUME LockInit
  PROVE  LockInv
BY LockAssumption DEF LockInit, LockInv, LockTypeOK, HonestHeard,
       OpenWhileAsked, LockVerdictTrue, Heights

(* The transaction that a settled round is judged by is the maker's, and    *)
(* has at least the confirmations that are put down to it.  With honest     *)
(* nodes alone the median is one of theirs, or undefined and counts as 0;   *)
(* with few that are wrong or have it in the pool, one of the others says   *)
(* no less than the median.                                                 *)
LEMMA FetchedTrue ==
  ASSUME LockInv, Trusted, NEW a \in Fetched
  PROVE  a.tx = flaws /\ a.conf <= conf /\ a.conf \in Nat /\ conf \in Nat
<1> USE LockAssumption DEF LockInv, LockTypeOK
<1> DEFINE Bad == (wrong \cap nodes) \cup Pooled
<1>1. IsFiniteSet(nodes) /\ IsFiniteSet(Bad)
  <2>1. nodes \subseteq AllNodes /\ Bad \subseteq AllNodes
    BY DEF Pooled
  <2> HIDE DEF Bad
  <2> QED BY <2>1, FS_Subset
<1>2. Heard \subseteq nodes /\ \A n \in Heard : said[n] \in Reports
  BY DEF Heard
<1>3. \A n \in Heard : n \notin wrong => Truthful(said[n])
  BY DEF Heard, HonestHeard
<1>4. conf \in Nat /\ conf <= MaxHeight /\ Undefined \in Nat /\ conf < Undefined
  BY DEF Heights
<1>5. CASE ~byQuorum
  <2>1. PICK n \in Heard : a = said[n]
    BY <1>5 DEF Fetched, FetchedOne
  <2>2. n \notin wrong /\ said[n].conf # Undefined
    BY <1>5, <1>2 DEF Trusted, Pooled, Heard
  <2> QED BY <2>1, <2>2, <1>2, <1>3, <1>4 DEF Truthful, Reports, Heights
<1>6. CASE byQuorum
  <2> DEFINE S == Bucket(a.tx)
             number == [n \in S |-> Confs[n]]
  <2>1. Cardinality(S) >= monerodQuorum
    BY <1>6 DEF Fetched, FetchedAgreed
  <2>2. PICK m \in Heights \cup {Undefined} :
          IsMedian(Confs, S, m) /\ a.conf = OrZero(m)
    BY <1>6 DEF Fetched, FetchedAgreed
  <2>3. S \subseteq Heard /\ IsFiniteSet(S)
    BY <1>1, <1>2, FS_Subset DEF Bucket
  <2>4. m \in Nat /\ number \in [S -> Int] /\ \A n \in S : number[n] = said[n].conf
    BY <2>3, <1>2 DEF Confs, Reports, Heights
  <2>5. IsMedian(number, S, m)
    BY <2>2, <2>3 DEF IsMedian
  <2>6. \A n \in S : n \notin wrong => /\ a.tx = flaws
                                      /\ (number[n] <= conf \/ number[n] = Undefined)
    BY <2>3, <2>4, <1>3 DEF Bucket, Truthful
  <2>7. CASE wrong \cap nodes = {}
    <3>1. PICK n \in S : number[n] = m
      BY <2>5 DEF IsMedian
    <3>2. a.tx = flaws /\ (m <= conf \/ m = Undefined)
      BY <3>1, <2>3, <2>6, <2>7, <1>2
    <3> QED BY <3>2, <2>2, <2>4, <1>4 DEF OrZero
  <2>8. CASE 2 * Cardinality(Bad) < monerodQuorum
    <3>1. PICK n \in S \ Bad : m <= number[n]
      <4> HIDE DEF S, number, Bad
      <4> QED BY <2>1, <2>3, <2>4, <2>5, <2>8, <1>1, MedianBacked
    <3>2. n \notin wrong /\ number[n] # Undefined
      BY <3>1, <2>3, <2>4, <1>2 DEF Pooled, Heard
    <3>3. a.tx = flaws /\ number[n] <= conf /\ number[n] \in Int
      BY <3>1, <3>2, <2>4, <2>6
    <3>4. m <= conf
      BY <3>1, <3>3, <2>4, <1>4
    <3> QED BY <3>3, <3>4, <2>2, <2>4, <1>4 DEF OrZero
  <2> QED BY <2>7, <2>8, <1>6 DEF Trusted
<1> QED BY <1>5, <1>6

LEMMA NextLock ==
  ASSUME LockInv, [LockNext]_lockVars
  PROVE  LockInv'
<1> USE LockAssumption
<1>1. CASE verify
  <2>1. /\ verdict \in {"none", "retry"} /\ verdict' = verdict
        /\ UNCHANGED <<setting, conf>> /\ at' = "asked" /\ asked' = {}
        /\ said' = [n \in AllNodes |-> NoAnswer]
    BY <1>1 DEF verify
  <2> QED BY <2>1 DEF LockInv, LockTypeOK, HonestHeard, OpenWhileAsked,
                      LockVerdictTrue, setting
<1>2. ASSUME NEW n \in AllNodes, respond(n) PROVE LockInv'
  <2>1. /\ UNCHANGED <<setting, conf, at, verdict>> /\ at = "asked"
        /\ asked' = asked \cup {n} /\ n \in nodes
    BY <1>2 DEF respond
  <2>2. LockVerdictTrue' /\ OpenWhileAsked'
    BY <2>1 DEF LockInv, LockVerdictTrue, OpenWhileAsked
  <2>3. \/ UNCHANGED said
        \/ \E a \in Reports : Says(n, a) /\ said' = [said EXCEPT ![n] = a]
    BY <1>2 DEF respond
  <2>4. LockTypeOK'
    BY <2>1, <2>3, <1>2 DEF LockInv, LockTypeOK, setting, respond
  <2>5. HonestHeard'
    BY <2>1, <2>3 DEF LockInv, LockTypeOK, HonestHeard, Truthful, Says, setting
  <2> QED BY <2>2, <2>4, <2>5 DEF LockInv
<1>3. CASE conclude
  <2>1. UNCHANGED <<setting, conf, said, asked>> /\ at' = "idle"
    BY <1>3 DEF conclude
  <2>2. \/ verdict' = "retry"
        \/ \E a \in Fetched : verdict' = Examine(a)
    BY <1>3 DEF conclude
  <2>3. LockTypeOK' /\ OpenWhileAsked'
    BY <2>1, <2>2 DEF LockInv, LockTypeOK, OpenWhileAsked, setting, Examine
  <2>4. HonestHeard'
    BY <2>1 DEF LockInv, HonestHeard, Truthful, setting
  <2>5. LockVerdictTrue'
    <3> SUFFICES ASSUME Trusted'
                 PROVE /\ verdict' = "verified" => flaws' = {} /\ conf' >= minConfirmations
                       /\ verdict' = "refused" => flaws' # {} /\ conf' >= minConfirmations
      BY DEF LockVerdictTrue
    <3>1. Trusted
      BY <2>1 DEF Trusted, Pooled, byQuorum, setting
    <3>2. flaws' = flaws /\ conf' = conf
      BY <2>1 DEF setting
    <3>3. ASSUME NEW a \in Fetched, verdict' = Examine(a)
          PROVE /\ verdict' = "verified" => flaws = {} /\ conf >= minConfirmations
                /\ verdict' = "refused" => flaws # {} /\ conf >= minConfirmations
      BY <3>1, <3>3, FetchedTrue DEF Examine
    <3> QED BY <2>2, <3>2, <3>3
  <2> QED BY <2>3, <2>4, <2>5 DEF LockInv
<1>4. CASE deepen
  <2>1. /\ UNCHANGED <<setting, at, said, asked, verdict>>
        /\ conf' = conf + 1 /\ conf < MaxHeight
    BY <1>4 DEF deepen
  <2>2. conf \in 0 .. MaxHeight /\ conf' \in 0 .. MaxHeight
    BY <2>1 DEF LockInv, LockTypeOK, Heights
  <2>3. LockTypeOK' /\ OpenWhileAsked'
    BY <2>1, <2>2 DEF LockInv, LockTypeOK, OpenWhileAsked, setting, Heights
  <2>4. HonestHeard'
    BY <2>1, <2>2 DEF LockInv, LockTypeOK, HonestHeard, Truthful,
                      setting, Reports, Heights
  <2>5. LockVerdictTrue'
    <3>1. Trusted' => Trusted
      BY <2>1 DEF Trusted, Pooled, byQuorum, setting
    <3> QED BY <2>1, <2>2, <3>1 DEF LockInv, LockVerdictTrue, setting
  <2> QED BY <2>3, <2>4, <2>5 DEF LockInv
<1>5. CASE UNCHANGED lockVars
  BY <1>5 DEF lockVars, setting, LockInv, LockTypeOK, HonestHeard,
              OpenWhileAsked, LockVerdictTrue, Trusted, Pooled, byQuorum, Truthful
<1> QED BY <1>1, <1>2, <1>3, <1>4, <1>5 DEF LockNext

(* What an honest node said is true of the maker's transaction, and no      *)
(* verdict contradicts the chain: the inductive invariant.                  *)
THEOREM LockInvariant == LockSpec => []LockInv
<1>1. LockInit => LockInv
  BY InitLock
<1>2. LockInv /\ [LockNext]_lockVars => LockInv'
  BY NextLock
<1> QED BY <1>1, <1>2, PTL DEF LockSpec

(* An answer is on record only for a node that was asked, and the           *)
(* confirmations stay within the bound of the model.                        *)
THEOREM LockTypeCorrect == LockSpec => []LockTypeOK
<1>1. LockInv => LockTypeOK
  BY DEF LockInv
<1> QED BY <1>1, LockInvariant, PTL

(* For any number of nodes and any quorum, and while the answers can be     *)
(* trusted, those without confirmations counted among them: the signature   *)
(* is released only for a sound lock with enough confirmations, the swap    *)
(* given up only for an unsound one (rpc.ts:124, verify-lock.ts:102-233).   *)
THEOREM VerdictsAreTrue == LockSpec => []LockVerdictTrue
<1>1. LockInv => LockVerdictTrue
  BY DEF LockInv
<1> QED BY <1>1, LockInvariant, PTL

-----------------------------------------------------------------------------
USE DepositAssumption

(* What q servers list, one of them that works lists, when fewer than q do  *)
(* not work.                                                                *)
LEMMA MergedIsHonest ==
  ASSUME NEW lists, DOMAIN lists = Servers, NEW W \in SUBSET Servers,
         NEW q \in Nat, Cardinality(W) < q, NEW e \in Merged(lists, q)
  PROVE  \E s \in Answered(lists) : s \notin W /\ e \in lists[s]
<1>1. Listing(lists, e) \subseteq Servers
  BY DEF Listing, Answered
<1>2. IsFiniteSet(Listing(lists, e)) /\ IsFiniteSet(W)
  BY <1>1, FS_Subset
<1>3. Cardinality(Listing(lists, e)) >= q
  BY DEF Merged
<1>4. Cardinality(Listing(lists, e)) \in Nat /\ Cardinality(W) \in Nat
  BY <1>2, FS_CardinalityType
<1>5. PICK s \in Listing(lists, e) : s \notin W
  BY <1>2, <1>3, <1>4, HonestOne
<1> QED BY <1>5 DEF Listing

(* What was at the address at some moment of the reads of a poll.           *)
HereMeanwhile == Here \cup {Entry(p) : p \in dropped}

(* A server that works listed what was there when it was read; what has     *)
(* vanished since is remembered as dropped.  Between polls no list is held. *)
Faithful ==
  /\ pc = "reading" =>
       \A s \in Servers \ liars : answers[s] # NoAnswer => answers[s] \subseteq HereMeanwhile
  /\ pc # "reading" => answers = [s \in Servers |-> NoAnswer]

(* The inductive invariant of the watch.                                    *)
WatchInv == TypeOK /\ Faithful

LEMMA InitWatch == Init => WatchInv
<1> SUFFICES ASSUME Init PROVE WatchInv
  OBVIOUS
<1>1. blockchain \in BOOLEAN /\ aborted \in BOOLEAN
  BY Zenon DEF Init
<1>2. /\ status \in [Payments -> {"absent", "spent"}] /\ liars \subseteq Servers
      /\ pc = "poll" /\ seen = {} /\ found = None /\ settled = {} /\ dropped = {}
      /\ answers = [s \in Servers |-> NoAnswer]
  BY DEF Init
<1>3. status \in [Payments -> {"absent", "pool", "mined", "spent"}]
  BY <1>2
<1> QED BY <1>1, <1>2, <1>3 DEF WatchInv, TypeOK, Faithful, None

(* What the quorum lists may be listed; and while fewer servers than the    *)
(* quorum are wrong it was there in the course of the poll.                 *)
LEMMA MergedIsListed ==
  ASSUME WatchInv
  PROVE  MergedByQuorum(answers) \subseteq Entries
BY DEF MergedByQuorum, Merged, Answered, WatchInv, TypeOK

LEMMA MergedWasHere ==
  ASSUME WatchInv, pc = "reading", Cardinality(liars) < Quorum
  PROVE  MergedByQuorum(answers) \subseteq HereMeanwhile
<1> SUFFICES ASSUME NEW e \in MergedByQuorum(answers) PROVE e \in HereMeanwhile
  OBVIOUS
<1>1. DOMAIN answers = Servers /\ liars \in SUBSET Servers
  BY DEF WatchInv, TypeOK
<1>2. PICK s \in Answered(answers) : s \notin liars /\ e \in answers[s]
  BY <1>1, MergedIsHonest DEF MergedByQuorum
<1> QED BY <1>1, <1>2 DEF Answered, WatchInv, Faithful

(* What a step that finds a deposit through the provider may claim.         *)
Backed ==
  found'.via = "provider" /\ found' # found /\ Cardinality(liars) < Quorum =>
    found'.utxos \subseteq HereMeanwhile

(* A server is read: it lists what is there, unless it is wrong.            *)
LEMMA ReadStep ==
  ASSUME WatchInv, NEW s \in Servers, settle(s)
  PROVE  WatchInv' /\ Backed
<1>1. /\ UNCHANGED <<status, liars, pc, blockchain, aborted, dropped, seen, found>>
      /\ pc = "reading" /\ settled' = settled \cup {s}
  BY DEF settle, world
<1>2. PICK listed \in (SUBSET MayList(s)) \cup {NoAnswer} :
        answers' = [answers EXCEPT ![s] = listed]
  BY DEF settle
<1>3. listed \in (SUBSET Entries) \cup {NoAnswer}
  BY <1>2 DEF MayList, Here, Paid, Entries
<1>4. TypeOK'
  BY <1>1, <1>2, <1>3 DEF WatchInv, TypeOK, Entries
<1>5. s \notin liars /\ listed # NoAnswer => listed \subseteq HereMeanwhile
  BY <1>2 DEF MayList, HereMeanwhile
<1>6. HereMeanwhile' = HereMeanwhile
  BY <1>1 DEF HereMeanwhile, Here, Paid, Entry
<1>7. Faithful'
  BY <1>1, <1>2, <1>5, <1>6 DEF WatchInv, TypeOK, Faithful
<1> QED BY <1>1, <1>4, <1>7 DEF WatchInv, Backed

(* All have been read, and the lists are merged.                            *)
LEMMA MergeStep ==
  ASSUME WatchInv, pickQuorumUtxos
  PROVE  WatchInv' /\ Backed
<1> DEFINE utxos == MergedByQuorum(answers)
<1>1. /\ UNCHANGED <<status, liars, aborted, seen>> /\ pc = "reading"
      /\ settled' = {} /\ dropped' = {} /\ answers' = [s \in Servers |-> NoAnswer]
  BY DEF pickQuorumUtxos, NoReads, world
<1>2. blockchain' \in {blockchain, FALSE}
  BY DEF pickQuorumUtxos, aggregateUtxos
<1>3. \/ pc' = "pause" /\ found' = found
      \/ pc' = "found" /\ found' = [via |-> "provider", utxos |-> utxos]
  BY DEF pickQuorumUtxos, aggregateUtxos, Wait, Found
<1>4. blockchain' \in BOOLEAN
  BY <1>2 DEF WatchInv, TypeOK
<1>5. utxos \subseteq Entries
  BY MergedIsListed
<1>6. TypeOK'
  BY <1>1, <1>3, <1>4, <1>5 DEF WatchInv, TypeOK, Entries, Entry
<1>7. Faithful'
  BY <1>1, <1>3 DEF Faithful
<1>8. Backed
  BY <1>1, <1>3, MergedWasHere DEF Backed
<1> QED BY <1>6, <1>7, <1>8 DEF WatchInv

(* The fallback reports no deposit of the provider, and reads no server.    *)
LEMMA FallbackStep ==
  ASSUME WatchInv,
         providerThrows \/ fetchMempool \/ fetchConfirmed \/ fetchFails \/ delay \/ stop
  PROVE  WatchInv' /\ Backed
<1>1. /\ UNCHANGED <<status, liars, aborted, settled, answers, dropped>>
      /\ pc # "reading" /\ blockchain' \in {blockchain, FALSE}
      /\ seen' \in {seen, {}, Paid({"pool"})}
      /\ pc' \in {"poll", "pause", "fetched", "found", "aborted"}
  BY DEF providerThrows, fetchMempool, fetchConfirmed, fetchFails, delay, stop,
         Wait, Found, world, reads
<1>2. \/ found' = found
      \/ found' = [via |-> "mempool",
                   utxos |-> {Entry(p) : p \in seen \cup Paid({"pool", "mined", "spent"})}]
  BY DEF providerThrows, fetchMempool, fetchConfirmed, fetchFails, delay, stop, Wait, Found
<1>3. seen' \subseteq Payments
  BY <1>1 DEF WatchInv, TypeOK, Paid
<1>4. blockchain' \in BOOLEAN
  BY <1>1 DEF WatchInv, TypeOK
<1>5. /\ found'.via \in {"none", "provider", "mempool"} /\ found'.utxos \subseteq Entries
      /\ found'.via = "provider" => found' = found
  <2>1. {Entry(p) : p \in seen \cup Paid({"pool", "mined", "spent"})} \subseteq Entries
    BY DEF WatchInv, TypeOK, Paid, Entries
  <2> QED BY <1>2, <2>1 DEF WatchInv, TypeOK
<1>6. TypeOK'
  BY <1>1, <1>3, <1>4, <1>5 DEF WatchInv, TypeOK, Entries, Entry
<1>7. Faithful'
  BY <1>1 DEF WatchInv, Faithful
<1> QED BY <1>5, <1>6, <1>7 DEF WatchInv, Backed

(* Payments come and confirm, and one that vanishes is remembered.          *)
LEMMA PaymentStep ==
  ASSUME WatchInv, NEW p \in Payments, pay(p) \/ confirm(p) \/ drop(p)
  PROVE  WatchInv' /\ Backed
<1>1. UNCHANGED <<liars, pc, blockchain, aborted, settled, answers, seen, found>>
  BY DEF pay, confirm, drop, move
<1>2. /\ \E to \in {"absent", "pool", "mined"} : status' = [status EXCEPT ![p] = to]
      /\ dropped' \in {dropped, dropped \cup {p}}
  BY DEF pay, confirm, drop, move
<1>3. status' \in [Payments -> {"absent", "pool", "mined", "spent"}] /\ dropped' \subseteq Payments
  BY <1>2 DEF WatchInv, TypeOK
<1>4. TypeOK'
  BY <1>1, <1>3 DEF WatchInv, TypeOK, Entries, Entry
<1>5. pc = "reading" => HereMeanwhile \subseteq HereMeanwhile'
  <2> SUFFICES ASSUME pc = "reading", NEW q \in Payments,
                      status[q] \in {"pool", "mined"} \/ q \in dropped
               PROVE  status'[q] \in {"pool", "mined"} \/ q \in dropped'
    BY DEF HereMeanwhile, Here, Paid, Entry, WatchInv, TypeOK
  <2> QED BY <1>3 DEF pay, confirm, drop, move, WatchInv, TypeOK
<1>6. Faithful'
  BY <1>1, <1>5 DEF WatchInv, Faithful
<1> QED BY <1>1, <1>4, <1>6 DEF WatchInv, Backed

LEMMA NextStep ==
  ASSUME WatchInv, [Next]_vars
  PROVE  WatchInv' /\ Backed
<1>1. CASE listUnspent
  <2>1. /\ UNCHANGED <<status, liars, blockchain, aborted, settled, answers, dropped, seen, found>>
        /\ pc = "poll" /\ pc' = "reading"
    BY <1>1 DEF listUnspent, world, reads
  <2>2. TypeOK'
    BY <2>1 DEF WatchInv, TypeOK, Entries, Entry
  <2>3. Faithful'
    BY <2>1 DEF WatchInv, Faithful
  <2> QED BY <2>1, <2>2, <2>3 DEF WatchInv, Backed
<1>2. CASE abort
  <2>1. /\ UNCHANGED <<status, liars, pc, blockchain, settled, answers, dropped, seen, found>>
        /\ aborted' = TRUE
    BY <1>2 DEF abort, world, reads
  <2>2. TypeOK'
    BY <2>1 DEF WatchInv, TypeOK, Entries, Entry
  <2>3. Faithful'
    BY <2>1 DEF WatchInv, Faithful, HereMeanwhile, Here, Paid, Entry
  <2> QED BY <2>1, <2>2, <2>3 DEF WatchInv, Backed
<1>3. CASE UNCHANGED vars
  BY <1>3 DEF vars, world, reads, WatchInv, TypeOK, Faithful, HereMeanwhile, Here,
              Paid, Entry, Entries, Backed
<1> QED BY <1>1, <1>2, <1>3, ReadStep, MergeStep, FallbackStep, PaymentStep DEF Next, Watch

(* A working server is on record only with outputs that were there while    *)
(* the poll was on, for any payments and servers: the inductive invariant.  *)
THEOREM ReadsAreFaithful == Spec => []WatchInv
<1>1. WatchInv /\ [Next]_vars => WatchInv'
  BY NextStep
<1> QED BY InitWatch, <1>1, PTL DEF Spec

(* A deposit is typed as the watch reports it.                              *)
THEOREM TypeCorrect == Spec => []TypeOK
<1>1. WatchInv => TypeOK
  BY DEF WatchInv
<1> QED BY <1>1, ReadsAreFaithful, PTL

(* For any payments, values and servers, of which fewer than the quorum are *)
(* wrong, read one by one while payments come and vanish: what is found     *)
(* through the provider was there in the course of the poll                 *)
(* (quorum-provider.ts:34-38, 139-191).                                     *)
THEOREM DepositsAreBacked == Spec => DepositBacked
<1>1. WatchInv /\ [Next]_vars =>
        [found'.via = "provider" /\ found' # found /\ Cardinality(liars) < Quorum =>
           found'.utxos \subseteq Here \cup {Entry(p) : p \in dropped}]_vars
  BY NextStep DEF Backed, HereMeanwhile
<1> QED BY <1>1, ReadsAreFaithful, PTL DEF Spec, DepositBacked
=============================================================================
