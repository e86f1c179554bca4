---------------------------- MODULE RulesProofs ----------------------------
(***************************************************************************)
(* Lemmas about the greatest of a set of priorities and about the scan of  *)
(* a set of rules that every classifier is compared with.                  *)
(***************************************************************************)
EXTENDS RuleLists, FoldLemmas

-----------------------------------------------------------------------------
(***************************************************************************)
(* Greatest elements.                                                      *)
(***************************************************************************)

\* Highest(S) is an upper bound of S and -1 that is one of them.
LEMMA HighestIsGreatest ==
  ASSUME NEW S \in SUBSET Int, IsFiniteSet(S)
  PROVE  /\ Highest(S) \in S \cup {-1}
         /\ \A y \in S \cup {-1} : y <= Highest(S)
<1>1. IsFiniteSet(S \cup {-1}) /\ S \cup {-1} \in SUBSET Int /\ S \cup {-1} # {}
  BY FS_AddElement
<1>2. \E x \in S \cup {-1} : \A y \in S \cup {-1} : y <= x
  BY <1>1, GreatestExists
<1> QED BY <1>2 DEF Highest

LEMMA HighestBounded ==
  ASSUME NEW S \in SUBSET Int, IsFiniteSet(S), NEW m \in Int, -1 <= m, \A y \in S : y <= m
  PROVE  Highest(S) \in Int /\ Highest(S) <= m
<1>1. Highest(S) \in S \cup {-1}
  BY HighestIsGreatest
<1>2. CASE Highest(S) \in S
  BY <1>2
<1>3. CASE Highest(S) = -1
  BY <1>3
<1> QED BY <1>1, <1>2, <1>3

\* There is only one such.
LEMMA HighestIs ==
  ASSUME NEW S \in SUBSET Int, NEW x \in S \cup {-1}, \A y \in S \cup {-1} : y <= x
  PROVE  Highest(S) = x
<1>1. \A z \in S \cup {-1} : (\A y \in S \cup {-1} : y <= z) => z = x
  OBVIOUS
<1> QED BY <1>1 DEF Highest

LEMMA PriorityFinite ==
  /\ IsFiniteSet(Priority)
  /\ \A q \in Priority : q \in Nat
  /\ \A q \in Priority \cup {-1} : q \in Int /\ -1 <= q
<1> DEFINE f == [r \in Rule |-> r.priority]
<1>1. f \in Surjection(Rule, Priority)
  BY DEF Surjection, Priority
<1>2. IsFiniteSet(Priority)
  BY <1>1, FS_Surjection, RuleAssumption
<1>3. \A q \in Priority : q \in Nat
  BY RuleAssumption DEF Priority
<1> QED BY <1>2, <1>3

LEMMA PrioritiesFinite ==
  ASSUME NEW S \in SUBSET Priority
  PROVE  IsFiniteSet(S) /\ S \in SUBSET Int
<1>1. IsFiniteSet(S)
  BY PriorityFinite, FS_Subset
<1> QED BY <1>1, PriorityFinite

\* The scan of a set of rules answers -1 or the priority of a rule of the set
\* that matches, and no rule of the set that matches has a greater one.
LEMMA ScanIsGreatest ==
  ASSUME NEW S \in SUBSET Rule, NEW p
  PROVE  /\ LinearScanPriority(S, p) \in Priority \cup {-1}
         /\ LinearScanPriority(S, p) \in Int
         /\ LinearScanPriority(S, p) # -1 =>
              \E r \in S : MatchesPacket(r, p) /\ r.priority = LinearScanPriority(S, p)
         /\ -1 <= LinearScanPriority(S, p)
         /\ \A r \in S : MatchesPacket(r, p) => r.priority <= LinearScanPriority(S, p)
<1> DEFINE M == {r.priority : r \in {x \in S : MatchesPacket(x, p)}}
<1>1. M \in SUBSET Priority
  BY DEF Priority
<1>2. IsFiniteSet(M) /\ M \in SUBSET Int
  <2> HIDE DEF M
  <2> QED BY <1>1, PrioritiesFinite
<1>3. /\ Highest(M) \in M \cup {-1}
      /\ \A y \in M \cup {-1} : y <= Highest(M)
  <2> HIDE DEF M
  <2> QED BY <1>2, HighestIsGreatest
<1> QED BY <1>1, <1>3, PriorityFinite DEF LinearScanPriority

\* And that determines the answer.
LEMMA ScanIs ==
  ASSUME NEW S \in SUBSET Rule, NEW p, NEW x \in Int, -1 <= x,
         x # -1 => \E r \in S : MatchesPacket(r, p) /\ r.priority = x,
         \A r \in S : MatchesPacket(r, p) => r.priority <= x
  PROVE  LinearScanPriority(S, p) = x
BY ScanIsGreatest, PriorityFinite DEF Priority

-----------------------------------------------------------------------------
(***************************************************************************)
(* Lists of rules.                                                         *)
(***************************************************************************)

\* it is the iteration by which Only(list, S) is defined.
OnlySolves(it, list, S) ==
  it = [T \in SUBSET DOMAIN list |->
          IF T = {} THEN << >>
          ELSE IF list[Max(T)] \in S THEN Append(it[T \ {Max(T)}], list[Max(T)])
                                     ELSE it[T \ {Max(T)}]]

\* v has those of the members of list at the places T that are in S, in order.
Kept(v, list, S, T) ==
  /\ \A i \in 1 .. Len(v) : \E a \in T : v[i] = list[a] /\ list[a] \in S
  /\ \A a \in T : list[a] \in S => \E i \in 1 .. Len(v) : v[i] = list[a]
  /\ \A i, j \in 1 .. Len(v) : i < j => \E a, b \in T : a < b /\ v[i] = list[a] /\ v[j] = list[b]

LEMMA OnlyIterates ==
  ASSUME NEW X, NEW list \in Seq(X), NEW Y
  PROVE  \E it \in [SUBSET DOMAIN list -> Seq(X)] : OnlySolves(it, list, Y)
<1> DEFINE S == DOMAIN list
           V == Seq(X)
           o == [T \in SUBSET S |-> [g \in [T -> V] |->
                   IF T = {} THEN << >>
                   ELSE IF list[Max(T)] \in Y THEN Append(g[Max(T)], list[Max(T)]) ELSE g[Max(T)]]]
<1>1. IsFiniteSet(S) /\ \A i \in S : list[i] \in X
  BY PlacesAre
<1>2. ASSUME NEW T \in SUBSET S, T # {}
      PROVE  Max(T) \in T
  BY <1>2, PlacesAre
<1> HIDE DEF S
<1>3. ASSUME NEW T \in SUBSET S, NEW g \in [T -> V]
      PROVE  o[T][g] \in V
  <2>1. CASE T = {}
    BY <2>1
  <2>2. CASE T # {}
    <3>1. PICK i \in T : i = Max(T)
      BY <1>2, <2>2
    <3>2. g[i] \in V /\ list[i] \in X
      BY <1>1
    <3>3. Append(g[i], list[i]) \in V
      BY <3>2
    <3> QED BY <2>2, <3>1, <3>2, <3>3
  <2> QED BY <2>1, <2>2
<1>4. PICK it : Recurses(it, o, S, V)
  <2> HIDE DEF o, V
  <2>1. MapsInto(o, S, V)
    BY <1>3 DEF MapsInto
  <2> QED BY <1>1, <2>1, RecursionExists
<1>5. ASSUME NEW T \in SUBSET S
      PROVE  it[T] = IF T = {} THEN << >>
                     ELSE IF list[Max(T)] \in Y THEN Append(it[T \ {Max(T)}], list[Max(T)])
                                                ELSE it[T \ {Max(T)}]
  <2>1. Below(it, T) \in [T -> V]
    BY <1>4 DEF Below, Recurses
  <2>2. T # {} => Below(it, T)[Max(T)] = it[T \ {Max(T)}]
    BY <1>2 DEF Below
  <2>3. it[T] = o[T][Below(it, T)]
    BY <1>4 DEF Recurses
  <2> HIDE DEF V
  <2> QED BY <2>1, <2>2, <2>3
<1> QED BY <1>4, <1>5 DEF OnlySolves, Recurses, S

LEMMA KeptOneMore ==
  ASSUME NEW X, NEW list \in Seq(X), NEW Y, NEW T \in SUBSET DOMAIN list,
         NEW k \in T, \A i \in T : i <= k, NEW v \in Seq(X), Kept(v, list, Y, T \ {k})
  PROVE  /\ list[k] \in Y => Kept(Append(v, list[k]), list, Y, T)
         /\ list[k] \notin Y => Kept(v, list, Y, T)
<1>1. ASSUME list[k] \notin Y
      PROVE  Kept(v, list, Y, T)
  BY <1>1 DEF Kept
<1>2. ASSUME list[k] \in Y
      PROVE  Kept(Append(v, list[k]), list, Y, T)
  <2> DEFINE n == Len(v)
             w == Append(v, list[k])
  <2>1. /\ Len(w) = n + 1 /\ n \in Nat /\ w[n + 1] = list[k]
        /\ \A i \in 1 .. n : w[i] = v[i]
    BY AppendIs
  <2>2. T \subseteq Nat
    BY PlacesAre
  <2> HIDE DEF w
  <2>3. ASSUME NEW i \in 1 .. n + 1
        PROVE  \E a \in T : w[i] = list[a] /\ list[a] \in Y
    <3>1. CASE i = n + 1
      BY <1>2, <2>1, <3>1
    <3>2. CASE i # n + 1
      <4>1. i \in 1 .. n
        BY <2>1, <3>2
      <4> QED BY <2>1, <4>1 DEF Kept
    <3> QED BY <3>1, <3>2
  <2>4. ASSUME NEW a \in T, list[a] \in Y
        PROVE  \E i \in 1 .. n + 1 : w[i] = list[a]
    <3>1. CASE a = k
      <4>1. n + 1 \in 1 .. n + 1
        BY <2>1
      <4> QED BY <2>1, <3>1, <4>1
    <3>2. CASE a # k
      <4>1. PICK i \in 1 .. n : v[i] = list[a]
        BY <2>4, <3>2 DEF Kept
      <4>2. i \in 1 .. n + 1
        BY <2>1
      <4> QED BY <2>1, <4>1, <4>2
    <3> QED BY <3>1, <3>2
  <2>5. ASSUME NEW i \in 1 .. n + 1, NEW j \in 1 .. n + 1, i < j
        PROVE  \E a, b \in T : a < b /\ w[i] = list[a] /\ w[j] = list[b]
    <3>1. i \in 1 .. n /\ w[i] = v[i]
      BY <2>1, <2>5
    <3>2. CASE j = n + 1
      <4>1. PICK a \in T \ {k} : v[i] = list[a]
        BY <3>1 DEF Kept
      <4>2. a < k
        BY <2>2
      <4> QED BY <2>1, <3>1, <3>2, <4>1, <4>2
    <3>3. CASE j # n + 1
      <4>1. j \in 1 .. n /\ w[j] = v[j]
        BY <2>1, <3>3
      <4> QED BY <2>5, <3>1, <4>1 DEF Kept
    <3> QED BY <3>2, <3>3
  <2>6. Kept(w, list, Y, T)
    <3>1. Len(w) = n + 1
      BY <2>1
    <3> HIDE DEF n
    <3> QED BY <2>3, <2>4, <2>5, <3>1 DEF Kept
  <2> QED BY <2>6 DEF w
<1> QED BY <1>1, <1>2

LEMMA OnlyKeeps ==
  ASSUME NEW X, NEW list \in Seq(X), NEW Y
  PROVE  Only(list, Y) \in Seq(X) /\ Kept(Only(list, Y), list, Y, DOMAIN list)
<1> DEFINE it == CHOOSE i : OnlySolves(i, list, Y)
           S  == DOMAIN list
<1>1. OnlySolves(it, list, Y)
  BY OnlyIterates
<1>2. Only(list, Y) = it[S]
  BY DEF Only, FoldLeft, MapThenFoldSet, OnlySolves
<1> HIDE DEF it
<1> DEFINE P == {T \in SUBSET S : it[T] \in Seq(X) /\ Kept(it[T], list, Y, T)}
<1>3. ASSUME NEW T \in SUBSET S, \A i \in T : T \ {i} \in P
      PROVE  T \in P
  <2>1. it[T] = IF T = {} THEN << >>
                ELSE IF list[Max(T)] \in Y THEN Append(it[T \ {Max(T)}], list[Max(T)])
                                           ELSE it[T \ {Max(T)}]
    BY <1>1 DEF OnlySolves
  <2>2. CASE T = {}
    <3>1. it[T] = << >> /\ << >> \in Seq(X) /\ Len(<< >>) = 0
      BY <2>1, <2>2
    <3>2. it[T] \in Seq(X) /\ Kept(it[T], list, Y, T)
      BY <2>2, <3>1 DEF Kept
    <3> QED BY <3>2, Zenon
  <2>3. CASE T # {}
    <3>1. PICK k \in T : k = Max(T) /\ \A i \in T : i <= k
      BY <2>3, PlacesAre
    <3>2. PICK v \in Seq(X) : v = it[T \ {k}] /\ Kept(v, list, Y, T \ {k})
      BY <1>3
    <3>3. list[k] \in X
      BY PlacesAre
    <3>4. it[T] = IF list[k] \in Y THEN Append(v, list[k]) ELSE v
      BY <2>1, <2>3, <3>1, <3>2
    <3>5. Append(v, list[k]) \in Seq(X)
      BY <3>3
    <3>6. /\ list[k] \in Y => Kept(Append(v, list[k]), list, Y, T)
          /\ list[k] \notin Y => Kept(v, list, Y, T)
      BY <3>1, <3>2, KeptOneMore
    <3>7. it[T] \in Seq(X) /\ Kept(it[T], list, Y, T)
      BY <3>2, <3>4, <3>5, <3>6
    <3> QED BY <3>7
  <2> QED BY <2>2, <2>3
<1>4. IsFiniteSet(S)
  BY PlacesAre
<1> HIDE DEF P
<1>5. \A T \in SUBSET S : T \in P
  <2> HIDE DEF S
  <2> QED BY <1>3, <1>4, SubsetInduct
<1>6. S \in P
  BY <1>5
<1> QED BY <1>2, <1>6 DEF P

\* Only(list, Y) has the members that are in Y, once each and in the order of the
\* list if the list has its members once each.
LEMMA OnlyIs ==
  ASSUME NEW X, NEW list \in Seq(X), NEW Y, NEW v, v = Only(list, Y)
  PROVE  /\ v \in Seq(X) /\ Range(v) = Range(list) \cap Y
         /\ IsInjective(list) => IsInjective(v)
         /\ InDescendingOrder(list) => InDescendingOrder(v)
<1>1. v \in Seq(X) /\ DOMAIN v = 1 .. Len(v) /\ DOMAIN list \in SUBSET Nat
  BY OnlyKeeps, PlacesAre
<1>2. Kept(v, list, Y, DOMAIN list)
  BY OnlyKeeps
<1>3. Range(v) = Range(list) \cap Y
  <2>1. \A x \in Range(v) : x \in Range(list) \cap Y
    BY <1>1, <1>2 DEF Kept, Range
  <2>2. ASSUME NEW x \in Range(list) \cap Y
        PROVE  x \in Range(v)
    <3>1. PICK a \in DOMAIN list : x = list[a]
      BY DEF Range
    <3>2. PICK i \in 1 .. Len(v) : v[i] = x
      BY <1>2, <3>1 DEF Kept
    <3> QED BY <1>1, <3>2 DEF Range
  <2> QED BY <2>1, <2>2
<1>4. ASSUME IsInjective(list)
      PROVE  IsInjective(v)
  <2> SUFFICES ASSUME NEW i \in DOMAIN v, NEW j \in DOMAIN v, v[i] = v[j], i # j
               PROVE  FALSE
    BY DEF IsInjective
  <2>1. i < j \/ j < i
    BY <1>1
  <2>2. \E a, b \in DOMAIN list : a < b /\ list[a] = list[b]
    BY <1>1, <1>2, <2>1 DEF Kept
  <2> QED BY <1>1, <1>4, <2>2 DEF IsInjective
<1>5. ASSUME InDescendingOrder(list)
      PROVE  InDescendingOrder(v)
  <2> SUFFICES ASSUME NEW i \in DOMAIN v, NEW j \in DOMAIN v, i < j
               PROVE  v[j].priority <= v[i].priority
    BY DEF InDescendingOrder
  <2>1. PICK a \in DOMAIN list, b \in DOMAIN list : a < b /\ v[i] = list[a] /\ v[j] = list[b]
    BY <1>1, <1>2 DEF Kept
  <2> QED BY <1>5, <2>1 DEF InDescendingOrder
<1> QED BY <1>1, <1>3, <1>4, <1>5

\* A list in descending order answers by its first match as by a scan.
LEMMA FirstMatchIs ==
  ASSUME NEW list \in Seq(Rule), InDescendingOrder(list), NEW p
  PROVE  FirstMatch(list, p) = LinearScanPriority(Range(list), p)
<1> DEFINE hits == {i \in DOMAIN list : MatchesPacket(list[i], p)}
           k    == Min(hits)
           x    == FirstMatch(list, p)
<1>1. x = IF hits = {} THEN -1 ELSE list[k].priority
  BY DEF FirstMatch
<1>2. hits \in SUBSET Nat /\ hits \subseteq DOMAIN list
  BY PlacesAre
<1>3. hits # {} => k \in hits /\ \A i \in hits : k <= i
  <2> HIDE DEF hits
  <2> QED BY <1>2, MinIs
<1>4. \A i \in DOMAIN list : list[i] \in Rule /\ list[i].priority \in Nat
  BY RuleAssumption
<1>5. Range(list) \in SUBSET Rule
  BY <1>4 DEF Range
<1>6. \A i \in hits : list[i].priority <= list[k].priority
  <2> SUFFICES ASSUME NEW i \in hits
               PROVE  list[i].priority <= list[k].priority
    OBVIOUS
  <2>1. k \in DOMAIN list /\ i \in DOMAIN list /\ k \in Nat /\ i \in Nat /\ k <= i
    BY <1>2, <1>3
  <2> HIDE DEF k, hits
  <2>2. CASE k = i
    BY <1>4, <2>1, <2>2
  <2>3. CASE k < i
    BY <2>1, <2>3 DEF InDescendingOrder
  <2> QED BY <2>1, <2>2, <2>3
<1>7. x \in Int /\ -1 <= x
  <2>1. hits # {} => list[k].priority \in Nat
    BY <1>2, <1>3, <1>4
  <2> HIDE DEF hits, k, x
  <2> QED BY <1>1, <2>1
<1>8. x # -1 => \E r \in Range(list) : MatchesPacket(r, p) /\ r.priority = x
  <2> SUFFICES ASSUME hits # {}
               PROVE  \E r \in Range(list) : MatchesPacket(r, p) /\ r.priority = x
    BY <1>1
  <2>1. k \in DOMAIN list /\ MatchesPacket(list[k], p)
    BY <1>3
  <2>2. list[k] \in Range(list) /\ list[k].priority = x
    BY <1>1, <2>1 DEF Range
  <2> QED BY <2>1, <2>2
<1>9. ASSUME NEW r \in Range(list), MatchesPacket(r, p)
      PROVE  r.priority <= x
  <2>1. PICK i \in DOMAIN list : r = list[i]
    BY DEF Range
  <2>2. i \in hits
    BY <1>9, <2>1
  <2> QED BY <1>1, <1>6, <2>1, <2>2
<1> HIDE DEF x
<1>10. LinearScanPriority(Range(list), p) = x
  BY <1>5, <1>7, <1>8, <1>9, ScanIs
<1> QED BY <1>10 DEF x

\* A list without repetition is as long as it has members, and a set listed so
\* is listed whole.
LEMMA InjectiveLen ==
  ASSUME NEW X, NEW v \in Seq(X), IsInjective(v)
  PROVE  IsFiniteSet(Range(v)) /\ Cardinality(Range(v)) = Len(v)
<1> DEFINE n == Len(v)
<1>1. n \in Nat /\ DOMAIN v = 1 .. n
  OBVIOUS
<1>2. IsFiniteSet(1 .. n) /\ Cardinality(1 .. n) = n
  <2>1. 1 \in Int /\ n \in Int /\ (1 > n => n = 0)
    BY <1>1
  <2> HIDE DEF n
  <2>2. IsFiniteSet(1 .. n) /\ Cardinality(1 .. n) = IF 1 > n THEN 0 ELSE n - 1 + 1
    BY <2>1, FS_Interval
  <2> QED BY <1>1, <2>1, <2>2
<1>3. v \in [1 .. n -> Range(v)]
  BY <1>1 DEF Range
<1>4. v \in Bijection(1 .. n, Range(v))
  <2>1. v \in Injection(1 .. n, Range(v))
    BY <1>3 DEF Injection
  <2>2. v \in Surjection(1 .. n, Range(v))
    BY <1>1, <1>3 DEF Surjection, Range
  <2> QED BY <2>1, <2>2 DEF Bijection
<1>5. ExistsBijection(1 .. n, Range(v))
  BY <1>4 DEF ExistsBijection
<1> HIDE DEF n
<1> QED BY <1>2, <1>5, FS_Bijection DEF n

LEMMA ListOfSet ==
  ASSUME NEW S, IsFiniteSet(S), NEW v \in SetToSeqs(S)
  PROVE  v \in Seq(S) /\ IsInjective(v) /\ Range(v) = S
<1> DEFINE n == Cardinality(S)
<1>1. n \in Nat
  BY FS_CardinalityType
<1>2. v \in [1 .. n -> S] /\ \A i, j \in 1 .. n : i # j => v[i] # v[j]
  BY DEF SetToSeqs
<1>3. IsFiniteSet(1 .. n) /\ Cardinality(1 .. n) = n
  <2>1. 1 \in Int /\ n \in Int /\ (1 > n => n = 0)
    BY <1>1
  <2> HIDE DEF n
  <2>2. IsFiniteSet(1 .. n) /\ Cardinality(1 .. n) = IF 1 > n THEN 0 ELSE n - 1 + 1
    BY <2>1, FS_Interval
  <2> QED BY <1>1, <2>1, <2>2
<1>4. v \in Injection(1 .. n, S)
  BY <1>2 DEF Injection, IsInjective
<1>5. v \in Surjection(1 .. n, S)
  <2>1. Cardinality(1 .. n) = Cardinality(S)
    BY <1>3
  <2> HIDE DEF n
  <2> QED BY <1>4, <2>1, FS_Injection
<1> HIDE DEF n
<1>6. v \in Seq(S)
  BY <1>1, <1>2
<1>7. Range(v) = S
  BY <1>2, <1>5 DEF Surjection, Range
<1> QED BY <1>2, <1>6, <1>7 DEF IsInjective

-----------------------------------------------------------------------------
(***************************************************************************)
(* How often a list has the rules of a set.                                *)
(***************************************************************************)

LEMMA CountIs ==
  ASSUME NEW X, NEW list \in Seq(X), NEW Z
  PROVE  /\ IsFiniteSet({i \in DOMAIN list : list[i] \in Z})
         /\ Count(list, Z) \in Nat
         /\ Count(list, Z) > 0 <=> \E i \in DOMAIN list : list[i] \in Z
<1> DEFINE A == {i \in DOMAIN list : list[i] \in Z}
<1>1. A \subseteq DOMAIN list /\ IsFiniteSet(DOMAIN list)
  BY PlacesAre
<1>2. Count(list, Z) = Cardinality(A)
  BY DEF Count
<1>3. A # {} <=> \E i \in DOMAIN list : list[i] \in Z
  OBVIOUS
<1> HIDE DEF A
<1>4. IsFiniteSet(A) /\ Cardinality(A) \in Nat /\ (Cardinality(A) = 0 <=> A = {})
  BY <1>1, FS_Subset, FS_CardinalityType, FS_EmptySet
<1> QED BY <1>2, <1>3, <1>4 DEF A

\* The places A before k are B, and the others are one less than in B.
Shifted(A, B, n, k) ==
  /\ A \in SUBSET (1 .. n) /\ B \in SUBSET (1 .. n + 1) /\ k \notin B /\ k \in 1 .. n + 1
  /\ \A i \in 1 .. n : i \in A <=> (IF i < k THEN i ELSE i + 1) \in B

\* The list w is v with e at place k.
OneMore(v, w, k, e) ==
  /\ k \in 1 .. Len(v) + 1 /\ Len(w) = Len(v) + 1
  /\ \A i \in 1 .. Len(v) + 1 :
       w[i] = IF i < k THEN v[i] ELSE IF i = k THEN e ELSE v[i - 1]

LEMMA MovedPlaces ==
  ASSUME NEW n \in Nat, NEW k, NEW A, NEW B, Shifted(A, B, n, k)
  PROVE  IsFiniteSet(B) /\ Cardinality(B) = Cardinality(A)
<1> USE DEF Shifted
<1> DEFINE f == [i \in A |-> IF i < k THEN i ELSE i + 1]
<1>1. IsFiniteSet(A)
  <2>1. 1 \in Int /\ n \in Int
    OBVIOUS
  <2>2. IsFiniteSet(1 .. n)
    BY <2>1, FS_Interval
  <2> QED BY <2>2, FS_Subset
<1>2. f \in [A -> B]
  OBVIOUS
<1>3. \A i, j \in A : f[i] = f[j] => i = j
  OBVIOUS
<1>4. ASSUME NEW b \in B
      PROVE  \E i \in A : f[i] = b
  <2>1. CASE b < k
    <3>1. b \in 1 .. n
      BY <2>1
    <3>2. b \in A
      BY <2>1, <3>1
    <3> QED BY <2>1, <3>2
  <2>2. CASE b > k
    <3>1. b - 1 \in 1 .. n /\ ~(b - 1 < k) /\ (b - 1) + 1 = b
      BY <2>2
    <3>2. b - 1 \in A
      BY <3>1
    <3> QED BY <3>1, <3>2
  <2> QED BY <2>1, <2>2
<1> HIDE DEF f
<1>5. f \in Bijection(A, B)
  BY <1>2, <1>3, <1>4 DEF Bijection, Injection, Surjection, IsInjective
<1>6. ExistsBijection(A, B)
  BY <1>5 DEF ExistsBijection
<1> QED BY <1>1, <1>6, FS_Bijection

LEMMA CountOneMore ==
  ASSUME NEW X, NEW v \in Seq(X), NEW w \in Seq(X), NEW k, NEW e, OneMore(v, w, k, e), NEW Z
  PROVE  Count(w, Z) = Count(v, Z) + (IF e \in Z THEN 1 ELSE 0)
<1> USE DEF OneMore
<1> PICK n \in Nat : n = Len(v)
  OBVIOUS
<1> DEFINE A == {i \in 1 .. n : v[i] \in Z}
           C == {i \in 1 .. n + 1 : w[i] \in Z}
           B == C \ {k}
<1>1. DOMAIN v = 1 .. n /\ DOMAIN w = 1 .. n + 1
  OBVIOUS
<1>2. Count(v, Z) = Cardinality(A) /\ Count(w, Z) = Cardinality(C)
  BY <1>1 DEF Count
<1>3. ASSUME NEW i \in 1 .. n
      PROVE  i \in A <=> (IF i < k THEN i ELSE i + 1) \in B
  <2>1. CASE i < k
    <3>1. i \in 1 .. n + 1 /\ i # k
      BY <2>1
    <3>2. w[i] = v[i]
      BY <2>1, <3>1
    <3> QED BY <2>1, <3>1, <3>2
  <2>2. CASE ~(i < k)
    <3>1. i + 1 \in 1 .. n + 1 /\ i + 1 # k /\ ~(i + 1 < k) /\ (i + 1) - 1 = i
      BY <2>2
    <3>2. w[i + 1] = v[i]
      BY <3>1
    <3> QED BY <2>2, <3>1, <3>2
  <2> QED BY <2>1, <2>2
<1>4. A \in SUBSET (1 .. n) /\ B \in SUBSET (1 .. n + 1) /\ k \notin B /\ k \in 1 .. n + 1
  OBVIOUS
<1>5. (k \in C <=> e \in Z) /\ (e \in Z => C = B \cup {k}) /\ (e \notin Z => C = B)
  <2>1. w[k] = e
    OBVIOUS
  <2> QED BY <2>1
<1> HIDE DEF A, B, C
<1>6. IsFiniteSet(B) /\ Cardinality(B) = Cardinality(A)
  <2>1. Shifted(A, B, n, k)
    BY <1>3, <1>4 DEF Shifted
  <2> QED BY <2>1, MovedPlaces
<1>7. Cardinality(B) \in Nat /\ Cardinality(B \cup {k}) = Cardinality(B) + 1
  BY <1>4, <1>6, FS_CardinalityType, FS_AddElement
<1>8. CASE e \in Z
  BY <1>2, <1>5, <1>6, <1>7, <1>8
<1>9. CASE e \notin Z
  BY <1>2, <1>5, <1>6, <1>7, <1>9
<1> QED BY <1>8, <1>9

LEMMA CountRemoved ==
  ASSUME NEW X, NEW v \in Seq(X), NEW k \in 1 .. Len(v), NEW Z
  PROVE  Count(v, Z) = Count(RemoveAt(v, k), Z) + (IF v[k] \in Z THEN 1 ELSE 0)
<1> PICK n \in Nat : n = Len(v)
  OBVIOUS
<1> PICK w : w = RemoveAt(v, k)
  OBVIOUS
<1>1. /\ w \in Seq(X) /\ Len(w) = n - 1
      /\ \A i \in 1 .. n - 1 : w[i] = IF i < k THEN v[i] ELSE v[i + 1]
  BY RemoveAtIs
<1>2. k \in 1 .. Len(w) + 1 /\ v[k] \in X /\ Len(v) = Len(w) + 1
  BY <1>1
<1>3. ASSUME NEW i \in 1 .. Len(w) + 1
      PROVE  v[i] = IF i < k THEN w[i] ELSE IF i = k THEN v[k] ELSE w[i - 1]
  <2>1. CASE i < k
    <3>1. i \in 1 .. n - 1
      BY <1>1, <2>1
    <3> QED BY <1>1, <2>1, <3>1
  <2>2. CASE i > k
    <3>1. i - 1 \in 1 .. n - 1 /\ ~(i - 1 < k) /\ (i - 1) + 1 = i
      BY <1>1, <2>2
    <3>2. w[i - 1] = v[i]
      BY <1>1, <3>1
    <3> QED BY <2>2, <3>2
  <2> QED BY <2>1, <2>2
<1>4. OneMore(w, v, k, v[k])
  BY <1>1, <1>2, <1>3 DEF OneMore
<1>5. Count(v, Z) = Count(w, Z) + (IF v[k] \in Z THEN 1 ELSE 0)
  BY <1>1, <1>4, CountOneMore
<1> QED BY <1>5, Zenon

LEMMA CountAppended ==
  ASSUME NEW X, NEW v \in Seq(X), NEW x \in X, NEW Z
  PROVE  Count(Append(v, x), Z) = Count(v, Z) + (IF x \in Z THEN 1 ELSE 0)
<1> PICK w : w = Append(v, x)
  OBVIOUS
<1>1. /\ w \in Seq(X) /\ Len(w) = Len(v) + 1 /\ w[Len(v) + 1] = x
      /\ \A i \in 1 .. Len(v) : w[i] = v[i]
  BY AppendIs
<1>2. OneMore(v, w, Len(v) + 1, x)
  BY <1>1 DEF OneMore
<1>3. ASSUME NEW u \in Seq(X), OneMore(v, u, Len(v) + 1, x)
      PROVE  Count(u, Z) = Count(v, Z) + (IF x \in Z THEN 1 ELSE 0)
  BY <1>3, CountOneMore
<1>4. w \in Seq(X)
  BY <1>1
<1>5. Count(w, Z) = Count(v, Z) + (IF x \in Z THEN 1 ELSE 0)
  BY <1>2, <1>3, <1>4, Zenon
<1> QED BY <1>5, Zenon

\* Only(list, Y) has the members in Y as often as the list.
LEMMA CountOnly ==
  ASSUME NEW X, NEW list \in Seq(X), NEW Y, NEW Z
  PROVE  Count(Only(list, Y), Z) = Count(list, Y \cap Z)
<1> DEFINE it == CHOOSE i : OnlySolves(i, list, Y)
           S  == DOMAIN list
           A(T) == {a \in T : list[a] \in Y \cap Z}
           P  == {T \in SUBSET S : it[T] \in Seq(X) /\ Count(it[T], Z) = Cardinality(A(T))}
<1>1. OnlySolves(it, list, Y)
  BY OnlyIterates
<1>2. Only(list, Y) = it[S]
  BY DEF Only, FoldLeft, MapThenFoldSet, OnlySolves
<1>3. Count(list, Y \cap Z) = Cardinality(A(S))
  BY DEF Count
<1> HIDE DEF it
<1>4. ASSUME NEW T \in SUBSET S, \A i \in T : T \ {i} \in P
      PROVE  T \in P
  <2>1. it[T] = IF T = {} THEN << >>
                ELSE IF list[Max(T)] \in Y THEN Append(it[T \ {Max(T)}], list[Max(T)])
                                           ELSE it[T \ {Max(T)}]
    BY <1>1 DEF OnlySolves
  <2>2. CASE T = {}
    <3>1. it[T] = << >> /\ << >> \in Seq(X)
      BY <2>1, <2>2
    <3>2. {i \in DOMAIN (<< >>) : (<< >>)[i] \in Z} = {}
      OBVIOUS
    <3>3. Count(<< >>, Z) = 0
      BY <3>2, FS_EmptySet, Zenon DEF Count
    <3>4. A(T) = {}
      BY <2>2
    <3>5. Cardinality(A(T)) = 0
      BY <3>4, FS_EmptySet, Zenon
    <3> QED BY <3>1, <3>3, <3>5
  <2>3. CASE T # {}
    <3>1. PICK k \in T : k = Max(T) /\ \A i \in T : i <= k
      BY <2>3, PlacesAre
    <3>2. PICK v \in Seq(X) : v = it[T \ {k}] /\ Count(v, Z) = Cardinality(A(T \ {k}))
      BY <1>4
    <3>3. PICK x \in X : x = list[k]
      BY PlacesAre
    <3>4. it[T] = IF x \in Y THEN Append(v, x) ELSE v
      BY <2>1, <2>3, <3>1, <3>2, <3>3
    <3>5. IsFiniteSet(A(T \ {k}))
      <4>1. A(T \ {k}) \in SUBSET S
        OBVIOUS
      <4> QED BY <4>1, PlacesAre, FS_Subset
    <3>6. PICK B : B = A(T \ {k})
      OBVIOUS
    <3>7. k \notin B /\ (x \in Y \cap Z => A(T) = B \cup {k}) /\ (x \notin Y \cap Z => A(T) = B)
      BY <3>3, <3>6
    <3>8. PICK b \in Nat : b = Cardinality(B) /\ Cardinality(B \cup {k}) = b + 1
      BY <3>5, <3>6, <3>7, FS_CardinalityType, FS_AddElement
    <3>9. Count(v, Z) = b
      BY <3>2, <3>6, <3>8, Zenon
    <3>10. /\ Append(v, x) \in Seq(X)
           /\ Count(Append(v, x), Z) = b + (IF x \in Z THEN 1 ELSE 0)
      BY <3>9, CountAppended
    <3> HIDE DEF A
    <3>11. CASE x \in Y /\ x \in Z
      <4>1. it[T] = Append(v, x) /\ A(T) = B \cup {k}
        BY <3>4, <3>7, <3>11
      <4>2. Cardinality(A(T)) = b + 1
        BY <3>8, <4>1, Zenon
      <4> QED BY <3>10, <3>11, <4>1, <4>2
    <3>12. CASE x \in Y /\ x \notin Z
      <4>1. it[T] = Append(v, x) /\ A(T) = B
        BY <3>4, <3>7, <3>12
      <4>2. Cardinality(A(T)) = b
        BY <3>8, <4>1, Zenon
      <4>3. Count(Append(v, x), Z) = b
        BY <3>10, <3>12
      <4>4. Count(it[T], Z) = Cardinality(A(T))
        BY <4>1, <4>2, <4>3, Zenon
      <4>5. it[T] \in Seq(X)
        BY <3>10, <4>1, Zenon
      <4> QED BY <4>4, <4>5
    <3>13. CASE x \notin Y
      BY <3>2, <3>4, <3>7, <3>8, <3>9, <3>13
    <3> QED BY <3>11, <3>12, <3>13
  <2> QED BY <2>2, <2>3
<1>5. IsFiniteSet(S)
  BY PlacesAre
<1> HIDE DEF P
<1>6. \A T \in SUBSET S : T \in P
  <2> HIDE DEF S
  <2> QED BY <1>4, <1>5, SubsetInduct
<1>7. S \in P
  BY <1>6
<1>8. Count(it[S], Z) = Cardinality(A(S))
  BY <1>7 DEF P
<1> QED BY <1>2, <1>3, <1>8, Zenon

\* The rules of a set are counted one after the other.
LEMMA CountIsSum ==
  ASSUME NEW list \in Seq(Rule), NEW Z \in SUBSET Rule, NEW f \in [Rule -> Nat],
         \A r \in Rule : f[r] = Count(list, {r})
  PROVE  Count(list, Z) = SumFunctionOnSet(f, Z)
<1> DEFINE sum(T) == SumFunctionOnSet(f, T)
           P == {T \in SUBSET Rule : Count(list, T) = sum(T)}
<1>1. ASSUME NEW T \in SUBSET Rule, \A x \in T : T \ {x} \in P
      PROVE  T \in P
  <2>1. IsFiniteSet(T) /\ \A x \in T : f[x] \in Nat
    BY FS_Subset, RuleAssumption
  <2>2. CASE T = {}
    <3>1. sum(T) = 0
      BY <2>1, <2>2, SumStep
    <3>2. {i \in DOMAIN list : list[i] \in T} = {}
      BY <2>2
    <3>3. Count(list, T) = 0
      BY <3>2, FS_EmptySet, Zenon DEF Count
    <3> QED BY <3>1, <3>3
  <2>3. CASE T # {}
    <3>1. PICK x \in T : T \ {x} \in P
      BY <1>1, <2>3
    <3>2. sum(T) = f[x] + sum(T \ {x})
      BY <2>1, SumSplit
    <3> DEFINE A == {i \in DOMAIN list : list[i] \in T \ {x}}
               B == {i \in DOMAIN list : list[i] \in {x}}
               C == {i \in DOMAIN list : list[i] \in T}
    <3>3. C = A \cup B /\ A \cap B = {}
      OBVIOUS
    <3>4. /\ Count(list, T \ {x}) = Cardinality(A) /\ Count(list, {x}) = Cardinality(B)
          /\ Count(list, T) = Cardinality(C)
      BY DEF Count
    <3>5. IsFiniteSet(A) /\ IsFiniteSet(B)
      BY CountIs
    <3> HIDE DEF A, B, C
    <3>6. /\ Cardinality(A \cup B) = Cardinality(A) + Cardinality(B) - Cardinality(A \cap B)
          /\ Cardinality(A) \in Nat /\ Cardinality(B) \in Nat
      BY <3>5, FS_Union, FS_CardinalityType
    <3>7. Cardinality(A \cap B) = 0
      BY <3>3, FS_EmptySet, Zenon
    <3>8. Cardinality(C) = Cardinality(A \cup B)
      BY <3>3, Zenon
    <3>9. Count(list, T \ {x}) = sum(T \ {x})
      BY <3>1
    <3> QED BY <3>2, <3>4, <3>6, <3>7, <3>8, <3>9
  <2> QED BY <2>2, <2>3
<1>2. \A T \in SUBSET Rule : T \in P
  <2> HIDE DEF P
  <2> QED BY <1>1, RuleAssumption, SubsetInduct
<1>3. Z \in P
  BY <1>2
<1> QED BY <1>3

\* In a list without repetition each member is once.
LEMMA CountOnce ==
  ASSUME NEW X, NEW list \in Seq(X), IsInjective(list), NEW r
  PROVE  Count(list, {r}) = IF r \in Range(list) THEN 1 ELSE 0
<1> DEFINE A == {i \in DOMAIN list : list[i] \in {r}}
<1>1. CASE r \in Range(list)
  <2>1. PICK i \in DOMAIN list : list[i] = r
    BY <1>1 DEF Range
  <2>2. A = {i}
    BY <2>1 DEF IsInjective
  <2>3. Cardinality({i}) = 1
    BY FS_Singleton
  <2> QED BY <1>1, <2>2, <2>3, Zenon DEF Count
<1>2. CASE r \notin Range(list)
  <2>1. A = {}
    BY <1>2 DEF Range
  <2> QED BY <1>2, <2>1, FS_EmptySet, Zenon DEF Count
<1> QED BY <1>1, <1>2

\* A list in order begins with a rule of greatest priority.
LEMMA FirstIsHighest ==
  ASSUME NEW list \in Seq(Rule), InDescendingOrder(list)
  PROVE  /\ Highest({r.priority : r \in Range(list)})
              = IF list = << >> THEN -1 ELSE list[1].priority
         /\ Highest({r.priority : r \in Range(list)}) \in Priority \cup {-1}
<1> DEFINE S == {r.priority : r \in Range(list)}
<1>1. Range(list) \in SUBSET Rule
  BY DEF Range
<1>2. S \in SUBSET Priority /\ S \in SUBSET Int
  BY <1>1, RuleAssumption DEF Priority
<1>3. CASE list = << >>
  <2>1. S = {}
    BY <1>3 DEF Range
  <2>2. Highest(S) = -1
    <3> HIDE DEF S
    <3> QED BY <1>2, <2>1, HighestIs
  <2> QED BY <1>3, <2>2
<1>4. CASE list # << >>
  <2>1. 1 \in DOMAIN list /\ DOMAIN list = 1 .. Len(list) /\ list[1] \in Rule
    BY <1>4
  <2>2. list[1].priority \in S
    BY <2>1 DEF Range
  <2>3. ASSUME NEW y \in S \cup {-1}
        PROVE  y <= list[1].priority
    <3>1. CASE y = -1
      BY <2>1, <3>1, RuleAssumption
    <3>2. CASE y \in S
      <4>1. PICK i \in DOMAIN list : y = list[i].priority
        BY <3>2 DEF Range
      <4>2. list[i] \in Rule
        OBVIOUS
      <4>3. CASE i = 1
        BY <2>1, <4>1, <4>3, RuleAssumption
      <4>4. CASE i # 1
        <5>1. 1 < i
          BY <2>1, <4>4
        <5> QED BY <2>1, <4>1, <5>1 DEF InDescendingOrder
      <4> QED BY <4>3, <4>4
    <3> QED BY <3>1, <3>2
  <2>4. Highest(S) = list[1].priority
    <3> HIDE DEF S
    <3> QED BY <1>2, <2>2, <2>3, HighestIs
  <2>5. list[1].priority \in Priority
    BY <1>2, <2>2
  <2> QED BY <1>4, <2>4, <2>5
<1> QED BY <1>3, <1>4

-----------------------------------------------------------------------------
(***************************************************************************)
(* Updates of a list.                                                      *)
(***************************************************************************)

\* The list stays in order and has the rule once more.
LEMMA InsertSortedIs ==
  ASSUME NEW list \in Seq(Rule), NEW r \in Rule, NEW w, w = InsertSortedByPriority(list, r)
  PROVE  /\ w \in Seq(Rule)
         /\ \A Z : Count(w, Z) = Count(list, Z) + (IF r \in Z THEN 1 ELSE 0)
         /\ InDescendingOrder(list) => InDescendingOrder(w)
<1> DEFINE n == Len(list)
           I == {i \in 1 .. n + 1 : i > n \/ list[i].priority <= r.priority}
           k == Min(I)
<1>1. list \in Seq(Rule) /\ n \in Nat /\ DOMAIN list = 1 .. n
  OBVIOUS
<1>2. r.priority \in Nat /\ \A i \in 1 .. n : list[i].priority \in Nat
  BY <1>1, RuleAssumption
<1>3. k \in I /\ \A i \in I : k <= i
  <2>1. I \in SUBSET Nat /\ n + 1 \in I
    BY <1>1
  <2> HIDE DEF I
  <2> QED BY <2>1, MinIs
<1>4. k \in 1 .. n + 1 /\ (k <= n => list[k].priority <= r.priority)
  BY <1>1, <1>3
<1>5. \A i \in 1 .. n : i < k => r.priority <= list[i].priority
  <2> SUFFICES ASSUME NEW i \in 1 .. n, i < k, ~(r.priority <= list[i].priority)
               PROVE  FALSE
    OBVIOUS
  <2>1. list[i].priority <= r.priority
    BY <1>2
  <2>2. i \in I
    BY <1>1, <2>1
  <2> HIDE DEF I
  <2> QED BY <1>1, <1>3, <1>4, <2>2
<1>6. w = InsertAt(list, k, r)
  BY DEF InsertSortedByPriority
<1> HIDE DEF I, k
<1>7. /\ w \in Seq(Rule) /\ Len(w) = n + 1
      /\ \A i \in 1 .. n + 1 : w[i] = IF i < k THEN list[i] ELSE IF i = k THEN r ELSE list[i - 1]
  <2> DEFINE u == InsertAt(list, k, r)
  <2>1. /\ u \in Seq(Rule) /\ Len(u) = n + 1
        /\ \A i \in 1 .. n + 1 : u[i] = IF i < k THEN list[i] ELSE IF i = k THEN r ELSE list[i - 1]
    BY <1>1, <1>4, InsertAtIs
  <2> QED BY <1>6, <2>1
<1>8. OneMore(list, w, k, r)
  BY <1>4, <1>7 DEF OneMore
<1>9. ASSUME InDescendingOrder(list), NEW i \in 1 .. n + 1, NEW j \in 1 .. n + 1, i < j
      PROVE  w[j].priority <= w[i].priority
  <2>1. \A a, b \in 1 .. n : a < b => list[b].priority <= list[a].priority
    BY <1>1, <1>9 DEF InDescendingOrder
  <2>2. CASE j < k
    <3>1. i < k /\ i \in 1 .. n /\ j \in 1 .. n
      BY <1>1, <1>4, <1>9, <2>2
    <3> QED BY <1>7, <1>9, <2>1, <2>2, <3>1
  <2>3. CASE j = k
    <3>1. i < k /\ i \in 1 .. n /\ ~(j < k)
      BY <1>1, <1>4, <1>9, <2>3
    <3>2. w[i] = list[i] /\ w[j] = r
      BY <1>7, <2>3, <3>1
    <3> QED BY <1>5, <3>1, <3>2
  <2>4. CASE j > k
    <3>1. j - 1 \in 1 .. n /\ ~(j < k) /\ j # k /\ k \in 1 .. n /\ k <= n
      BY <1>1, <1>4, <2>4
    <3>2. w[j] = list[j - 1]
      BY <1>7, <3>1
    <3>3. CASE i < k
      <4>1. i \in 1 .. n /\ i < j - 1 /\ w[i] = list[i]
        BY <1>1, <1>4, <1>7, <2>4, <3>3
      <4> QED BY <2>1, <3>1, <3>2, <4>1
    <3>4. CASE i = k
      <4>1. w[i] = r /\ list[k].priority <= r.priority
        BY <1>4, <1>7, <3>1, <3>4
      <4>2. CASE k = j - 1
        BY <3>2, <4>1, <4>2
      <4>3. CASE k < j - 1
        <5>1. list[j - 1].priority <= list[k].priority
          BY <2>1, <3>1, <4>3
        <5> QED BY <1>2, <3>1, <3>2, <4>1, <5>1
      <4> QED BY <2>4, <3>1, <4>2, <4>3
    <3>5. CASE i > k
      <4>1. i - 1 \in 1 .. n /\ i - 1 < j - 1 /\ ~(i < k) /\ i # k
        BY <1>1, <1>4, <1>9, <3>5
      <4>2. w[i] = list[i - 1]
        BY <1>7, <4>1
      <4> QED BY <2>1, <3>1, <3>2, <4>1, <4>2
    <3> QED BY <1>4, <3>3, <3>4, <3>5
  <2> QED BY <1>4, <2>2, <2>3, <2>4
<1>10. DOMAIN w = 1 .. n + 1
  BY <1>7
<1>11. \A Z : Count(w, Z) = Count(list, Z) + (IF r \in Z THEN 1 ELSE 0)
  BY <1>7, <1>8, CountOneMore
<1>12. InDescendingOrder(list) => InDescendingOrder(w)
  <2> HIDE DEF n
  <2> QED BY <1>9, <1>10 DEF InDescendingOrder
<1> QED BY <1>7, <1>11, <1>12

\* x is the member that RemoveFirstOf(list, S) removes.
Removed(list, S, w, x) ==
  /\ \E k \in DOMAIN list : x = list[k] /\ x \in S /\ \A j \in DOMAIN list : j < k => list[j] \notin S
  /\ \A Z : Count(list, Z) = Count(w, Z) + (IF x \in Z THEN 1 ELSE 0)

LEMMA RemoveFirstOfIs ==
  ASSUME NEW list \in Seq(Rule), NEW S, NEW w, w = RemoveFirstOf(list, S)
  PROVE  /\ w \in Seq(Rule)
         /\ InDescendingOrder(list) => InDescendingOrder(w)
         /\ \/ w = list /\ \A i \in DOMAIN list : list[i] \notin S
            \/ \E x \in Rule : Removed(list, S, w, x)
<1> DEFINE hits == {i \in DOMAIN list : list[i] \in S}
           k == Min(hits)
           n == Len(list)
<1>1. w = IF hits = {} THEN list ELSE RemoveAt(list, k)
  BY DEF RemoveFirstOf
<1>2. CASE hits = {}
  BY <1>1, <1>2
<1>3. CASE hits # {}
  <2>1. hits \in SUBSET Nat /\ DOMAIN list = 1 .. n /\ n \in Nat /\ \A i \in 1 .. n : list[i] \in Rule
    OBVIOUS
  <2>2. k \in hits /\ \A i \in hits : k <= i
    <3> HIDE DEF hits
    <3> QED BY <1>3, <2>1, MinIs
  <2>3. w = RemoveAt(list, k)
    BY <1>1, <1>3
  <2>4. k \in 1 .. n /\ list[k] \in S /\ \A j \in 1 .. n : j < k => list[j] \notin S
    <3>1. k \in 1 .. n /\ list[k] \in S
      BY <2>1, <2>2
    <3>2. ASSUME NEW j \in 1 .. n, j < k, list[j] \in S
          PROVE  FALSE
      <4>1. j \in hits
        BY <2>1, <3>2
      <4>2. k <= j
        BY <2>2, <4>1
      <4> HIDE DEF k
      <4> QED BY <3>1, <3>2, <4>2
    <3> QED BY <3>1, <3>2
  <2> HIDE DEF hits, k
  <2>5. /\ w \in Seq(Rule) /\ Len(w) = n - 1
        /\ \A i \in 1 .. n - 1 : w[i] = IF i < k THEN list[i] ELSE list[i + 1]
    BY <2>1, <2>3, <2>4, RemoveAtIs
  <2>6. \A Z : Count(list, Z) = Count(w, Z) + (IF list[k] \in Z THEN 1 ELSE 0)
    <3>1. k \in 1 .. Len(list)
      BY <2>4
    <3> QED BY <2>3, <3>1, CountRemoved
  <2>7. Removed(list, S, w, list[k]) /\ list[k] \in Rule
    BY <2>1, <2>4, <2>6 DEF Removed
  <2>8. ASSUME InDescendingOrder(list), NEW i \in 1 .. n - 1, NEW j \in 1 .. n - 1, i < j
        PROVE  w[j].priority <= w[i].priority
    <3>1. \A a, b \in 1 .. n : a < b => list[b].priority <= list[a].priority
      BY <2>1, <2>8 DEF InDescendingOrder
    <3>2. PICK a \in 1 .. n : w[i] = list[a] /\ a = IF i < k THEN i ELSE i + 1
      BY <2>1, <2>5
    <3>3. PICK b \in 1 .. n : w[j] = list[b] /\ b = IF j < k THEN j ELSE j + 1
      BY <2>1, <2>5
    <3>4. a < b
      BY <2>4, <2>8, <3>2, <3>3
    <3> QED BY <3>1, <3>2, <3>3, <3>4
  <2>9. DOMAIN w = 1 .. n - 1
    BY <2>1, <2>5
  <2>10. InDescendingOrder(list) => InDescendingOrder(w)
    <3> HIDE DEF n
    <3> QED BY <2>8, <2>9 DEF InDescendingOrder
  <2> QED BY <2>5, <2>7, <2>10
<1> QED BY <1>2, <1>3

=============================================================================
