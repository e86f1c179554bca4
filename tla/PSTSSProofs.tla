---------------------------- MODULE PSTSSProofs ----------------------------
(***************************************************************************)
(* Proofs about the priority-sorted tuple space search, for any finite set *)
(* of rules, any packets, any hash function and any number of copies.      *)
(***************************************************************************)
EXTENDS PSTSS, RulesProofs

-----------------------------------------------------------------------------
(***************************************************************************)
(* Counting nodes and copies.                                              *)
(***************************************************************************)

LEMMA PlacesFinite ==
  ASSUME NEW s \in Seq(Rule), NEW X
  PROVE  IsFiniteSet(Places(s, X)) /\ Places(s, X) \subseteq 1 .. Len(s)
<1>1. Places(s, X) \in SUBSET (1 .. Len(s)) /\ Len(s) \in Nat
  BY DEF Places
<1>2. IsFiniteSet(1 .. Len(s))
  BY <1>1, FS_Interval
<1> QED BY <1>1, <1>2, FS_Subset

LEMMA CopiesFinite ==
  ASSUME NEW n, NEW X \in SUBSET Rule
  PROVE  IsFiniteSet(Copies(n, X))
<1>1. IsFiniteSet(X) /\ IsFiniteSet(1 .. MaxCopies)
  BY RuleAssumption, CopiesAssumption, FS_Subset, FS_Interval
<1>2. IsFiniteSet(X \X (1 .. MaxCopies))
  BY <1>1, FS_Product
<1>3. Copies(n, X) \in SUBSET (X \X (1 .. MaxCopies))
  BY DEF Copies
<1> QED BY <1>2, <1>3, FS_Subset

LEMMA PeersAreRules ==
  /\ \A k, q : Peers(k, q) \in SUBSET Rule
  /\ \A k, h, q : ChainPeers(k, h, q) \in SUBSET Rule
  /\ \A k, h, q : ChainPeers(k, h, q) \subseteq Peers(k, q)
BY DEF Peers, ChainPeers

LEMMA NodesAreRules ==
  ASSUME TypeOK
  PROVE  /\ \A k \in Key, h \in Hash : RulesOf(map_in_tuple[k][h]) \in SUBSET Rule
         /\ \A k \in Key : RulesIn(map_in_tuple[k]) \in SUBSET Rule
         /\ StoredRules \in SUBSET Rule
<1>1. ASSUME NEW k \in Key, NEW h \in Hash
      PROVE  RulesOf(map_in_tuple[k][h]) \in SUBSET Rule
  <2>1. map_in_tuple[k][h] \in Seq(Rule)
    BY DEF TypeOK
  <2> QED BY <2>1 DEF RulesOf
<1>2. ASSUME NEW k \in Key
      PROVE  RulesIn(map_in_tuple[k]) \in SUBSET Rule
  BY <1>1 DEF RulesIn
<1> QED BY <1>1, <1>2 DEF StoredRules

\* A rule with a copy inserted makes the count of its peers positive, and a
\* positive count comes from such a rule.
LEMMA CopiesPositive ==
  ASSUME NEW n \in [Rule -> 0 .. MaxCopies], NEW X \in SUBSET Rule
  PROVE  /\ Cardinality(Copies(n, X)) \in Nat
         /\ Cardinality(Copies(n, X)) > 0 <=> \E r \in X : n[r] > 0
<1>1. IsFiniteSet(Copies(n, X)) /\ Cardinality(Copies(n, X)) \in Nat
  BY CopiesFinite, FS_CardinalityType
<1>2. Copies(n, X) # {} <=> \E r \in X : n[r] > 0
  <2>1. ASSUME NEW r \in X, n[r] > 0
        PROVE  <<r, 1>> \in Copies(n, X)
    BY <2>1, CopiesAssumption DEF Copies
  <2>2. ASSUME NEW c \in Copies(n, X)
        PROVE  c[1] \in X /\ n[c[1]] > 0
    BY <2>2, CopiesAssumption DEF Copies
  <2> QED BY <2>1, <2>2
<1> QED BY <1>1, <1>2, FS_EmptySet

\* Every stored rule belongs to a tuple that lists its priority.
LEMMA StoredIsHeld ==
  ASSUME TypeOK, IndexInv, NEW k \in Key, NEW r \in RulesIn(map_in_tuple[k])
  PROVE  /\ r \in Rule /\ KeyRulePrefix(r) = k
         /\ r \in RulesOf(map_in_tuple[k][HashRule(r)])
         /\ r.priority \in Held(priority_container[k])
         /\ r.priority <= maxPriority[k]
         /\ k \in all_priority_tuples
<1>1. PICK h \in Hash : r \in RulesOf(map_in_tuple[k][h])
  BY DEF RulesIn
<1>2. r \in Rule /\ KeyRulePrefix(r) = k /\ HashRule(r) = h
  BY <1>1, NodesAreRules DEF IndexInv, NodesPlaced
<1> DEFINE q == r.priority
<1>3. q \in Priority /\ q \in Nat /\ r \in ChainPeers(k, h, q)
  BY <1>2, RuleAssumption DEF Priority, Peers, ChainPeers
<1>4. Places(map_in_tuple[k][h], ChainPeers(k, h, q)) # {}
  BY <1>1, <1>3 DEF Places, RulesOf
<1>5. map_in_tuple[k][h] \in Seq(Rule)
  BY DEF TypeOK
<1>6. Cardinality(Places(map_in_tuple[k][h], ChainPeers(k, h, q))) # 0
  BY <1>4, <1>5, PlacesFinite, FS_EmptySet
<1>7. Cardinality(Copies(live, ChainPeers(k, h, q))) # 0
  BY <1>3, <1>6 DEF IndexInv, ChainsCountCopies
<1>8. PICK s \in ChainPeers(k, h, q) : live[s] > 0
  <2>1. live \in [Rule -> 0 .. MaxCopies] /\ ChainPeers(k, h, q) \in SUBSET Rule
    BY PeersAreRules DEF TypeOK
  <2>2. Cardinality(Copies(live, ChainPeers(k, h, q))) > 0
    BY <1>7, <2>1, CopiesPositive
  <2> QED BY <2>1, <2>2, CopiesPositive
<1>9. Cardinality(Copies(live, Peers(k, q))) > 0
  BY <1>8, CopiesPositive, PeersAreRules DEF TypeOK
<1>10. q \in Held(priority_container[k])
  BY <1>3, <1>9 DEF IndexInv, ContainerCountsCopies, Held
<1>11. q <= maxPriority[k]
  <2>1. Held(priority_container[k]) \in SUBSET Priority
    BY DEF Held
  <2>2. IsFiniteSet(Held(priority_container[k])) /\ Held(priority_container[k]) \in SUBSET Int
    BY <2>1, PrioritiesFinite
  <2> QED BY <1>10, <2>2, HighestIsGreatest DEF IndexInv, MaxPriorityExact
<1> QED BY <1>1, <1>2, <1>10, <1>11 DEF IndexInv, VectorListsTuples

-----------------------------------------------------------------------------
(***************************************************************************)
(* The lookup.                                                             *)
(***************************************************************************)

\* Searching one tuple answers the scan of the rules in its map: the rules of
\* other chains do not match the packet.
LEMMA TupleSearch ==
  ASSUME TypeOK, IndexInv, NEW k \in Key, NEW p \in Packet
  PROVE  FindMatchPacket(k, p) = LinearScanPriority(RulesIn(map_in_tuple[k]), p)
<1> DEFINE h == HashPacket(k, p)
           C == RulesOf(map_in_tuple[k][h])
           R == RulesIn(map_in_tuple[k])
           x == LinearScanPriority(C, p)
<1>1. h \in Hash
  BY HashAssumption DEF Key
<1>2. C \in SUBSET Rule /\ R \in SUBSET Rule /\ C \subseteq R
  BY <1>1, NodesAreRules DEF RulesIn
<1>3. ASSUME NEW r \in R, MatchesPacket(r, p)
      PROVE  r \in C
  <2>1. r \in Rule /\ KeyRulePrefix(r) = k /\ r \in RulesOf(map_in_tuple[k][HashRule(r)])
    BY StoredIsHeld
  <2>2. HashRule(r) = h
    BY <1>3, <2>1, HashAssumption
  <2> QED BY <2>1, <2>2
<1>4. x \in Int
  BY <1>2, ScanIsGreatest
<1>5. LinearScanPriority(R, p) = x
  <2> HIDE DEF C, R, x
  <2>1. /\ x = LinearScanPriority(C, p)
    BY DEF x
  <2>2. /\ x # -1 => \E r \in C : MatchesPacket(r, p) /\ r.priority = x
        /\ -1 <= x
        /\ \A r \in C : MatchesPacket(r, p) => r.priority <= x
    BY <1>2, <2>1, ScanIsGreatest
  <2> QED BY <1>2, <1>3, <1>4, <2>2, ScanIs
<1> QED BY <1>5 DEF FindMatchPacket

\* The early exit loses nothing: the answer is the scan of all stored rules.
LEMMA LookupIsScan ==
  ASSUME TypeOK, IndexInv, NEW p \in Packet
  PROVE  Lookup(p) = LinearScanPriority(StoredRules, p)
<1> DEFINE v == priority_tuples_vector
           f(i) == FindMatchPacket(v[i], p)
           m == LinearScanPriority(StoredRules, p)
           D == {j \in DOMAIN v : Reached(j, p)}
<1>1. v \in Seq(Key) /\ StoredRules \in SUBSET Rule
  BY NodesAreRules DEF TypeOK
<1>2. /\ m \in Priority \cup {-1} /\ m \in Int /\ -1 <= m
      /\ m # -1 => \E r \in StoredRules : MatchesPacket(r, p) /\ r.priority = m
      /\ \A r \in StoredRules : MatchesPacket(r, p) => r.priority <= m
  BY <1>1, ScanIsGreatest
<1>3. ASSUME NEW k \in Key
      PROVE  FindMatchPacket(k, p) \in Int /\ FindMatchPacket(k, p) <= m
  <2> DEFINE R == RulesIn(map_in_tuple[k])
             x == LinearScanPriority(R, p)
  <2>1. R \in SUBSET Rule /\ R \subseteq StoredRules /\ FindMatchPacket(k, p) = x
    BY NodesAreRules, TupleSearch DEF StoredRules
  <2>2. /\ x \in Int /\ -1 <= x
        /\ x # -1 => \E r \in R : MatchesPacket(r, p) /\ r.priority = x
    BY <2>1, ScanIsGreatest
  <2> HIDE DEF R, x, m
  <2>3. x = -1 \/ x <= m
    BY <1>2, <2>1, <2>2
  <2> QED BY <1>2, <2>1, <2>2, <2>3
<1>4. \A i \in DOMAIN v : v[i] \in Key
  BY <1>1
<1> DEFINE A == {f(i) : i \in D}
<1>5. A \in SUBSET Int /\ \A y \in A : y <= m
  BY <1>3, <1>4
<1>6. m \in A \cup {-1}
  <2> SUFFICES ASSUME m # -1
               PROVE  \E i \in D : f(i) = m
    OBVIOUS
  <2>1. PICK r \in StoredRules : MatchesPacket(r, p) /\ r.priority = m
    BY <1>2
  <2>2. PICK k \in Key : r \in RulesIn(map_in_tuple[k])
    BY <2>1 DEF StoredRules
  <2>3. r.priority <= maxPriority[k] /\ k \in all_priority_tuples
    BY <2>2, StoredIsHeld
  <2>4. PICK i \in DOMAIN v : v[i] = k
    BY <2>3 DEF IndexInv, VectorListsTuples, RulesOf
  <2>5. f(i) = m
    <3>1. m <= LinearScanPriority(RulesIn(map_in_tuple[k]), p)
      BY <2>1, <2>2, NodesAreRules, ScanIsGreatest
    <3>2. FindMatchPacket(k, p) = LinearScanPriority(RulesIn(map_in_tuple[k]), p)
      BY TupleSearch
    <3>3. m <= f(i) /\ f(i) <= m /\ f(i) \in Int
      BY <1>3, <2>4, <3>1, <3>2
    <3> HIDE DEF m, f
    <3> QED BY <1>2, <3>3
  <2>6. Reached(i, p)
    <3> SUFFICES ASSUME NEW j \in 1 .. i
                 PROVE  BestOfFirst(j - 1, p) <= maxPriority[v[j]]
      BY DEF Reached
    <3>1. j \in DOMAIN v /\ i \in DOMAIN v /\ j \in Nat /\ i \in Nat /\ j - 1 \in Nat
      BY <1>1
    <3>2. maxPriority[v[i]] <= maxPriority[v[j]]
      <4>1. maxPriority[v[i]] \in Priority \cup {-1}
        BY <1>4, <3>1 DEF TypeOK
      <4> QED BY <3>1, <4>1, PriorityFinite DEF IndexInv, VectorSorted
    <3>3. BestOfFirst(j - 1, p) <= m /\ BestOfFirst(j - 1, p) \in Int
      <4> DEFINE B == {f(n) : n \in 1 .. j - 1}
      <4>1. \A n \in 1 .. j - 1 : n \in DOMAIN v
        BY <1>1, <3>1
      <4>2. B \in SUBSET Int /\ \A y \in B : y <= m
        BY <1>3, <1>4, <4>1
      <4>3. IsFiniteSet(B)
        <5> DEFINE g == [n \in 1 .. j - 1 |-> f(n)]
        <5>1. IsFiniteSet(1 .. j - 1)
          BY <3>1, FS_Interval
        <5>2. g \in Surjection(1 .. j - 1, B)
          BY DEF Surjection
        <5> QED BY <5>1, <5>2, FS_Surjection
      <4>4. m \in Int /\ -1 <= m
        BY <1>2
      <4>5. Highest(B) <= m /\ Highest(B) \in Int
        <5> HIDE DEF B, m
        <5> QED BY <4>2, <4>3, <4>4, HighestBounded
      <4> QED BY <4>5 DEF BestOfFirst
    <3>4. m <= maxPriority[v[i]]
      BY <2>1, <2>3, <2>4
    <3>5. maxPriority[v[i]] \in Int /\ maxPriority[v[j]] \in Int
      <4>1. maxPriority[v[i]] \in Priority \cup {-1} /\ maxPriority[v[j]] \in Priority \cup {-1}
        BY <1>4, <3>1 DEF TypeOK
      <4> QED BY <4>1, PriorityFinite
    <3> HIDE DEF m
    <3> QED BY <1>2, <3>2, <3>3, <3>4, <3>5
  <2> QED BY <2>5, <2>6
<1>7. Lookup(p) = Highest(A)
  BY DEF Lookup
<1> HIDE DEF A, m
<1>8. Highest(A) = m
  BY <1>2, <1>5, <1>6, HighestIs
<1> QED BY <1>7, <1>8 DEF m
-----------------------------------------------------------------------------
(***************************************************************************)
(* How an update moves the counts.                                         *)
(***************************************************************************)

One(b) == IF b THEN 1 ELSE 0

LEMMA AppendPlaces ==
  ASSUME NEW s \in Seq(Rule), NEW r \in Rule, NEW X
  PROVE  /\ RulesOf(Append(s, r)) = RulesOf(s) \cup {r}
         /\ Cardinality(Places(Append(s, r), X)) = Cardinality(Places(s, X)) + One(r \in X)
<1> DEFINE n == Len(s) + 1
           t == Append(s, r)
<1>1. /\ n \in Nat /\ t \in Seq(Rule) /\ DOMAIN t = 1 .. n /\ DOMAIN s = 1 .. n - 1
      /\ t[n] = r /\ \A i \in 1 .. n - 1 : t[i] = s[i]
  OBVIOUS
<1>2. RulesOf(t) = RulesOf(s) \cup {r}
  <2>1. ASSUME NEW i \in DOMAIN t
        PROVE  t[i] \in RulesOf(s) \cup {r}
    <3>1. i = n \/ i \in 1 .. n - 1
      BY <1>1
    <3> HIDE DEF n, t
    <3> QED BY <1>1, <3>1 DEF RulesOf
  <2>2. ASSUME NEW i \in DOMAIN s
        PROVE  s[i] \in RulesOf(t)
    <3>1. i \in DOMAIN t /\ t[i] = s[i]
      BY <1>1
    <3> HIDE DEF n, t
    <3> QED BY <3>1 DEF RulesOf
  <2>3. r \in RulesOf(t)
    <3>1. n \in DOMAIN t /\ t[n] = r
      BY <1>1
    <3> HIDE DEF n, t
    <3> QED BY <3>1 DEF RulesOf
  <2> HIDE DEF n, t
  <2> QED BY <2>1, <2>2, <2>3 DEF RulesOf
<1>3. IsFiniteSet(Places(s, X)) /\ Cardinality(Places(s, X)) \in Nat /\ n \notin Places(s, X)
  BY PlacesFinite, FS_CardinalityType DEF Places
<1>4. CASE r \in X
  <2>1. Places(t, X) = Places(s, X) \cup {n}
    <3>1. ASSUME NEW i \in 1 .. n
          PROVE  i \in Places(t, X) <=> i \in Places(s, X) \/ i = n
      <4>1. i = n \/ i \in 1 .. n - 1
        BY <1>1
      <4> HIDE DEF n, t
      <4> QED BY <1>1, <1>4, <4>1 DEF Places
    <3>2. Places(t, X) \subseteq 1 .. n /\ Places(s, X) \subseteq 1 .. n /\ n \in 1 .. n
      BY <1>1 DEF Places
    <3> HIDE DEF n, t
    <3> QED BY <3>1, <3>2
  <2> HIDE DEF n, t
  <2>2. Cardinality(Places(t, X)) = Cardinality(Places(s, X)) + 1
    BY <1>3, <2>1, FS_AddElement
  <2> QED BY <1>2, <1>4, <2>2 DEF t, One
<1>5. CASE r \notin X
  <2>1. Places(t, X) = Places(s, X)
    <3> HIDE DEF n, t
    <3> QED BY <1>1, <1>5 DEF Places
  <2> HIDE DEF n, t
  <2> QED BY <1>2, <1>3, <1>5, <2>1 DEF t, One
<1> QED BY <1>4, <1>5

LEMMA UnlinkedPlaces ==
  ASSUME NEW s \in Seq(Rule), NEW i \in DOMAIN s, NEW X
  PROVE  /\ Unlinked(s, i) \in Seq(Rule)
         /\ RulesOf(Unlinked(s, i)) \subseteq RulesOf(s)
         /\ Cardinality(Places(Unlinked(s, i), X)) = Cardinality(Places(s, X)) - One(s[i] \in X)
<1> DEFINE t == Unlinked(s, i)
           n == Len(s)
           g == [j \in Places(s, X) \ {i} |-> IF j < i THEN j ELSE j - 1]
<1>1. n \in Nat /\ i \in 1 .. n /\ DOMAIN s = 1 .. n /\ \A j \in 1 .. n : s[j] \in Rule
  OBVIOUS
<1>2. /\ t \in Seq(Rule) /\ DOMAIN t = 1 .. n - 1
      /\ \A j \in 1 .. n - 1 : t[j] = IF j < i THEN s[j] ELSE s[j + 1]
  BY <1>1 DEF Unlinked
<1>3. RulesOf(t) \subseteq RulesOf(s)
  <2>1. ASSUME NEW j \in 1 .. n - 1
        PROVE  t[j] \in RulesOf(s)
    <3> HIDE DEF t, n
    <3>1. j \in 1 .. n /\ j + 1 \in 1 .. n
      BY <1>1
    <3>2. s[j] \in RulesOf(s) /\ s[j + 1] \in RulesOf(s)
      BY <1>1, <3>1 DEF RulesOf
    <3>3. t[j] = IF j < i THEN s[j] ELSE s[j + 1]
      BY <1>2
    <3> QED BY <3>2, <3>3
  <2> HIDE DEF t, n
  <2> QED BY <1>2, <2>1, Zenon DEF RulesOf
<1>4. g \in Bijection(Places(s, X) \ {i}, Places(t, X))
  <2>1. ASSUME NEW j \in Places(s, X) \ {i}
        PROVE  g[j] \in Places(t, X)
    <3>1. j \in 1 .. n /\ s[j] \in X /\ j # i
      BY DEF Places
    <3>2. g[j] = IF j < i THEN j ELSE j - 1
      OBVIOUS
    <3> HIDE DEF t, n, g
    <3> QED BY <1>1, <1>2, <3>1, <3>2 DEF Places
  <2>2. ASSUME NEW a \in Places(s, X) \ {i}, NEW b \in Places(s, X) \ {i}, g[a] = g[b]
        PROVE  a = b
    <3>1. a \in 1 .. n /\ b \in 1 .. n /\ a # i /\ b # i
      BY DEF Places
    <3>2. (IF a < i THEN a ELSE a - 1) = (IF b < i THEN b ELSE b - 1)
      BY <2>2
    <3> HIDE DEF t, n, g
    <3> QED BY <1>1, <3>1, <3>2
  <2>3. ASSUME NEW m \in Places(t, X)
        PROVE  \E j \in Places(s, X) \ {i} : g[j] = m
    <3> DEFINE j == IF m < i THEN m ELSE m + 1
    <3>1. m \in 1 .. n - 1 /\ t[m] \in X
      BY <1>2 DEF Places
    <3>2. j \in 1 .. n /\ s[j] \in X /\ j # i
      <4> HIDE DEF t, n
      <4> QED BY <1>1, <1>2, <3>1
    <3>3. j \in Places(s, X) \ {i}
      BY <3>2 DEF Places
    <3>4. (IF j < i THEN j ELSE j - 1) = m
      <4> HIDE DEF t, n
      <4> QED BY <1>1, <3>1
    <3> QED BY <3>3, <3>4
  <2> HIDE DEF g, t
  <2>4. g \in [Places(s, X) \ {i} -> Places(t, X)]
    BY <2>1 DEF g
  <2> QED BY <2>2, <2>3, <2>4 DEF Bijection, Injection, Surjection, IsInjective
<1>5. IsFiniteSet(Places(s, X)) /\ Cardinality(Places(s, X)) \in Nat
  BY PlacesFinite, FS_CardinalityType
<1>6. /\ IsFiniteSet(Places(s, X) \ {i})
      /\ Cardinality(Places(s, X) \ {i}) = Cardinality(Places(s, X)) - One(s[i] \in X)
  <2>1. i \in Places(s, X) <=> s[i] \in X
    BY DEF Places
  <2> QED BY <1>5, <2>1, FS_RemoveElement DEF One
<1>7. ExistsBijection(Places(s, X) \ {i}, Places(t, X))
  <2> HIDE DEF g, t
  <2> QED BY <1>4 DEF ExistsBijection
<1>8. Cardinality(Places(t, X)) = Cardinality(Places(s, X) \ {i})
  <2> HIDE DEF g, t
  <2> QED BY <1>6, <1>7, FS_Bijection
<1> QED BY <1>2, <1>3, <1>6, <1>8

LEMMA CopiesAfterInsert ==
  ASSUME TypeOK, NEW r \in Rule, live[r] < MaxCopies,
         live' = [live EXCEPT ![r] = @ + 1], NEW X \in SUBSET Rule
  PROVE  Cardinality(Copies(live', X)) = Cardinality(Copies(live, X)) + One(r \in X)
<1> DEFINE c == <<r, live[r] + 1>>
<1>1. /\ live[r] \in Nat /\ live[r] + 1 \in 1 .. MaxCopies /\ MaxCopies \in Nat
      /\ \A s \in Rule : live[s] \in Nat /\ live'[s] = IF s = r THEN live[s] + 1 ELSE live[s]
  BY CopiesAssumption DEF TypeOK
<1>2. /\ Copies(live, X) = {d \in X \X (1 .. MaxCopies) : d[2] <= live[d[1]]}
      /\ Copies(live', X) = {d \in X \X (1 .. MaxCopies) : d[2] <= live'[d[1]]}
  BY DEF Copies
<1>3. IsFiniteSet(Copies(live, X)) /\ Cardinality(Copies(live, X)) \in Nat /\ c \notin Copies(live, X)
  <2>1. ~(live[r] + 1 <= live[r])
    BY <1>1
  <2>2. c \notin Copies(live, X)
    BY <1>2, <2>1
  <2> QED BY <2>2, CopiesFinite, FS_CardinalityType
<1>4. CASE r \in X
  <2>1. Copies(live', X) = Copies(live, X) \cup {c}
    <3>1. ASSUME NEW d \in X \X (1 .. MaxCopies)
          PROVE  d \in Copies(live', X) <=> d \in Copies(live, X) \/ d = c
      <4>1. d[1] \in X /\ d[1] \in Rule /\ d[2] \in 1 .. MaxCopies /\ d = <<d[1], d[2]>>
        OBVIOUS
      <4>2. d[2] <= live'[d[1]] <=> (d[2] <= live[d[1]] \/ (d[1] = r /\ d[2] = live[r] + 1))
        BY <1>1, <4>1
      <4>3. d = c <=> d[1] = r /\ d[2] = live[r] + 1
        BY <4>1
      <4> QED BY <1>2, <4>2, <4>3
    <3>2. c \in X \X (1 .. MaxCopies)
      BY <1>1, <1>4
    <3>3. /\ Copies(live, X) \subseteq X \X (1 .. MaxCopies)
          /\ Copies(live', X) \subseteq X \X (1 .. MaxCopies)
      BY <1>2
    <3> HIDE DEF c
    <3> QED BY <3>1, <3>2, <3>3
  <2> QED BY <1>3, <1>4, <2>1, FS_AddElement DEF One
<1>5. CASE r \notin X
  <2>1. Copies(live', X) = Copies(live, X)
    <3>1. ASSUME NEW d \in X \X (1 .. MaxCopies)
          PROVE  live'[d[1]] = live[d[1]]
      <4>1. d[1] \in Rule /\ d[1] # r
        BY <1>5
      <4> QED BY <1>1, <4>1
    <3> QED BY <1>2, <3>1, Zenon
  <2> QED BY <1>3, <1>5, <2>1 DEF One
<1> QED BY <1>4, <1>5

LEMMA CopiesAfterDelete ==
  ASSUME TypeOK, NEW r \in Rule, live[r] > 0,
         live' = [live EXCEPT ![r] = @ - 1], NEW X \in SUBSET Rule
  PROVE  Cardinality(Copies(live', X)) = Cardinality(Copies(live, X)) - One(r \in X)
<1> DEFINE c == <<r, live[r]>>
<1>1. /\ live[r] \in 1 .. MaxCopies /\ MaxCopies \in Nat
      /\ \A s \in Rule : live[s] \in Nat /\ live'[s] = IF s = r THEN live[s] - 1 ELSE live[s]
  BY CopiesAssumption DEF TypeOK
<1>2. /\ Copies(live, X) = {d \in X \X (1 .. MaxCopies) : d[2] <= live[d[1]]}
      /\ Copies(live', X) = {d \in X \X (1 .. MaxCopies) : d[2] <= live'[d[1]]}
  BY DEF Copies
<1>3. IsFiniteSet(Copies(live, X)) /\ Cardinality(Copies(live, X)) \in Nat
  BY CopiesFinite, FS_CardinalityType
<1>4. CASE r \in X
  <2>1. Copies(live', X) = Copies(live, X) \ {c}
    <3>1. ASSUME NEW d \in X \X (1 .. MaxCopies)
          PROVE  d \in Copies(live', X) <=> d \in Copies(live, X) /\ d # c
      <4>1. d[1] \in X /\ d[1] \in Rule /\ d[2] \in 1 .. MaxCopies /\ d = <<d[1], d[2]>>
        OBVIOUS
      <4>2. d[2] <= live'[d[1]] <=> (d[2] <= live[d[1]] /\ ~(d[1] = r /\ d[2] = live[r]))
        BY <1>1, <4>1
      <4>3. d = c <=> d[1] = r /\ d[2] = live[r]
        BY <4>1
      <4> QED BY <1>2, <4>2, <4>3
    <3>2. /\ Copies(live, X) \subseteq X \X (1 .. MaxCopies)
          /\ Copies(live', X) \subseteq X \X (1 .. MaxCopies)
      BY <1>2
    <3> HIDE DEF c
    <3> QED BY <3>1, <3>2
  <2>2. c \in Copies(live, X)
    BY <1>1, <1>2, <1>4
  <2> HIDE DEF c
  <2>3. Cardinality(Copies(live, X) \ {c}) = Cardinality(Copies(live, X)) - 1
    BY <1>3, <2>2, FS_RemoveElement
  <2> QED BY <1>4, <2>1, <2>3 DEF One
<1>5. CASE r \notin X
  <2>1. Copies(live', X) = Copies(live, X)
    <3>1. ASSUME NEW d \in X \X (1 .. MaxCopies)
          PROVE  live'[d[1]] = live[d[1]]
      <4>1. d[1] \in Rule /\ d[1] # r
        BY <1>5
      <4> QED BY <1>1, <4>1
    <3> QED BY <1>2, <3>1, Zenon
  <2> QED BY <1>3, <1>5, <2>1 DEF One
<1> QED BY <1>4, <1>5

-----------------------------------------------------------------------------
(***************************************************************************)
(* The vector.                                                             *)
(***************************************************************************)

LEMMA KeyFinite == IsFiniteSet(Key)
<1> DEFINE f == [r \in Rule |-> KeyRulePrefix(r)]
<1>1. f \in Surjection(Rule, Key)
  BY DEF Surjection, Key
<1> QED BY <1>1, FS_Surjection, RuleAssumption

\* What sorting the vector again establishes, whatever it was before.
LEMMA Resorted ==
  ASSUME NEW K \in SUBSET Key, NEW pri, RetainInvaraintOfPriorityVector(K, pri)
  PROVE  /\ priority_tuples_vector' \in Seq(Key)
         /\ RulesOf(priority_tuples_vector') = K
         /\ \A i, j \in DOMAIN priority_tuples_vector' :
              priority_tuples_vector'[i] = priority_tuples_vector'[j] => i = j
         /\ \A i, j \in DOMAIN priority_tuples_vector' :
              i < j => pri[priority_tuples_vector'[j]] <= pri[priority_tuples_vector'[i]]
<1> DEFINE v == priority_tuples_vector'
           n == Cardinality(K)
<1>1. n \in Nat
  BY KeyFinite, FS_Subset, FS_CardinalityType
<1>2. /\ v \in [1 .. n -> K]
      /\ \A k \in K : \E i \in DOMAIN v : v[i] = k
      /\ \A i, j \in DOMAIN v : v[i] = v[j] => i = j
      /\ \A i, j \in DOMAIN v : i < j => pri[v[j]] <= pri[v[i]]
  BY DEF RetainInvaraintOfPriorityVector, Listings
<1>3. v \in Seq(Key)
  <2>1. v \in [1 .. n -> Key]
    BY <1>2
  <2> QED BY <1>1, <2>1
<1>4. RulesOf(v) = K
  <2> HIDE DEF v, n
  <2> QED BY <1>2 DEF RulesOf
<1> QED BY <1>2, <1>3, <1>4

-----------------------------------------------------------------------------
(***************************************************************************)
(* Inserting a rule.                                                       *)
(***************************************************************************)

\* The next state of an insertion, point by point.
LEMMA InsertPoints ==
  ASSUME TypeOK, NEW r \in Rule, InsertRule(r)
  PROVE  /\ KeyRulePrefix(r) \in Key /\ HashRule(r) \in Hash
         /\ r.priority \in Priority /\ r.priority \in Nat
         /\ \A k \in Key, h \in Hash :
              /\ map_in_tuple[k][h] \in Seq(Rule)
              /\ map_in_tuple'[k][h] = IF k = KeyRulePrefix(r) /\ h = HashRule(r)
                                         THEN Append(map_in_tuple[k][h], r)
                                         ELSE map_in_tuple[k][h]
         /\ \A k \in Key, q \in Priority :
              /\ priority_container[k][q] \in Nat
              /\ priority_container'[k][q]
                   = priority_container[k][q] + One(r \in Peers(k, q))
<1> DEFINE K == KeyRulePrefix(r)
           H == HashRule(r)
<1>1. K \in Key /\ H \in Hash /\ r.priority \in Priority /\ r.priority \in Nat
  BY RuleAssumption, HashAssumption DEF Key, Priority
<1>2. /\ map_in_tuple \in [Key -> [Hash -> Seq(Rule)]]
      /\ map_in_tuple' = [map_in_tuple EXCEPT ![K][H] = Append(@, r)]
      /\ priority_container \in [Key -> [Priority -> Nat]]
      /\ priority_container' = [priority_container EXCEPT ![K][r.priority] = @ + 1]
  BY DEF TypeOK, InsertRule
<1>3. ASSUME NEW k \in Key, NEW h \in Hash
      PROVE  /\ map_in_tuple[k][h] \in Seq(Rule)
             /\ map_in_tuple'[k][h] = IF k = K /\ h = H THEN Append(map_in_tuple[k][h], r)
                                                        ELSE map_in_tuple[k][h]
  <2> HIDE DEF K, H
  <2> QED BY <1>1, <1>2
<1>4. ASSUME NEW k \in Key, NEW q \in Priority
      PROVE  /\ priority_container[k][q] \in Nat
             /\ priority_container'[k][q] = priority_container[k][q] + One(r \in Peers(k, q))
  <2>1. r \in Peers(k, q) <=> K = k /\ r.priority = q
    BY DEF Peers
  <2> HIDE DEF K, H
  <2>2. priority_container'[k][q] = IF k = K /\ q = r.priority
                                      THEN priority_container[k][q] + 1
                                      ELSE priority_container[k][q]
    BY <1>1, <1>2
  <2>3. priority_container[k][q] \in Nat
    BY <1>2
  <2> QED BY <2>1, <2>2, <2>3 DEF One
<1> QED BY <1>1, <1>3, <1>4

\* The priorities of a tuple and the greatest of them after an insertion.
LEMMA InsertGreatest ==
  ASSUME TypeOK, IndexInv, NEW r \in Rule, InsertRule(r), NEW k \in Key
  PROVE  /\ Held(priority_container'[k]) =
              Held(priority_container[k]) \cup
                {q \in Priority : r \in Peers(k, q)}
         /\ maxPriority'[k] = Highest(Held(priority_container'[k]))
         /\ maxPriority'[k] \in Priority \cup {-1}
<1> DEFINE K == KeyRulePrefix(r)
           q == r.priority
           old == Held(priority_container[k])
           new == Held(priority_container'[k])
<1>1. /\ K \in Key /\ q \in Priority /\ q \in Nat
      /\ maxPriority \in [Key -> Priority \cup {-1}]
      /\ maxPriority[k] = Highest(old)
      /\ old \in SUBSET Priority /\ IsFiniteSet(old) /\ old \in SUBSET Int
  <2>1. Held(priority_container[k]) \in SUBSET Priority
    BY DEF Held
  <2>2. IsFiniteSet(Held(priority_container[k])) /\ Held(priority_container[k]) \in SUBSET Int
    BY <2>1, PrioritiesFinite
  <2> QED BY <2>1, <2>2, InsertPoints DEF TypeOK, IndexInv, MaxPriorityExact
<1>2. /\ maxPriority[k] \in old \cup {-1} /\ maxPriority[k] \in Int
      /\ \A y \in old \cup {-1} : y <= maxPriority[k]
  <2> HIDE DEF old
  <2>1. /\ Highest(old) \in old \cup {-1}
        /\ \A y \in old \cup {-1} : y <= Highest(old)
    BY <1>1, HighestIsGreatest
  <2>2. maxPriority[k] \in Int
    BY <1>1, PriorityFinite
  <2> QED BY <1>1, <2>1, <2>2
<1>3. new = old \cup {x \in Priority : r \in Peers(k, x)}
  <2>1. ASSUME NEW x \in Priority
        PROVE  priority_container'[k][x] > 0 <=> priority_container[k][x] > 0 \/ r \in Peers(k, x)
    BY InsertPoints DEF One
  <2> QED BY <2>1 DEF Held
<1>4. CASE k # K
  <2>1. new = old
    BY <1>3, <1>4 DEF Peers
  <2>2. maxPriority'[k] = maxPriority[k]
    BY <1>1, <1>4 DEF InsertRule
  <2> QED BY <1>1, <1>3, <2>1, <2>2
<1>5. CASE k = K
  <2>1. new = old \cup {q}
    <3>1. {x \in Priority : r \in Peers(k, x)} = {q}
      BY <1>1, <1>5 DEF Peers
    <3> QED BY <1>3, <3>1
  <2>2. maxPriority'[k] = IF Raises(K, r) THEN q ELSE maxPriority[k]
    BY <1>1, <1>5 DEF InsertRule
  <2>3. CASE Raises(K, r)
    <3>1. \A y \in old : y <= q
      <4>1. K \notin all_priority_tuples => old = {}
        BY <1>5 DEF IndexInv, VectorListsTuples
      <4>2. q > maxPriority[k] => \A y \in old : y <= q
        <5> HIDE DEF old, q
        <5> QED BY <1>1, <1>2
      <4> QED BY <1>5, <2>3, <4>1, <4>2 DEF Raises
    <3>2. q \in new /\ new \in SUBSET Int /\ \A y \in new \cup {-1} : y <= q
      <4> HIDE DEF old, new, q
      <4>1. q \in Nat /\ q \in Int /\ q <= q /\ -1 <= q
        BY <1>1
      <4>2. new \in SUBSET Int
        BY <1>1, <2>1, <4>1
      <4>3. ASSUME NEW y \in new \cup {-1}
            PROVE  y <= q
        BY <2>1, <3>1, <4>1, <4>3
      <4> QED BY <2>1, <4>2, <4>3
    <3>3. Highest(new) = q
      <4> HIDE DEF new, q
      <4> QED BY <3>2, HighestIs
    <3> QED BY <1>1, <1>3, <2>2, <2>3, <3>3
  <2>4. CASE ~Raises(K, r)
    <3>1. q <= maxPriority[k]
      <4> HIDE DEF q, K
      <4>1. ~(r.priority > maxPriority[k])
        BY <1>5, <2>4 DEF Raises
      <4> QED BY <1>1, <1>2, <4>1 DEF q
    <3>2. /\ maxPriority[k] \in new \cup {-1} /\ new \in SUBSET Int
          /\ \A y \in new \cup {-1} : y <= maxPriority[k]
      <4> HIDE DEF old, new, q
      <4> QED BY <1>1, <1>2, <2>1, <3>1
    <3>3. Highest(new) = maxPriority[k]
      <4> HIDE DEF new
      <4> QED BY <3>2, HighestIs
    <3> QED BY <1>1, <1>3, <2>2, <2>4, <3>3
  <2> QED BY <2>3, <2>4
<1> QED BY <1>4, <1>5

\* The vector after an insertion, sorted again or left as it was.
LEMMA InsertVector ==
  ASSUME TypeOK, IndexInv, NEW r \in Rule, InsertRule(r)
  PROVE  /\ priority_tuples_vector' \in Seq(Key)
         /\ VectorListsTuples'
         /\ VectorSorted'
<1> DEFINE K == KeyRulePrefix(r)
           v == priority_tuples_vector
<1>1. /\ K \in Key /\ all_priority_tuples' = all_priority_tuples \cup {K}
      /\ all_priority_tuples' \in SUBSET Key
      /\ all_priority_tuples = {k \in Key : Held(priority_container[k]) # {}}
  BY InsertPoints DEF TypeOK, InsertRule, IndexInv, VectorListsTuples
<1>2. all_priority_tuples' = {k \in Key : Held(priority_container'[k]) # {}}
  <2>1. ASSUME NEW k \in Key
        PROVE  Held(priority_container'[k]) # {}
                 <=> Held(priority_container[k]) # {} \/ k = K
    <3>1. {q \in Priority : r \in Peers(k, q)} # {} <=> k = K
      BY InsertPoints DEF Peers
    <3> QED BY <3>1, InsertGreatest
  <2> QED BY <1>1, <2>1
<1>3. CASE Raises(K, r)
  <2>1. RetainInvaraintOfPriorityVector(all_priority_tuples', maxPriority')
    BY <1>3 DEF InsertRule
  <2> DEFINE A == all_priority_tuples'
             M == maxPriority'
  <2>2. A \in SUBSET Key /\ RetainInvaraintOfPriorityVector(A, M)
    BY <1>1, <2>1
  <2>3. /\ v' \in Seq(Key)
        /\ RulesOf(v') = A
        /\ \A i, j \in DOMAIN v' : v'[i] = v'[j] => i = j
        /\ \A i, j \in DOMAIN v' : i < j => M[v'[j]] <= M[v'[i]]
    <3> HIDE DEF A, M
    <3> QED BY <2>2, Resorted
  <2> QED BY <1>2, <2>3 DEF VectorListsTuples, VectorSorted
<1>4. CASE ~Raises(K, r)
  <2>1. v' = v /\ maxPriority' = maxPriority /\ all_priority_tuples' = all_priority_tuples
    BY <1>1, <1>4 DEF InsertRule, Raises
  <2> QED BY <1>2, <2>1 DEF TypeOK, IndexInv, VectorListsTuples, VectorSorted
<1> QED BY <1>3, <1>4

\* The counts after an insertion: one more node, one more copy, one more
\* priority, all in the same place.
LEMMA InsertCounts ==
  ASSUME TypeOK, IndexInv, NEW r \in Rule, InsertRule(r)
  PROVE  NodesPlaced' /\ ChainsCountCopies' /\ ContainerCountsCopies'
<1>1. live[r] < MaxCopies /\ live' = [live EXCEPT ![r] = @ + 1]
  BY DEF InsertRule
<1>2. NodesPlaced'
  <2> SUFFICES ASSUME NEW k \in Key, NEW h \in Hash, NEW s \in RulesOf(map_in_tuple'[k][h])
               PROVE  KeyRulePrefix(s) = k /\ HashRule(s) = h
    BY DEF NodesPlaced
  <2>1. CASE k = KeyRulePrefix(r) /\ h = HashRule(r)
    <3>1. s \in RulesOf(map_in_tuple[k][h]) \cup {r}
      BY <2>1, InsertPoints, AppendPlaces
    <3> QED BY <2>1, <3>1 DEF IndexInv, NodesPlaced
  <2>2. CASE ~(k = KeyRulePrefix(r) /\ h = HashRule(r))
    BY <2>2, InsertPoints DEF IndexInv, NodesPlaced
  <2> QED BY <2>1, <2>2
<1>3. ChainsCountCopies'
  <2> SUFFICES ASSUME NEW k \in Key, NEW h \in Hash, NEW q \in Priority
               PROVE  Cardinality(Places(map_in_tuple'[k][h], ChainPeers(k, h, q)))
                        = Cardinality(Copies(live', ChainPeers(k, h, q)))
    BY DEF ChainsCountCopies
  <2> DEFINE X == ChainPeers(k, h, q)
  <2>1. X \in SUBSET Rule
    BY PeersAreRules
  <2>2. Cardinality(Copies(live', X)) = Cardinality(Copies(live, X)) + One(r \in X)
    <3> HIDE DEF X
    <3> QED BY <1>1, <2>1, CopiesAfterInsert
  <2>3. Cardinality(Places(map_in_tuple[k][h], X)) = Cardinality(Copies(live, X))
    BY DEF IndexInv, ChainsCountCopies
  <2>4. CASE k = KeyRulePrefix(r) /\ h = HashRule(r)
    <3> HIDE DEF X
    <3> QED BY <2>2, <2>3, <2>4, InsertPoints, AppendPlaces DEF X
  <2>5. CASE ~(k = KeyRulePrefix(r) /\ h = HashRule(r))
    <3>1. r \notin X
      BY <2>5 DEF ChainPeers, Peers
    <3>2. Cardinality(Copies(live, X)) \in Nat
      BY <2>1, CopiesPositive DEF TypeOK
    <3> QED BY <2>2, <2>3, <2>5, <3>1, <3>2, InsertPoints DEF One
  <2> QED BY <2>4, <2>5
<1>4. ContainerCountsCopies'
  <2> SUFFICES ASSUME NEW k \in Key, NEW q \in Priority
               PROVE  priority_container'[k][q] = Cardinality(Copies(live', Peers(k, q)))
    BY DEF ContainerCountsCopies
  <2>1. Cardinality(Copies(live', Peers(k, q))) = Cardinality(Copies(live, Peers(k, q))) + One(r \in Peers(k, q))
    BY <1>1, CopiesAfterInsert, PeersAreRules
  <2> QED BY <2>1, InsertPoints DEF IndexInv, ContainerCountsCopies
<1> QED BY <1>2, <1>3, <1>4

\* Under distinct priorities the chains go on holding what is inserted.
LEMMA InsertHoldsLive ==
  ASSUME TypeOK, IndexInv, DistinctPriorities, NEW r \in Rule, InsertRule(r)
  PROVE  ChainsHoldLive'
<1>1. /\ live \in [Rule -> Nat]
      /\ live' = [live EXCEPT ![r] = @ + 1]
      /\ \A s \in LiveRules : s.priority = r.priority => s = r
  BY DEF InsertRule, TypeOK
<1>2. LiveRules' = LiveRules \cup {r}
  BY <1>1 DEF LiveRules
<1>3. \A s, t \in LiveRules' : s.priority = t.priority => s = t
  BY <1>1, <1>2 DEF IndexInv, ChainsHoldLive
<1>4. ASSUME NEW s \in Rule
      PROVE  Cardinality(Places(map_in_tuple'[KeyRulePrefix(s)][HashRule(s)], {s})) = live'[s]
  <2> DEFINE k == KeyRulePrefix(s)
             h == HashRule(s)
  <2>1. k \in Key /\ h \in Hash
    BY HashAssumption DEF Key
  <2>2. Cardinality(Places(map_in_tuple[k][h], {s})) = live[s]
    BY DEF IndexInv, ChainsHoldLive
  <2>3. live'[s] = live[s] + One(r \in {s}) /\ live[s] \in Nat
    BY <1>1 DEF One
  <2>4. CASE k = KeyRulePrefix(r) /\ h = HashRule(r)
    <3> HIDE DEF k, h
    <3> QED BY <2>1, <2>2, <2>3, <2>4, InsertPoints, AppendPlaces DEF k, h
  <2>5. CASE ~(k = KeyRulePrefix(r) /\ h = HashRule(r))
    <3>1. r \notin {s}
      BY <2>5
    <3> QED BY <2>1, <2>2, <2>3, <2>5, <3>1, InsertPoints DEF One
  <2> QED BY <2>4, <2>5
<1> QED BY <1>3, <1>4 DEF ChainsHoldLive

LEMMA InsertStep ==
  ASSUME TypeOK, IndexInv, NEW r \in Rule, InsertRule(r)
  PROVE  TypeOK' /\ IndexInv'
<1>1. live' \in [Rule -> 0 .. MaxCopies]
  BY CopiesAssumption DEF TypeOK, InsertRule
<1>2. map_in_tuple' \in [Key -> [Hash -> Seq(Rule)]]
  <2>1. Append(map_in_tuple[KeyRulePrefix(r)][HashRule(r)], r) \in Seq(Rule)
    BY InsertPoints
  <2> QED BY <2>1, InsertPoints DEF TypeOK, InsertRule
<1>3. priority_container' \in [Key -> [Priority -> Nat]]
  <2>1. priority_container[KeyRulePrefix(r)][r.priority] + 1 \in Nat
    BY InsertPoints
  <2> QED BY <2>1, InsertPoints DEF TypeOK, InsertRule
<1>4. maxPriority' \in [Key -> Priority \cup {-1}]
  BY InsertPoints DEF TypeOK, InsertRule
<1>5. MaxPriorityExact'
  BY InsertGreatest DEF MaxPriorityExact
<1>6. /\ ret' \in {Void} \cup (Packet \X (Priority \cup {-1}))
      /\ running' \in BOOLEAN
      /\ all_priority_tuples' \in SUBSET Key
  BY InsertPoints DEF TypeOK, InsertRule
<1>7. TypeOK'
  BY <1>1, <1>2, <1>3, <1>4, <1>6, InsertVector DEF TypeOK
<1>8. (DistinctPriorities => ChainsHoldLive)'
  BY InsertHoldsLive
<1> QED BY <1>5, <1>7, <1>8, InsertVector, InsertCounts DEF IndexInv

-----------------------------------------------------------------------------
(***************************************************************************)
(* Deleting a rule.                                                        *)
(***************************************************************************)

\* new is the map of tuple k without one node of hash h and priority q.
UnlinksOne(k, h, q, new) ==
  \E n \in DOMAIN map_in_tuple[k][h] :
    /\ map_in_tuple[k][h][n] \in ChainPeers(k, h, q)
    /\ new = [map_in_tuple[k] EXCEPT ![h] = Unlinked(map_in_tuple[k][h], n)]

\* A rule the client has inserted belongs to a tuple that exists, lists its
\* priority and has a node of that priority in the chain of the rule's hash;
\* Deletion unlinks one such node.
LEMMA DeletionUnlinks ==
  ASSUME TypeOK, IndexInv, NEW r \in Rule, live[r] > 0,
         NEW k, k = KeyRulePrefix(r), NEW h, h = HashRule(r)
  PROVE  /\ k \in Key /\ h \in Hash /\ r.priority \in Priority /\ r.priority \in Nat
         /\ map_in_tuple[k][h] \in Seq(Rule)
         /\ k \in all_priority_tuples
         /\ priority_container[k][r.priority] > 0
         /\ UnlinksOne(k, h, r.priority, Deletion(map_in_tuple[k], r))
<1> DEFINE q     == r.priority
           chain == map_in_tuple[k][h]
           hits  == {i \in DOMAIN chain : chain[i].priority = q}
           X     == ChainPeers(k, h, q)
<1>1. k \in Key /\ h \in Hash /\ q \in Priority /\ q \in Nat /\ chain \in Seq(Rule)
  <2>1. k \in Key /\ h \in Hash /\ q \in Priority /\ q \in Nat
    BY RuleAssumption, HashAssumption DEF Key, Priority
  <2> QED BY <2>1 DEF TypeOK
<1>2. r \in X /\ r \in Peers(k, q) /\ X \in SUBSET Rule /\ Peers(k, q) \in SUBSET Rule
  BY DEF ChainPeers, Peers
<1>3. hits = Places(chain, X)
  <2>1. ASSUME NEW i \in DOMAIN chain
        PROVE  chain[i].priority = q <=> chain[i] \in X
    <3>1. chain[i] \in Rule /\ chain[i] \in RulesOf(chain)
      BY <1>1 DEF RulesOf
    <3>2. KeyRulePrefix(chain[i]) = k /\ HashRule(chain[i]) = h
      BY <1>1, <3>1 DEF IndexInv, NodesPlaced
    <3> QED BY <3>1, <3>2 DEF ChainPeers, Peers
  <2> QED BY <2>1 DEF Places
<1>4. Cardinality(Copies(live, X)) > 0 /\ Cardinality(Copies(live, Peers(k, q))) > 0
  BY <1>2, CopiesPositive DEF TypeOK
<1>5. Cardinality(Places(chain, X)) > 0 /\ priority_container[k][q] > 0
  BY <1>1, <1>4 DEF IndexInv, ChainsCountCopies, ContainerCountsCopies
<1>6. hits # {} /\ IsFiniteSet(hits) /\ hits \in SUBSET Int
  <2> HIDE DEF hits, chain, X
  <2>1. IsFiniteSet(Places(chain, X)) /\ Places(chain, X) \subseteq 1 .. Len(chain)
    BY <1>1, PlacesFinite
  <2>2. Places(chain, X) # {}
    BY <1>5, FS_EmptySet
  <2> QED BY <1>3, <2>1, <2>2
<1>7. k \in all_priority_tuples
  BY <1>1, <1>5 DEF IndexInv, VectorListsTuples, Held
<1> DEFINE n == CHOOSE i \in hits : \A j \in hits : j <= i
<1>8. n \in hits
  <2>1. \E i \in hits : \A j \in hits : j <= i
    <3> HIDE DEF hits
    <3> QED BY <1>6, GreatestExists
  <2> HIDE DEF hits
  <2> QED BY <2>1
<1>9. n \in DOMAIN chain /\ chain[n] \in X
  BY <1>3, <1>8 DEF Places
<1>10. Deletion(map_in_tuple[k], r) = [map_in_tuple[k] EXCEPT ![h] = Unlinked(chain, n)]
  BY <1>6 DEF Deletion
<1> HIDE DEF n
<1>11. UnlinksOne(k, h, q, Deletion(map_in_tuple[k], r))
  BY <1>9, <1>10, Zenon DEF UnlinksOne
<1> QED BY <1>1, <1>5, <1>7, <1>11

\* So a delete never reaches the exit, and it unlinks one node.
LEMMA DeleteMap ==
  ASSUME TypeOK, IndexInv, NEW r \in Rule, DeleteRule(r)
  PROVE  /\ live[r] > 0 /\ live' = [live EXCEPT ![r] = @ - 1] /\ running' = running
         /\ ret' = Void
         /\ \A k \in Key, h \in Hash : map_in_tuple[k][h] \in Seq(Rule)
         /\ \E n \in DOMAIN map_in_tuple[KeyRulePrefix(r)][HashRule(r)] :
              /\ map_in_tuple[KeyRulePrefix(r)][HashRule(r)][n]
                   \in ChainPeers(KeyRulePrefix(r), HashRule(r), r.priority)
              /\ \A k \in Key, h \in Hash :
                   map_in_tuple'[k][h] =
                     IF k = KeyRulePrefix(r) /\ h = HashRule(r)
                       THEN Unlinked(map_in_tuple[k][h], n)
                       ELSE map_in_tuple[k][h]
         /\ \/ /\ map_in_tuple'[KeyRulePrefix(r)] # EmptyMap
               /\ DeleteFromTuple(KeyRulePrefix(r), r, map_in_tuple'[KeyRulePrefix(r)])
            \/ /\ map_in_tuple'[KeyRulePrefix(r)] = EmptyMap
               /\ DropTuple(KeyRulePrefix(r))
         /\ map_in_tuple' \in [Key -> [Hash -> Seq(Rule)]]
<1> DEFINE K   == KeyRulePrefix(r)
           H   == HashRule(r)
           map == Deletion(map_in_tuple[K], r)
<1>1. /\ live[r] > 0 /\ live' = [live EXCEPT ![r] = @ - 1] /\ ret' = Void
      /\ map_in_tuple \in [Key -> [Hash -> Seq(Rule)]]
      /\ \A k \in Key, h \in Hash : map_in_tuple[k][h] \in Seq(Rule)
  BY DEF DeleteRule, TypeOK
<1>2. K \in Key /\ H \in Hash /\ K \in all_priority_tuples
  BY <1>1, DeletionUnlinks
<1>3. PICK n \in DOMAIN map_in_tuple[K][H] :
        /\ map_in_tuple[K][H][n] \in ChainPeers(K, H, r.priority)
        /\ map = [map_in_tuple[K] EXCEPT ![H] = Unlinked(map_in_tuple[K][H], n)]
  <2>1. UnlinksOne(K, H, r.priority, Deletion(map_in_tuple[K], r))
    BY <1>1, DeletionUnlinks
  <2> QED BY <2>1, Zenon DEF UnlinksOne
<1>4. /\ running' = running
      /\ map_in_tuple' = [map_in_tuple EXCEPT ![K] = map]
      /\ \/ map # EmptyMap /\ DeleteFromTuple(K, r, map)
         \/ map = EmptyMap /\ DropTuple(K)
  BY <1>2 DEF DeleteRule, DeleteFromTuple, DropTuple
<1> HIDE DEF K, H, map
<1>5. map_in_tuple'[K] = map
  BY <1>1, <1>2, <1>4
<1>6. \A k \in Key, h \in Hash :
        map_in_tuple'[k][h] = IF k = K /\ h = H THEN Unlinked(map_in_tuple[k][h], n)
                                                ELSE map_in_tuple[k][h]
  BY <1>1, <1>2, <1>3, <1>4
<1>7. map_in_tuple' \in [Key -> [Hash -> Seq(Rule)]]
  <2>1. Unlinked(map_in_tuple[K][H], n) \in Seq(Rule)
    BY <1>1, <1>2, UnlinkedPlaces
  <2> QED BY <1>1, <1>2, <1>3, <1>4, <2>1
<1> QED BY <1>1, <1>3, <1>4, <1>5, <1>6, <1>7 DEF K, H

\* One node and one copy fewer, in the same place.
LEMMA DeleteCounts ==
  ASSUME TypeOK, IndexInv, NEW r \in Rule, DeleteRule(r)
  PROVE  NodesPlaced' /\ ChainsCountCopies'
<1> DEFINE K == KeyRulePrefix(r)
           H == HashRule(r)
<1>1. PICK n \in DOMAIN map_in_tuple[K][H] :
        /\ map_in_tuple[K][H][n] \in ChainPeers(K, H, r.priority)
        /\ \A k \in Key, h \in Hash :
             map_in_tuple'[k][h] = IF k = K /\ h = H THEN Unlinked(map_in_tuple[k][h], n)
                                                     ELSE map_in_tuple[k][h]
  BY DeleteMap
<1>2. /\ \A k \in Key, h \in Hash : map_in_tuple[k][h] \in Seq(Rule)
      /\ live[r] > 0 /\ live' = [live EXCEPT ![r] = @ - 1]
  BY DeleteMap
<1>3. NodesPlaced'
  <2> SUFFICES ASSUME NEW k \in Key, NEW h \in Hash, NEW s \in RulesOf(map_in_tuple'[k][h])
               PROVE  KeyRulePrefix(s) = k /\ HashRule(s) = h
    BY DEF NodesPlaced
  <2>1. s \in RulesOf(map_in_tuple[k][h])
    BY <1>1, <1>2, UnlinkedPlaces
  <2> QED BY <2>1 DEF IndexInv, NodesPlaced
<1>4. ChainsCountCopies'
  <2> SUFFICES ASSUME NEW k \in Key, NEW h \in Hash, NEW q \in Priority
               PROVE  Cardinality(Places(map_in_tuple'[k][h], ChainPeers(k, h, q)))
                        = Cardinality(Copies(live', ChainPeers(k, h, q)))
    BY DEF ChainsCountCopies
  <2> DEFINE X == ChainPeers(k, h, q)
             s == map_in_tuple[K][H][n]
  <2>1. X \in SUBSET Rule
    BY PeersAreRules
  <2>2. Cardinality(Copies(live', X)) = Cardinality(Copies(live, X)) - One(r \in X)
    <3> HIDE DEF X
    <3> QED BY <1>2, <2>1, CopiesAfterDelete
  <2>3. Cardinality(Places(map_in_tuple[k][h], X)) = Cardinality(Copies(live, X))
    BY DEF IndexInv, ChainsCountCopies
  <2>4. CASE k = K /\ h = H
    <3>1. Cardinality(Places(map_in_tuple'[k][h], X))
            = Cardinality(Places(map_in_tuple[k][h], X)) - One(s \in X)
      <4> HIDE DEF X, K, H
      <4> QED BY <1>1, <1>2, <2>4, UnlinkedPlaces
    <3>2. s \in X <=> r \in X
      BY <1>1, <2>4 DEF ChainPeers, Peers
    <3>3. One(s \in X) = One(r \in X)
      BY <3>2 DEF One
    <3> QED BY <2>2, <2>3, <3>1, <3>3
  <2>5. CASE ~(k = K /\ h = H)
    <3>1. r \notin X
      BY <2>5 DEF ChainPeers, Peers
    <3>2. Cardinality(Copies(live, X)) \in Nat
      BY <2>1, CopiesPositive DEF TypeOK
    <3>3. map_in_tuple'[k][h] = map_in_tuple[k][h]
      BY <1>1, <2>5
    <3> QED BY <2>2, <2>3, <3>1, <3>2, <3>3 DEF One
  <2> QED BY <2>4, <2>5
<1> QED BY <1>3, <1>4

\* The multiset of priorities keeps pace, also when the tuple is dropped: an
\* empty map means that no copy of any of its rules is left.
LEMMA DeleteContainer ==
  ASSUME TypeOK, IndexInv, NEW r \in Rule, DeleteRule(r)
  PROVE  /\ ContainerCountsCopies'
         /\ priority_container' \in [Key -> [Priority -> Nat]]
         /\ \A k \in Key, q \in Priority :
              priority_container'[k][q] = priority_container[k][q] - One(r \in Peers(k, q))
         /\ map_in_tuple'[KeyRulePrefix(r)] = EmptyMap
              <=> Held(priority_container'[KeyRulePrefix(r)]) = {}
<1> DEFINE K == KeyRulePrefix(r)
<1>1. /\ live[r] > 0 /\ live' = [live EXCEPT ![r] = @ - 1] /\ live \in [Rule -> Nat]
      /\ priority_container \in [Key -> [Priority -> Nat]]
      /\ K \in Key /\ HashRule(r) \in Hash /\ r.priority \in Priority
      /\ priority_container[K][r.priority] > 0
      /\ map_in_tuple' \in [Key -> [Hash -> Seq(Rule)]]
  <2>1. live[r] > 0
    BY DEF DeleteRule
  <2>2. K \in Key /\ HashRule(r) \in Hash /\ r.priority \in Priority /\ priority_container[K][r.priority] > 0
    BY <2>1, DeletionUnlinks
  <2> QED BY <2>1, <2>2, DeleteMap DEF TypeOK
<1>2. ASSUME NEW k \in Key, NEW q \in Priority
      PROVE  /\ Cardinality(Copies(live', Peers(k, q)))
                  = priority_container[k][q] - One(r \in Peers(k, q))
             /\ Cardinality(Copies(live', Peers(k, q))) \in Nat
  <2>1. Cardinality(Copies(live', Peers(k, q))) = Cardinality(Copies(live, Peers(k, q))) - One(r \in Peers(k, q))
    BY <1>1, CopiesAfterDelete, PeersAreRules
  <2>2. Cardinality(Copies(live, Peers(k, q))) = priority_container[k][q]
    BY DEF IndexInv, ContainerCountsCopies
  <2>3. r \in Peers(k, q) => priority_container[k][q] > 0
    BY <1>1 DEF Peers
  <2>4. priority_container[k][q] \in Nat
    BY <1>1
  <2> QED BY <2>1, <2>2, <2>3, <2>4 DEF One
<1>3. live' \in [Rule -> 0 .. MaxCopies]
  BY <1>1, CopiesAssumption DEF TypeOK
<1>4. map_in_tuple'[K] = EmptyMap <=> \A q \in Priority : Cardinality(Copies(live', Peers(K, q))) = 0
  <2>1. ASSUME NEW q \in Priority, Cardinality(Copies(live', Peers(K, q))) # 0
        PROVE  map_in_tuple'[K] # EmptyMap
    <3>1. PICK s \in Peers(K, q) : live'[s] > 0
      BY <1>2, <1>3, <2>1, CopiesPositive, PeersAreRules
    <3> DEFINE h == HashRule(s)
               X == ChainPeers(K, h, q)
    <3>2. s \in Rule /\ h \in Hash /\ s \in X /\ X \in SUBSET Rule
      BY HashAssumption DEF ChainPeers, Peers
    <3>3. Cardinality(Copies(live', X)) > 0
      <4> HIDE DEF X
      <4> QED BY <1>3, <3>1, <3>2, CopiesPositive
    <3>4. Cardinality(Places(map_in_tuple'[K][h], X)) > 0
      BY <1>1, <3>2, <3>3, DeleteCounts DEF ChainsCountCopies
    <3>5. Places(<< >>, X) = {}
      BY DEF Places
    <3>6. map_in_tuple'[K][h] # << >>
      BY <3>4, <3>5, FS_EmptySet
    <3> QED BY <3>2, <3>6 DEF EmptyMap
  <2>2. ASSUME map_in_tuple'[K] # EmptyMap
        PROVE  \E q \in Priority : Cardinality(Copies(live', Peers(K, q))) # 0
    <3>1. map_in_tuple'[K] \in [Hash -> Seq(Rule)]
      BY <1>1
    <3>2. PICK h \in Hash : map_in_tuple'[K][h] # << >>
      BY <2>2, <3>1 DEF EmptyMap
    <3> DEFINE chain == map_in_tuple'[K][h]
               s     == chain[1]
               q     == s.priority
               X     == ChainPeers(K, h, q)
    <3>3. chain \in Seq(Rule) /\ 1 \in DOMAIN chain /\ s \in Rule
      BY <3>1, <3>2
    <3>4. s \in X /\ q \in Priority /\ X \in SUBSET Rule /\ X \subseteq Peers(K, q)
      <4>1. s \in RulesOf(chain)
        BY <3>3 DEF RulesOf
      <4>2. KeyRulePrefix(s) = K /\ HashRule(s) = h
        BY <1>1, <4>1, DeleteCounts DEF NodesPlaced
      <4> QED BY <3>3, <4>2 DEF ChainPeers, Peers, Priority
    <3>5. Cardinality(Places(chain, X)) # 0
      <4>1. 1 \in Places(chain, X)
        BY <3>3, <3>4 DEF Places
      <4> HIDE DEF chain, X
      <4> QED BY <3>3, <4>1, PlacesFinite, FS_EmptySet
    <3>6. Cardinality(Copies(live', X)) # 0
      BY <1>1, <3>4, <3>5, DeleteCounts DEF ChainsCountCopies
    <3>7. PICK t \in X : live'[t] > 0
      <4> HIDE DEF X
      <4> QED BY <1>3, <3>4, <3>6, CopiesPositive
    <3>8. Cardinality(Copies(live', Peers(K, q))) > 0
      BY <1>3, <3>4, <3>7, CopiesPositive, PeersAreRules
    <3> QED BY <3>4, <3>8
  <2> QED BY <2>1, <2>2
<1>5. \A k \in Key, q \in Priority : priority_container'[k][q] = Cardinality(Copies(live', Peers(k, q)))
  <2> SUFFICES ASSUME NEW k \in Key, NEW q \in Priority
               PROVE  priority_container'[k][q] = Cardinality(Copies(live', Peers(k, q)))
    OBVIOUS
  <2>1. r \in Peers(k, q) <=> k = K /\ q = r.priority
    BY DEF Peers
  <2>2. CASE DeleteFromTuple(K, r, map_in_tuple'[K])
    <3>1. priority_container' =
            [priority_container EXCEPT ![K] = [priority_container[K] EXCEPT ![r.priority] = @ - 1]]
      BY <2>2 DEF DeleteFromTuple, Erased
    <3> HIDE DEF K
    <3>2. priority_container'[k][q] = IF k = K /\ q = r.priority
                                        THEN priority_container[k][q] - 1
                                        ELSE priority_container[k][q]
      BY <1>1, <3>1
    <3>3. priority_container[k][q] \in Nat
      BY <1>1
    <3> QED BY <1>2, <2>1, <3>2, <3>3 DEF One
  <2>3. CASE map_in_tuple'[K] = EmptyMap /\ DropTuple(K)
    <3>1. priority_container' = [priority_container EXCEPT ![K] = EmptyContainer]
      BY <2>3 DEF DropTuple
    <3>2. CASE k = K
      <4>1. priority_container'[k][q] = 0
        BY <1>1, <3>1, <3>2 DEF EmptyContainer
      <4>2. Cardinality(Copies(live', Peers(k, q))) = 0
        BY <1>4, <2>3, <3>2
      <4> QED BY <4>1, <4>2
    <3>3. CASE k # K
      <4>1. priority_container'[k][q] = priority_container[k][q] /\ priority_container[k][q] \in Nat
        BY <1>1, <3>1, <3>3
      <4> QED BY <1>2, <2>1, <3>3, <4>1 DEF One
    <3> QED BY <3>2, <3>3
  <2> QED BY <2>2, <2>3, DeleteMap
<1>6. ContainerCountsCopies'
  BY <1>5 DEF ContainerCountsCopies
<1>7. priority_container' \in [Key -> [Priority -> Nat]]
  <2>1. CASE DeleteFromTuple(K, r, map_in_tuple'[K])
    <3>1. priority_container' =
            [priority_container EXCEPT ![K] = [priority_container[K] EXCEPT ![r.priority] = @ - 1]]
      BY <2>1 DEF DeleteFromTuple, Erased
    <3>2. priority_container[K][r.priority] - 1 \in Nat
      BY <1>1
    <3> HIDE DEF K
    <3> QED BY <1>1, <3>1, <3>2
  <2>2. CASE DropTuple(K)
    BY <1>1, <2>2 DEF DropTuple, EmptyContainer
  <2> QED BY <2>1, <2>2, DeleteMap
<1>8. Held(priority_container'[K]) = {} <=> \A q \in Priority : Cardinality(Copies(live', Peers(K, q))) = 0
  <2>1. ASSUME NEW q \in Priority
        PROVE  priority_container'[K][q] > 0 <=> Cardinality(Copies(live', Peers(K, q))) # 0
    <3> DEFINE m == Cardinality(Copies(live', Peers(K, q)))
    <3>1. m \in Nat /\ priority_container'[K][q] = m
      BY <1>1, <1>2, <1>5
    <3> HIDE DEF m
    <3>2. priority_container'[K][q] > 0 <=> m # 0
      BY <3>1
    <3> QED BY <3>2 DEF m
  <2> QED BY <2>1 DEF Held
<1> QED BY <1>2, <1>4, <1>5, <1>6, <1>7, <1>8

\* The cached greatest priority after a delete, and the vector.
LEMMA DeleteGreatest ==
  ASSUME TypeOK, IndexInv, NEW r \in Rule, DeleteRule(r), NEW k \in Key
  PROVE  /\ maxPriority'[k] = Highest(Held(priority_container'[k]))
         /\ maxPriority' \in [Key -> Priority \cup {-1}]
<1> DEFINE K   == KeyRulePrefix(r)
           q   == r.priority
           old == Held(priority_container[K])
           new == Held(priority_container'[K])
<1>1. /\ K \in Key /\ q \in Priority /\ q \in Nat /\ q \in old
      /\ maxPriority \in [Key -> Priority \cup {-1}]
      /\ priority_container \in [Key -> [Priority -> Nat]]
      /\ \A j \in Key : maxPriority[j] = Highest(Held(priority_container[j]))
  <2>1. live[r] > 0
    BY DEF DeleteRule
  <2>2. K \in Key /\ q \in Priority /\ q \in Nat /\ priority_container[K][q] > 0
    BY <2>1, DeletionUnlinks
  <2> QED BY <2>2 DEF TypeOK, IndexInv, MaxPriorityExact, Held
<1>2. /\ new \subseteq old
      /\ \A x \in old : x # q => x \in new
      /\ \A j \in Key \ {K} : Held(priority_container'[j]) = Held(priority_container[j])
  <2>1. ASSUME NEW j \in Key, NEW x \in Priority
        PROVE  /\ priority_container[j][x] \in Nat
               /\ priority_container'[j][x] = IF j = K /\ x = q THEN priority_container[j][x] - 1
                                                                ELSE priority_container[j][x]
    <3>1. r \in Peers(j, x) <=> j = K /\ x = q
      BY DEF Peers
    <3>2. priority_container[j][x] \in Nat
      BY <1>1
    <3> QED BY <3>1, <3>2, DeleteContainer DEF One
  <2> HIDE DEF K, q
  <2> QED BY <1>1, <2>1 DEF Held
<1>3. /\ new \in SUBSET Priority /\ IsFiniteSet(new) /\ new \in SUBSET Int
      /\ old \in SUBSET Priority /\ IsFiniteSet(old) /\ old \in SUBSET Int
  <2>1. new \in SUBSET Priority /\ old \in SUBSET Priority
    BY DEF Held
  <2> HIDE DEF new, old
  <2> QED BY <2>1, PrioritiesFinite
<1>4. \A j \in Key \ {K} : maxPriority'[j] = maxPriority[j]
  BY <1>1, DeleteMap DEF DeleteFromTuple, DropTuple
<1>5. Highest(new) \in Priority \cup {-1}
  <2> HIDE DEF new
  <2> QED BY <1>3, HighestIsGreatest
<1>6. maxPriority'[K] = Highest(new)
  <2>1. CASE DropTuple(K) /\ map_in_tuple'[K] = EmptyMap
    <3>1. new = {}
      BY <2>1, DeleteContainer
    <3>2. Highest({}) = -1
      BY DEF Highest
    <3>3. maxPriority'[K] = -1
      BY <1>1, <2>1 DEF DropTuple
    <3> QED BY <3>1, <3>2, <3>3
  <2>2. CASE DeleteFromTuple(K, r, map_in_tuple'[K])
    <3> DEFINE rest == Erased(priority_container[K], q)
    <3>1. rest = priority_container'[K]
      BY <1>1, <2>2 DEF DeleteFromTuple
    <3>2. \/ maxPriority'[K] = Highest(new)
          \/ new # {} /\ q # maxPriority[K] /\ maxPriority'[K] = maxPriority[K]
      BY <1>1, <2>2, <3>1 DEF DeleteFromTuple
    <3>3. ASSUME new # {}, q # maxPriority[K]
          PROVE  Highest(new) = maxPriority[K]
      <4> DEFINE m == maxPriority[K]
      <4>1. m = Highest(old)
        BY <1>1
      <4>2. m \in old \cup {-1} /\ \A y \in old \cup {-1} : y <= m
        <5> HIDE DEF old, m
        <5> QED BY <1>3, <4>1, HighestIsGreatest
      <4>3. m \in old /\ m # q
        <5>1. m # -1
          <6> HIDE DEF old, m
          <6> QED BY <1>1, <4>2
        <5> QED BY <3>3, <4>2, <5>1
      <4>4. m \in new
        BY <1>2, <4>3
      <4> HIDE DEF old, new, m
      <4>5. \A y \in new \cup {-1} : y <= m
        BY <1>2, <4>2
      <4>6. Highest(new) = m
        BY <1>3, <4>4, <4>5, HighestIs
      <4> QED BY <4>6 DEF m
    <3> QED BY <3>2, <3>3
  <2> QED BY <2>1, <2>2, DeleteMap
<1>7. maxPriority'[k] = Highest(Held(priority_container'[k]))
  BY <1>1, <1>2, <1>4, <1>6
<1>8. maxPriority' \in [Key -> Priority \cup {-1}]
  <2>1. maxPriority' = [maxPriority EXCEPT ![K] = Highest(new)]
    <3>1. \/ maxPriority' = [maxPriority EXCEPT ![K] = maxPriority'[K]]
          \/ maxPriority' = maxPriority
      BY <1>1, DeleteMap DEF DeleteFromTuple, DropTuple
    <3> HIDE DEF K, new
    <3> QED BY <1>1, <1>6, <3>1
  <2> HIDE DEF K, new
  <2> QED BY <1>1, <1>5, <2>1
<1> QED BY <1>7, <1>8

LEMMA DeleteVector ==
  ASSUME TypeOK, IndexInv, NEW r \in Rule, DeleteRule(r)
  PROVE  /\ priority_tuples_vector' \in Seq(Key)
         /\ all_priority_tuples' \in SUBSET Key
         /\ VectorListsTuples'
         /\ VectorSorted'
<1> DEFINE K == KeyRulePrefix(r)
           v == priority_tuples_vector
           A == all_priority_tuples'
           M == maxPriority'
           new == Held(priority_container'[K])
<1>1. /\ K \in Key /\ K \in all_priority_tuples /\ all_priority_tuples \in SUBSET Key
      /\ all_priority_tuples = {k \in Key : Held(priority_container[k]) # {}}
  <2>1. live[r] > 0
    BY DEF DeleteRule
  <2>2. K \in Key /\ K \in all_priority_tuples
    BY <2>1, DeletionUnlinks
  <2> QED BY <2>2 DEF TypeOK, IndexInv, VectorListsTuples
<1>2. A = IF map_in_tuple'[K] = EmptyMap THEN all_priority_tuples \ {K} ELSE all_priority_tuples
  BY DeleteMap DEF DeleteFromTuple, DropTuple
<1>3. A \in SUBSET Key
  BY <1>1, <1>2
<1>4. A = {k \in Key : Held(priority_container'[k]) # {}}
  <2>1. ASSUME NEW k \in Key
        PROVE  k \in A <=> Held(priority_container'[k]) # {}
    <3>1. CASE k = K
      <4>1. map_in_tuple'[K] = EmptyMap <=> new = {}
        BY DeleteContainer
      <4> QED BY <1>1, <1>2, <3>1, <4>1
    <3>2. CASE k # K
      <4>1. \A q \in Priority : priority_container'[k][q] = priority_container[k][q]
        <5>1. ASSUME NEW q \in Priority
              PROVE  priority_container'[k][q] = priority_container[k][q]
          <6>1. r \notin Peers(k, q) /\ priority_container[k][q] \in Nat
            BY <3>2 DEF Peers, TypeOK
          <6> QED BY <6>1, DeleteContainer DEF One
        <5> QED BY <5>1
      <4>2. Held(priority_container'[k]) = Held(priority_container[k])
        BY <4>1 DEF Held
      <4>3. k \in A <=> k \in all_priority_tuples
        BY <1>2, <3>2
      <4> QED BY <1>1, <4>2, <4>3
    <3> QED BY <3>1, <3>2
  <2> HIDE DEF A
  <2> QED BY <1>3, <2>1
<1>5. \/ RetainInvaraintOfPriorityVector(A, M)
      \/ v' = v /\ M = maxPriority /\ A = all_priority_tuples
  BY DeleteMap DEF DeleteFromTuple, DropTuple
<1>6. CASE RetainInvaraintOfPriorityVector(A, M)
  <2>1. /\ v' \in Seq(Key)
        /\ RulesOf(v') = A
        /\ \A i, j \in DOMAIN v' : v'[i] = v'[j] => i = j
        /\ \A i, j \in DOMAIN v' : i < j => M[v'[j]] <= M[v'[i]]
    <3> HIDE DEF A, M
    <3> QED BY <1>3, <1>6, Resorted
  <2> QED BY <1>3, <1>4, <2>1 DEF VectorListsTuples, VectorSorted
<1>7. CASE v' = v /\ M = maxPriority /\ A = all_priority_tuples
  BY <1>3, <1>4, <1>7 DEF TypeOK, IndexInv, VectorListsTuples, VectorSorted
<1> QED BY <1>5, <1>6, <1>7

\* With distinct priorities the node unlinked holds the rule given.
LEMMA DeleteHoldsLive ==
  ASSUME TypeOK, IndexInv, DistinctPriorities, NEW r \in Rule, DeleteRule(r)
  PROVE  ChainsHoldLive'
<1> DEFINE K == KeyRulePrefix(r)
           H == HashRule(r)
<1>1. /\ live[r] > 0 /\ live' = [live EXCEPT ![r] = @ - 1]
      /\ live \in [Rule -> Nat]
      /\ \A k \in Key, h \in Hash : map_in_tuple[k][h] \in Seq(Rule)
  BY DeleteMap DEF TypeOK
<1>2. K \in Key /\ H \in Hash
  BY <1>1, DeletionUnlinks
<1>3. PICK n \in DOMAIN map_in_tuple[K][H] :
        /\ map_in_tuple[K][H][n] \in ChainPeers(K, H, r.priority)
        /\ \A k \in Key, h \in Hash :
             map_in_tuple'[k][h] = IF k = K /\ h = H THEN Unlinked(map_in_tuple[k][h], n)
                                                     ELSE map_in_tuple[k][h]
  BY DeleteMap
<1>4. map_in_tuple[K][H][n] = r
  <2> DEFINE s == map_in_tuple[K][H][n]
  <2>1. s \in Rule /\ KeyRulePrefix(s) = K /\ HashRule(s) = H /\ s.priority = r.priority
    BY <1>3 DEF ChainPeers, Peers
  <2>2. Cardinality(Places(map_in_tuple[K][H], {s})) = live[s]
    BY <2>1 DEF IndexInv, ChainsHoldLive
  <2>3. n \in Places(map_in_tuple[K][H], {s})
    BY <1>3 DEF Places
  <2>4. live[s] # 0
    BY <1>1, <1>2, <2>2, <2>3, PlacesFinite, FS_EmptySet
  <2>5. s \in LiveRules /\ r \in LiveRules
    BY <1>1, <2>1, <2>4 DEF LiveRules
  <2> QED BY <2>1, <2>5 DEF IndexInv, ChainsHoldLive
<1>5. \A s, t \in LiveRules' : s.priority = t.priority => s = t
  <2>1. LiveRules' \subseteq LiveRules
    BY <1>1 DEF LiveRules
  <2> QED BY <2>1 DEF IndexInv, ChainsHoldLive
<1>6. ASSUME NEW s \in Rule
      PROVE  Cardinality(Places(map_in_tuple'[KeyRulePrefix(s)][HashRule(s)], {s})) = live'[s]
  <2> DEFINE k == KeyRulePrefix(s)
             h == HashRule(s)
  <2>1. k \in Key /\ h \in Hash
    BY HashAssumption DEF Key
  <2>2. Cardinality(Places(map_in_tuple[k][h], {s})) = live[s]
    BY DEF IndexInv, ChainsHoldLive
  <2>3. live'[s] = live[s] - One(r \in {s}) /\ live[s] \in Nat
    BY <1>1 DEF One
  <2>4. CASE k = K /\ h = H
    <3>1. Cardinality(Places(map_in_tuple'[k][h], {s}))
            = Cardinality(Places(map_in_tuple[k][h], {s})) - One(r \in {s})
      <4> HIDE DEF k, h, K, H
      <4> QED BY <1>1, <1>2, <1>3, <1>4, <2>4, UnlinkedPlaces
    <3> QED BY <2>2, <2>3, <3>1
  <2>5. CASE ~(k = K /\ h = H)
    <3>1. r \notin {s}
      BY <2>5
    <3>2. map_in_tuple'[k][h] = map_in_tuple[k][h]
      BY <1>3, <2>1, <2>5
    <3> QED BY <2>2, <2>3, <3>1, <3>2 DEF One
  <2> QED BY <2>4, <2>5
<1> QED BY <1>5, <1>6 DEF ChainsHoldLive

LEMMA DeleteStep ==
  ASSUME TypeOK, IndexInv, NEW r \in Rule, DeleteRule(r)
  PROVE  TypeOK' /\ IndexInv' /\ running' = running
<1>1. live' \in [Rule -> 0 .. MaxCopies]
  BY DeleteMap, CopiesAssumption DEF TypeOK
<1>2. maxPriority' \in [Key -> Priority \cup {-1}]
  <2>1. KeyRulePrefix(r) \in Key
    BY DEF Key
  <2> QED BY <2>1, DeleteGreatest
<1>3. MaxPriorityExact'
  BY DeleteGreatest DEF MaxPriorityExact
<1>4. TypeOK'
  BY <1>1, <1>2, DeleteMap, DeleteContainer, DeleteVector DEF TypeOK
<1>5. (DistinctPriorities => ChainsHoldLive)'
  BY DeleteHoldsLive
<1> QED BY <1>3, <1>4, <1>5, DeleteMap, DeleteCounts, DeleteContainer, DeleteVector DEF IndexInv

-----------------------------------------------------------------------------
(***************************************************************************)
(* The inductive invariant.                                                *)
(***************************************************************************)

Inv == TypeOK /\ IndexInv /\ NeverExits

LEMMA InitInv == Init => Inv
<1> SUFFICES ASSUME Init
             PROVE  Inv
  OBVIOUS
<1>1. /\ live = [r \in Rule |-> 0] /\ ret = Void /\ running = TRUE
      /\ all_priority_tuples = {} /\ priority_tuples_vector = << >>
      /\ map_in_tuple = [k \in Key |-> EmptyMap]
      /\ priority_container = [k \in Key |-> EmptyContainer]
      /\ maxPriority = [k \in Key |-> -1]
  BY DEF Init
<1>2. TypeOK
  <2>1. EmptyMap \in [Hash -> Seq(Rule)] /\ EmptyContainer \in [Priority -> Nat]
    BY DEF EmptyMap, EmptyContainer
  <2> QED BY <1>1, <2>1, CopiesAssumption DEF TypeOK
<1>3. \A k \in Key, h \in Hash : map_in_tuple[k][h] = << >>
  BY <1>1 DEF EmptyMap
<1>4. /\ \A X : Places(<< >>, X) = {}
      /\ \A X \in SUBSET Rule : Cardinality(Copies(live, X)) = 0
      /\ Cardinality({}) = 0
  <2>1. \A X \in SUBSET Rule : Copies(live, X) = {}
    BY <1>1 DEF Copies
  <2> QED BY <2>1, FS_EmptySet DEF Places
<1>5. \A k \in Key : Held(priority_container[k]) = {}
  BY <1>1 DEF Held, EmptyContainer
<1>6. NodesPlaced
  BY <1>3 DEF NodesPlaced, RulesOf
<1>7. ChainsCountCopies /\ ContainerCountsCopies
  BY <1>1, <1>3, <1>4, PeersAreRules DEF ChainsCountCopies, ContainerCountsCopies, EmptyContainer
<1>8. MaxPriorityExact
  BY <1>1, <1>5 DEF MaxPriorityExact, Highest
<1>9. VectorListsTuples /\ VectorSorted
  BY <1>1, <1>5 DEF VectorListsTuples, VectorSorted, RulesOf
<1>10. ChainsHoldLive
  <2>1. ASSUME NEW r \in Rule
        PROVE  Cardinality(Places(map_in_tuple[KeyRulePrefix(r)][HashRule(r)], {r})) = live[r]
    <3>1. KeyRulePrefix(r) \in Key /\ HashRule(r) \in Hash
      BY HashAssumption DEF Key
    <3> QED BY <1>1, <1>3, <1>4, <3>1
  <2>2. LiveRules = {}
    BY <1>1 DEF LiveRules
  <2> QED BY <2>1, <2>2 DEF ChainsHoldLive
<1> QED BY <1>1, <1>2, <1>6, <1>7, <1>8, <1>9, <1>10 DEF Inv, IndexInv, NeverExits

LEMMA NextInv == Inv /\ [Next]_vars => Inv'
<1> SUFFICES ASSUME Inv, [Next]_vars
             PROVE  Inv'
  OBVIOUS
<1>1. TypeOK /\ IndexInv /\ running
  BY DEF Inv, NeverExits
<1>2. ASSUME NEW r \in Rule, InsertRule(r)
      PROVE  Inv'
  <2>1. running' = running
    BY <1>2 DEF InsertRule
  <2> QED BY <1>1, <1>2, <2>1, InsertStep DEF Inv, NeverExits
<1>3. ASSUME NEW r \in Rule, DeleteRule(r)
      PROVE  Inv'
  BY <1>1, <1>3, DeleteStep DEF Inv, NeverExits
<1>4. ASSUME NEW p \in Packet, ClassifyAPacket(p)
      PROVE  Inv'
  <2>1. ret' \in {Void} \cup (Packet \X (Priority \cup {-1}))
    BY <1>1, <1>4, LookupIsScan, NodesAreRules, ScanIsGreatest DEF ClassifyAPacket
  <2>2. UNCHANGED <<live, running, tupleVars>>
    BY <1>4 DEF ClassifyAPacket
  <2>3. TypeOK'
    BY <1>1, <2>1, <2>2 DEF TypeOK, tupleVars
  <2>4. IndexInv'
    BY <1>1, <2>2 DEF tupleVars, IndexInv, NodesPlaced, ChainsCountCopies, ContainerCountsCopies,
       MaxPriorityExact, VectorListsTuples, VectorSorted, ChainsHoldLive, LiveRules
  <2> QED BY <1>1, <2>2, <2>3, <2>4 DEF Inv, NeverExits
<1>5. CASE UNCHANGED vars
  <2>1. UNCHANGED <<live, ret, running, tupleVars>>
    BY <1>5 DEF vars
  <2>2. TypeOK'
    BY <1>1, <2>1 DEF TypeOK, tupleVars
  <2>3. IndexInv'
    BY <1>1, <2>1 DEF tupleVars, IndexInv, NodesPlaced, ChainsCountCopies, ContainerCountsCopies,
       MaxPriorityExact, VectorListsTuples, VectorSorted, ChainsHoldLive, LiveRules
  <2> QED BY <1>1, <2>1, <2>2, <2>3 DEF Inv, NeverExits
<1>6. CASE Next
  <2>1. \/ \E r \in Rule : InsertRule(r)
        \/ \E r \in Rule : DeleteRule(r)
        \/ \E p \in Packet : ClassifyAPacket(p)
    BY <1>6 DEF Next
  <2> QED BY <1>2, <1>3, <1>4, <2>1
<1> QED BY <1>5, <1>6

-----------------------------------------------------------------------------
(***************************************************************************)
(* Theorems.                                                               *)
(***************************************************************************)

LEMMA InvHolds == Spec => []Inv
BY InitInv, NextInv, PTL DEF Spec

\* Every variable keeps its type.
THEOREM TypeCorrect == Spec => []TypeOK
<1>1. Inv => TypeOK
  BY DEF Inv
<1> QED BY <1>1, InvHolds, PTL

\* The index never disagrees with what was inserted and deleted, also when
\* rules have equal priorities: chains, priority counts, cached greatest
\* priorities and the order of the vector.
THEOREM IndexCorrect == Spec => []IndexInv
<1>1. Inv => IndexInv
  BY DEF Inv
<1> QED BY <1>1, InvHolds, PTL

\* A client that deletes only what it has inserted never runs into the exit(0)
\* of DeleteRule.
THEOREM DeleteNeverExits == Spec => []NeverExits
<1>1. Inv => NeverExits
  BY DEF Inv
<1> QED BY <1>1, InvHolds, PTL

\* The early exit of a lookup and the hashing of the packet never lose a match.
THEOREM PruningCorrect == Spec => []PruningLosesNothing
<1>1. Inv => PruningLosesNothing
  BY LookupIsScan DEF Inv, PruningLosesNothing
<1> QED BY <1>1, InvHolds, PTL

\* The rules stored are those inserted and not deleted.
LEMMA StoredAreLive ==
  ASSUME Inv, DistinctPriorities
  PROVE  StoredRules = LiveRules
<1>1. /\ TypeOK /\ IndexInv /\ ChainsHoldLive
      /\ \A k \in Key, h \in Hash : map_in_tuple[k][h] \in Seq(Rule)
      /\ live \in [Rule -> 0 .. MaxCopies]
  BY DEF Inv, IndexInv, TypeOK
<1>2. ASSUME NEW r \in Rule
      PROVE  r \in StoredRules <=> r \in LiveRules
  <2> DEFINE k == KeyRulePrefix(r)
             h == HashRule(r)
             P == Places(map_in_tuple[k][h], {r})
  <2>1. k \in Key /\ h \in Hash
    BY HashAssumption DEF Key
  <2>2. IsFiniteSet(P) /\ Cardinality(P) = live[r] /\ live[r] \in Nat
    <3>1. map_in_tuple[k][h] \in Seq(Rule)
      BY <1>1, <2>1
    <3>2. IsFiniteSet(P)
      <4> HIDE DEF k, h
      <4> QED BY <3>1, PlacesFinite
    <3>3. Cardinality(P) = live[r]
      BY <1>1 DEF ChainsHoldLive
    <3>4. live[r] \in Nat
      BY <1>1, CopiesAssumption
    <3> QED BY <3>2, <3>3, <3>4
  <2>3. P # {} <=> r \in LiveRules
    <3> HIDE DEF P
    <3> QED BY <2>2, FS_EmptySet DEF LiveRules
  <2>4. P # {} <=> r \in RulesOf(map_in_tuple[k][h])
    BY DEF Places, RulesOf
  <2>5. r \in RulesOf(map_in_tuple[k][h]) => r \in StoredRules
    BY <2>1 DEF StoredRules, RulesIn
  <2>6. r \in StoredRules => r \in RulesOf(map_in_tuple[k][h])
    <3> SUFFICES ASSUME r \in StoredRules
                 PROVE  r \in RulesOf(map_in_tuple[k][h])
      OBVIOUS
    <3>1. PICK j \in Key : r \in RulesIn(map_in_tuple[j])
      BY DEF StoredRules
    <3> QED BY <1>1, <3>1, StoredIsHeld
  <2> QED BY <2>3, <2>4, <2>5, <2>6
<1> QED BY <1>1, <1>2, NodesAreRules DEF LiveRules

\* While the client keeps priorities distinct, every lookup answers what a
\* scan of the rules inserted and not deleted would.
THEOREM LookupCorrect == Spec => []LookupIsLinearScan
<1>1. Inv => LookupIsLinearScan
  BY LookupIsScan, StoredAreLive DEF Inv, LookupIsLinearScan
<1> QED BY <1>1, InvHolds, PTL

\* And so the tuple space search implements the abstract classifier.
THEOREM Refinement ==
  ASSUME DistinctPriorities
  PROVE  Spec => ImplementsClassifier
<1>1. Init => Abstract!Init
  BY DEF Init, Abstract!Init
<1>2. Inv /\ [Next]_vars => [Abstract!Next]_<<live, ret>>
  <2> SUFFICES ASSUME Inv, [Next]_vars
               PROVE  [Abstract!Next]_<<live, ret>>
    OBVIOUS
  <2>1. ASSUME NEW r \in Rule, InsertRule(r)
        PROVE  Abstract!InsertRule(r)
    BY <2>1 DEF InsertRule, Abstract!InsertRule
  <2>2. ASSUME NEW r \in Rule, DeleteRule(r)
        PROVE  Abstract!DeleteRule(r)
    BY <2>2 DEF DeleteRule, Abstract!DeleteRule
  <2>3. ASSUME NEW p \in Packet, ClassifyAPacket(p)
        PROVE  Abstract!ClassifyAPacket(p)
    <3>1. Lookup(p) = LinearScanPriority(LiveRules, p)
      BY LookupIsScan, StoredAreLive DEF Inv
    <3>2. LinearScanPriority(LiveRules, p) = Abstract!LinearScanPriority(Abstract!LiveRules, p)
      BY DEF LinearScanPriority, Abstract!LinearScanPriority, MatchesPacket, Abstract!MatchesPacket,
         Highest, Abstract!Highest, LiveRules, Abstract!LiveRules
    <3> QED BY <2>3, <3>1, <3>2 DEF ClassifyAPacket, Abstract!ClassifyAPacket
  <2>4. CASE UNCHANGED vars
    BY <2>4 DEF vars
  <2> QED BY <2>1, <2>2, <2>3, <2>4 DEF Next, Abstract!Next
<1> QED BY <1>1, <1>2, InvHolds, PTL DEF Spec, ImplementsClassifier, Abstract!Spec
=============================================================================
