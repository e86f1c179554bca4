-------------------------- MODULE SubHybridProofs --------------------------
(***************************************************************************)
(* Proofs about the tree of HybridTSS: whatever Q-table it is built from   *)
(* and whatever is inserted and deleted then, updates and lookups come to  *)
(* the same leaves.                                                        *)
(***************************************************************************)
EXTENDS SubHybrid, RulesProofs

-----------------------------------------------------------------------------
(***************************************************************************)
(* The tree, as a value of its own: ns is what nodes may be.               *)
(***************************************************************************)

Key   == Nat \cup {Big}
Path  == Seq(Key)
State == [Dim -> -1 .. 15]

NodeType ==
  [fun : {"new", "linear", "TM", "Hash"}, state : State, rules : Seq(Rule), dim : Dim,
   bit : 0 .. 32, nHashBit : 0 .. 30, maxBigPriority : Priority \cup {-1}, reward : Int]

Tree(ns) == DOMAIN ns \subseteq Path /\ ns \in [DOMAIN ns -> NodeType]

HashAt(ns, n) == n \in DOMAIN ns /\ ns[n].fun = "Hash"

\* Place(r), in the tree ns.
PlaceIn(ns, r) ==
  FoldSet(LAMBDA d, n : IF n \in DOMAIN ns /\ ns[n].fun = "Hash"
                          THEN Append(n, Step(ns[n], r))
                          ELSE n,
          << >>, Dim)

\* The way of rule r comes through n, or ends there.
Routed(ns, r, n) ==
  /\ n \in Path
  /\ \A i \in 1 .. Len(n) : /\ HashAt(ns, SubSeq(n, 1, i - 1))
                            /\ n[i] = Step(ns[SubSeq(n, 1, i - 1)], r)

Ends(ns, r, n) == Routed(ns, r, n) /\ ~HashAt(ns, n)

Marked(state) == {d \in Dim : state[d] # -1}

\* NodesHang, with the root.
Hung(ns) ==
  /\ << >> \in DOMAIN ns /\ ns[<< >>].state = Unhashed
  /\ \A n \in DOMAIN ns \ {<< >>} :
       /\ HashAt(ns, Front(n))
       /\ Last(n) \in -1 .. 2^ns[Front(n)].nHashBit - 1
       /\ ns[n].state = ChildState(ns[Front(n)], Last(n))
       /\ Len(n) = Cardinality(Marked(ns[n].state))

\* A Hash node hashes a field that no node above it does, by bits it has.
Shaped(ns) ==
  \A n \in DOMAIN ns :
    /\ ns[n].fun = "Hash" => /\ ns[n].state[ns[n].dim] = -1
                             /\ \E o \in Op[ns[n].dim] : ns[n].bit = LeastBit[ns[n].dim] + o
    /\ ns[n].fun = "new" => ns[n].rules # << >>

QueuedIn(ns, q) ==
  /\ q \in Seq(DOMAIN ns)
  /\ Range(q) = {n \in DOMAIN ns : ns[n].fun = "new"}
  /\ IsInjective(q)

\* LeavesHoldLive.
Holds(ns, lv) ==
  \A n \in DOMAIN ns :
    /\ InDescendingOrder(ns[n].rules) /\ IsInjective(ns[n].rules)
    /\ ns[n].fun # "Hash" => Range(ns[n].rules) = {r \in lv : PlaceIn(ns, r) = n}
    /\ ns[n].fun = "Hash" => ns[n].rules = << >>

\* The rules that are nowhere are those a missing bigClassifier should hold.
Stored(ns, lv) ==
  \A r \in lv : PlaceIn(ns, r) \in DOMAIN ns \/ Last(PlaceIn(ns, r)) = Big

ServedIn(ns, r) ==
  \A i \in DOMAIN PlaceIn(ns, r) :
    LET above == SubSeq(PlaceIn(ns, r), 1, i - 1) IN
    PlaceIn(ns, r)[i] = Big => /\ Append(above, Big) \in DOMAIN ns
                               /\ r.priority <= ns[above].maxBigPriority

\* A row of the Q-table names a field that is free in its state.
Policy(pl) ==
  \A s \in DOMAIN pl :
    s \in State /\ \E d \in Dim : s[d] = -1 /\ \E o \in Op[d] : pl[s] = <<"Hash", d, o>>

\* The invariant.
Inv ==
  /\ Tree(nodes) /\ Hung(nodes) /\ Shaped(nodes)
  /\ QueuedIn(nodes, queue) /\ Policy(policy)
  /\ built \in SUBSET Rule /\ live \in SUBSET Rule
  /\ Holds(nodes, live) /\ Stored(nodes, live)
  /\ \A r \in built : ServedIn(nodes, r)
  /\ ~Ready => live = built

\* RewardIsCostBelow.
InTM(ns, r, n) ==
  /\ PlaceIn(ns, r) \in DOMAIN ns /\ ns[PlaceIn(ns, r)].fun = "TM" /\ IsPrefix(n, PlaceIn(ns, r))

Rewarded(ns, bt) ==
  \A n \in DOMAIN ns : ns[n].reward = -Cardinality({r \in bt : InTM(ns, r, n)})

-----------------------------------------------------------------------------
(***************************************************************************)
(* Fields, powers and keys.                                                *)
(***************************************************************************)

LEMMA DimIs ==
  /\ Dim = 1 .. Len(Width) /\ Len(Width) \in Nat /\ 1 \in Dim /\ Dim \subseteq Int
  /\ IsFiniteSet(Dim) /\ Cardinality(Dim) \in Nat
  /\ \A d \in Dim : Width[d] \in 1 .. 32
<1>1. Width \in Seq(1 .. 32) /\ Width # << >>
  BY SubHybridAssumption
<1>2. Dim = 1 .. Len(Width) /\ Len(Width) \in Nat /\ Len(Width) >= 1
  BY <1>1 DEF Dim
<1>3. IsFiniteSet(1 .. Len(Width))
  <2>1. 1 \in Int /\ Len(Width) \in Int
    BY <1>2
  <2> QED BY <2>1, FS_Interval
<1>4. Cardinality(Dim) \in Nat
  BY <1>2, <1>3, FS_CardinalityType
<1>5. /\ 1 \in Dim /\ Dim \subseteq Int
      /\ \A d \in Dim : Width[d] \in 1 .. 32
  <2>1. \A d \in 1 .. Len(Width) : Width[d] \in 1 .. 32
    <3>1. \A X : \A v \in Seq(X) : \A d \in 1 .. Len(v) : v[d] \in X
      OBVIOUS
    <3> QED BY <1>1, <3>1, Zenon
  <2>2. 1 \in 1 .. Len(Width) /\ 1 .. Len(Width) \subseteq Int
    BY <1>2
  <2> QED BY <1>2, <2>1, <2>2
<1> QED BY <1>2, <1>3, <1>4, <1>5

\* Not every field is marked while one is free.
LEMMA MarkedIs ==
  ASSUME NEW state
  PROVE  /\ IsFiniteSet(Marked(state)) /\ Cardinality(Marked(state)) \in Nat
         /\ Cardinality(Marked(state)) <= Cardinality(Dim)
         /\ (\E d \in Dim : state[d] = -1) => Cardinality(Marked(state)) < Cardinality(Dim)
<1>1. IsFiniteSet(Dim) /\ Cardinality(Dim) \in Nat /\ Marked(state) \subseteq Dim
  BY DimIs DEF Marked
<1>2. /\ IsFiniteSet(Marked(state)) /\ Cardinality(Marked(state)) \in Nat
      /\ Cardinality(Marked(state)) <= Cardinality(Dim)
  BY <1>1, FS_Subset, FS_CardinalityType
<1>3. ASSUME NEW d \in Dim, state[d] = -1
      PROVE  Cardinality(Marked(state)) # Cardinality(Dim)
  <2>1. d \notin Marked(state)
    BY <1>3 DEF Marked
  <2>2. Marked(state) # Dim
    BY <2>1
  <2> QED BY <1>1, <2>2, FS_Subset
<1> QED BY <1>1, <1>2, <1>3

LEMMA PowersAre ==
  /\ \A n \in 0 .. 30 : 2^n \in Nat /\ 2^n >= 1
  /\ \A n \in 0 .. 29 : 2^(n + 1) = 2 * 2^n
<1> DEFINE P == {n \in Nat : n <= 30 => (2^n \in Nat /\ 2^n >= 1)}
<1>1. 0 \in P
  BY PowersAssumption
<1>2. ASSUME NEW n \in Nat, n \in P
      PROVE  n + 1 \in P
  <2>1. CASE n + 1 <= 30
    <3>1. n \in 0 .. 29
      BY <2>1
    <3>2. 2^(n + 1) = 2 * 2^n
      BY <3>1, PowersAssumption
    <3>3. 2^n \in Nat /\ 2^n >= 1
      BY <1>2, <2>1
    <3> QED BY <3>2, <3>3
  <2> QED BY <2>1
<1>3. \A n \in Nat : n \in P
  <2> HIDE DEF P
  <2> QED BY <1>1, <1>2, NatInduct
<1> QED BY <1>3, PowersAssumption

\* Bits of weight up to 2^n, each 0 or 1, add up to less than 2^n.
LEMMA BitsBelowPower ==
  ASSUME NEW n \in 0 .. 30, NEW bits, \A i \in 0 .. n - 1 : bits[i] \in 0 .. 1
  PROVE  SumFunction([i \in 0 .. n - 1 |-> 2^i * bits[i]]) \in 0 .. 2^n - 1
<1> DEFINE f    == [i \in 0 .. n - 1 |-> 2^i * bits[i]]
           s(m) == SumFunctionOnSet(f, 0 .. m - 1)
           P    == {m \in Nat : m <= n => (s(m) \in Nat /\ s(m) <= 2^m - 1)}
<1>1. \A i \in 0 .. n - 1 : f[i] \in Nat /\ f[i] <= 2^i
  <2> SUFFICES ASSUME NEW i \in 0 .. n - 1
               PROVE  2^i * bits[i] \in Nat /\ 2^i * bits[i] <= 2^i
    OBVIOUS
  <2>0. i \in 0 .. 30
    OBVIOUS
  <2>1. 2^i \in Nat
    BY <2>0, PowersAre
  <2>2. bits[i] = 0 \/ bits[i] = 1
    OBVIOUS
  <2> QED BY <2>1, <2>2
<1>2. ASSUME NEW m \in Nat, m <= n
      PROVE  IsFiniteSet(0 .. m - 1) /\ \A i \in 0 .. m - 1 : f[i] \in Nat
  <2>1. 0 \in Int /\ m - 1 \in Int
    OBVIOUS
  <2>2. IsFiniteSet(0 .. m - 1)
    BY <2>1, FS_Interval
  <2>3. \A i \in 0 .. m - 1 : i \in 0 .. n - 1
    BY <1>2
  <2> HIDE DEF f
  <2> QED BY <1>1, <2>2, <2>3
<1>3. 0 \in P
  <2>1. 0 .. 0 - 1 = {}
    OBVIOUS
  <2>2. s(0) = 0
    BY <1>2, <2>1, SumStep
  <2> QED BY <2>2, PowersAssumption
<1>4. ASSUME NEW m \in Nat, m \in P
      PROVE  m + 1 \in P
  <2>1. CASE m + 1 <= n
    <3>1. m \in 0 .. (m + 1) - 1 /\ (0 .. (m + 1) - 1) \ {m} = 0 .. m - 1 /\ m \in 0 .. n - 1
      BY <2>1
    <3>2. IsFiniteSet(0 .. (m + 1) - 1) /\ \A i \in 0 .. (m + 1) - 1 : f[i] \in Nat
      <4>1. m + 1 \in Nat
        OBVIOUS
      <4> HIDE DEF f
      <4> QED BY <1>2, <2>1, <4>1
    <3>3. s(m + 1) = f[m] + s(m)
      <4> HIDE DEF f
      <4> QED BY <3>1, <3>2, SumSplit
    <3>4. s(m) \in Nat /\ s(m) <= 2^m - 1
      BY <1>4, <2>1
    <3>5. f[m] \in Nat /\ f[m] <= 2^m
      BY <1>1, <3>1
    <3>6. m \in 0 .. 29 /\ 2^(m + 1) = 2 * 2^m /\ 2^m \in Nat
      <4>1. m \in 0 .. 29 /\ m \in 0 .. 30
        BY <2>1
      <4> QED BY <4>1, PowersAre
    <3>7. s(m + 1) \in Nat /\ s(m + 1) <= 2^(m + 1) - 1
      <4> DEFINE a == s(m)
                 b == f[m]
                 c == s(m + 1)
                 e == 2^m
                 g == 2^(m + 1)
      <4> HIDE DEF a, b, c, e, g
      <4>1. c = b + a /\ a \in Nat /\ a <= e - 1 /\ b \in Nat /\ b <= e /\ g = 2 * e /\ e \in Nat
        BY <3>3, <3>4, <3>5, <3>6 DEF a, b, c, e, g
      <4>2. c \in Nat /\ c <= g - 1
        BY <4>1
      <4> QED BY <4>2 DEF c, g
    <3> QED BY <3>7
  <2> QED BY <2>1
<1>5. \A m \in Nat : m \in P
  <2> HIDE DEF P
  <2> QED BY <1>3, <1>4, NatInduct
<1>6. n \in Nat /\ n \in P
  BY <1>5
<1>7. SumFunction(f) = s(n)
  BY DEF SumFunction, SumFunctionOnSet, FoldFunction
<1>8. s(n) \in Nat /\ s(n) <= 2^n - 1 /\ 2^n \in Nat
  BY <1>6, PowersAre
<1> HIDE DEF s
<1> QED BY <1>7, <1>8

\* A key is a slot of the table.
LEMMA KeyInTable ==
  ASSUME NEW node \in NodeType, NEW x
  PROVE  getKey(node, x) \in 0 .. 2^node.nHashBit - 1
<1> DEFINE n      == node.nHashBit
           t      == x \div 2^(Width[node.dim] - node.bit)
           One(i) == {k \in 0 .. node.bit : (t \div 2^(i + k * (node.nHashBit - 1))) % 2 = 1}
           bits   == [i \in 0 .. n - 1 |-> Cardinality(One(i)) % 2]
<1>1. n \in 0 .. 30 /\ node.bit \in 0 .. 32
  BY DEF NodeType
<1>2. IsFiniteSet(0 .. node.bit)
  <2>1. 0 \in Int /\ node.bit \in Int
    BY <1>1
  <2> QED BY <2>1, FS_Interval
<1>3. ASSUME NEW i \in 0 .. n - 1
      PROVE  bits[i] \in 0 .. 1
  <2>1. One(i) \subseteq 0 .. node.bit
    OBVIOUS
  <2>2. Cardinality(One(i)) \in Nat
    <3> HIDE DEF One
    <3> QED BY <1>2, <2>1, FS_Subset, FS_CardinalityType
  <2> HIDE DEF One
  <2> QED BY <2>2
<1>4. getKey(node, x) = SumFunction([i \in 0 .. n - 1 |-> 2^i * bits[i]])
  <2>1. [i \in 0 .. n - 1 |-> 2^i * bits[i]] = [i \in 0 .. n - 1 |-> 2^i * (Cardinality(One(i)) % 2)]
    <3> HIDE DEF One
    <3> QED OBVIOUS
  <2> QED BY <2>1 DEF getKey
<1> HIDE DEF bits, n
<1>5. SumFunction([i \in 0 .. n - 1 |-> 2^i * bits[i]]) \in 0 .. 2^n - 1
  BY <1>1, <1>3, BitsBelowPower
<1> QED BY <1>4, <1>5 DEF n

\* A Hash node sends a rule to its bigClassifier or to a slot of its table.
LEMMA StepInTable ==
  ASSUME NEW node \in NodeType, NEW r
  PROVE  /\ Step(node, r) \in -1 .. 2^node.nHashBit - 1 /\ Step(node, r) \in Key
         /\ Step(node, r) = Big <=> r.prefix_length[node.dim] < node.bit
<1>1. getKey(node, r.range[node.dim][1]) \in 0 .. 2^node.nHashBit - 1
  BY KeyInTable
<1>2. 2^node.nHashBit \in Nat /\ 2^node.nHashBit >= 1
  BY PowersAre DEF NodeType
<1> QED BY <1>1, <1>2 DEF Step, Big, Key

-----------------------------------------------------------------------------
(***************************************************************************)
(* The lists of rules and of steps.                                        *)
(***************************************************************************)

\* A list in descending order, with each of its rules once.
Sound(list) == list \in Seq(Rule) /\ InDescendingOrder(list) /\ IsInjective(list)

LEMMA ListWithIs ==
  ASSUME NEW list, Sound(list), NEW r \in Rule, r \notin Range(list)
  PROVE  /\ Sound(InsertSortedByPriority(list, r))
         /\ Range(InsertSortedByPriority(list, r)) = Range(list) \cup {r}
<1> DEFINE n == Len(list)
           I == {i \in 1 .. n + 1 : i > n \/ list[i].priority <= r.priority}
           k == Min(I)
           w == InsertAt(list, k, r)
<1>1. list \in Seq(Rule) /\ n \in Nat /\ DOMAIN list = 1 .. n
  BY DEF Sound
<1>2. \A i \in 1 .. n : list[i].priority \in Nat
  BY <1>1, RuleAssumption
<1>3. k \in I /\ \A i \in I : k <= i
  <2>1. I \in SUBSET Nat /\ n + 1 \in I
    BY <1>1
  <2> HIDE DEF I
  <2> QED BY <2>1, MinIs
<1>4. k \in 1 .. n + 1 /\ (k <= n => list[k].priority <= r.priority)
  BY <1>1, <1>3
<1>5. \A i \in 1 .. n : i < k => list[i].priority > r.priority
  <2> SUFFICES ASSUME NEW i \in 1 .. n, i < k, ~(list[i].priority > r.priority)
               PROVE  FALSE
    OBVIOUS
  <2>1. list[i].priority <= r.priority
    BY <1>2, RuleAssumption
  <2>2. i \in I
    BY <1>1, <2>1
  <2> HIDE DEF I
  <2> QED BY <1>1, <1>3, <1>4, <2>2
<1>6. \A i, j \in 1 .. n : i <= j => list[j].priority <= list[i].priority
  BY <1>1, <1>2 DEF Sound, InDescendingOrder
<1>7. w = InsertSortedByPriority(list, r)
  BY DEF InsertSortedByPriority
<1> HIDE DEF I, k
<1>8. /\ w \in Seq(Rule) /\ Len(w) = n + 1
      /\ \A i \in 1 .. n + 1 : w[i] = IF i < k THEN list[i] ELSE IF i = k THEN r ELSE list[i - 1]
  BY <1>1, <1>4, InsertAtIs
<1> HIDE DEF w
<1>9. DOMAIN w = 1 .. n + 1
  BY <1>8
<1>10. ASSUME NEW i \in 1 .. n + 1, NEW j \in 1 .. n + 1, i < j
       PROVE  w[i] # w[j] /\ w[j].priority <= w[i].priority
  <2>1. \A a \in 1 .. n : list[a] # r /\ list[a].priority \in Nat
    BY <1>1, <1>2 DEF Range
  <2>2. \A a, b \in 1 .. n : a # b => list[a] # list[b]
    BY <1>1 DEF Sound, IsInjective
  <2>3. CASE j < k
    <3>1. i < k /\ i \in 1 .. n /\ j \in 1 .. n /\ i # j /\ i <= j
      BY <1>1, <1>4, <1>10, <2>3
    <3> QED BY <1>6, <1>8, <2>2, <2>3, <3>1
  <2>4. CASE j = k
    <3>1. i < k /\ i \in 1 .. n /\ ~(j < k)
      BY <1>1, <1>4, <1>10, <2>4
    <3>2. w[i] = list[i] /\ w[j] = r
      BY <1>8, <2>4, <3>1
    <3> QED BY <1>5, <2>1, <3>1, <3>2, RuleAssumption
  <2>5. CASE j > k
    <3>1. j - 1 \in 1 .. n /\ ~(j < k) /\ j # k
      BY <1>1, <1>4, <2>5
    <3>2. w[j] = list[j - 1]
      BY <1>8, <3>1
    <3>3. CASE i < k
      <4>1. i \in 1 .. n /\ i # j - 1 /\ i <= j - 1
        BY <1>1, <1>4, <2>5, <3>3
      <4> QED BY <1>6, <1>8, <2>2, <3>1, <3>2, <3>3, <4>1
    <3>4. CASE i = k
      <4>1. w[i] = r /\ k \in 1 .. n /\ k <= j - 1 /\ k <= n
        BY <1>1, <1>4, <1>8, <2>5, <3>4
      <4>2. list[k].priority <= r.priority /\ list[j - 1].priority <= list[k].priority
        BY <1>4, <1>6, <3>1, <4>1
      <4> QED BY <2>1, <3>1, <3>2, <4>1, <4>2, RuleAssumption
    <3>5. CASE i > k
      <4>1. i - 1 \in 1 .. n /\ i - 1 # j - 1 /\ i - 1 <= j - 1 /\ ~(i < k) /\ i # k
        BY <1>1, <1>4, <1>10, <3>5
      <4>2. w[i] = list[i - 1]
        BY <1>8, <4>1
      <4> QED BY <1>6, <2>2, <3>1, <3>2, <4>1, <4>2
    <3> QED BY <1>4, <3>3, <3>4, <3>5
  <2> QED BY <1>4, <2>3, <2>4, <2>5
<1>11. Sound(w)
  <2>1. InDescendingOrder(w)
    BY <1>9, <1>10 DEF InDescendingOrder
  <2>2. IsInjective(w)
    <3> SUFFICES ASSUME NEW i \in 1 .. n + 1, NEW j \in 1 .. n + 1, w[i] = w[j], i # j
                 PROVE  FALSE
      BY <1>9 DEF IsInjective
    <3>1. i < j \/ j < i
      OBVIOUS
    <3> QED BY <1>10, <3>1
  <2> QED BY <1>8, <2>1, <2>2 DEF Sound
<1>12. Range(w) = Range(list) \cup {r}
  <2>1. ASSUME NEW x \in Range(w)
        PROVE  x \in Range(list) \cup {r}
    <3>1. PICK i \in 1 .. n + 1 : x = w[i]
      BY <1>9 DEF Range
    <3>2. (i < k => i \in 1 .. n) /\ (i > k => i - 1 \in 1 .. n) /\ (i < k \/ i = k \/ i > k)
      BY <1>1, <1>4
    <3> QED BY <1>1, <1>4, <1>8, <3>1, <3>2 DEF Range
  <2>2. ASSUME NEW x \in Range(list) \cup {r}
        PROVE  x \in Range(w)
    <3>1. CASE x = r
      <4>1. w[k] = r
        BY <1>1, <1>4, <1>8
      <4> QED BY <1>4, <1>9, <3>1, <4>1 DEF Range
    <3>2. CASE x \in Range(list)
      <4>1. PICK i \in 1 .. n : x = list[i]
        BY <1>1, <3>2 DEF Range
      <4>2. CASE i < k
        <5>1. i \in 1 .. n + 1 /\ w[i] = x
          BY <1>1, <1>8, <4>1, <4>2
        <5> QED BY <1>9, <5>1 DEF Range
      <4>3. CASE ~(i < k)
        <5>1. i + 1 \in 1 .. n + 1 /\ ~(i + 1 < k) /\ i + 1 # k /\ (i + 1) - 1 = i
          BY <1>1, <1>4, <4>3
        <5>2. w[i + 1] = x
          BY <1>8, <4>1, <5>1
        <5> QED BY <1>9, <5>1, <5>2 DEF Range
      <4> QED BY <4>2, <4>3
    <3> QED BY <2>2, <3>1, <3>2
  <2> QED BY <2>1, <2>2
<1> QED BY <1>7, <1>11, <1>12

LEMMA ListWithoutIs ==
  ASSUME NEW list, Sound(list), NEW r \in Rule
  PROVE  Sound(ListWithout(list, r)) /\ Range(ListWithout(list, r)) = Range(list) \ {r}
<1> DEFINE n == Len(list)
           I == {i \in DOMAIN list : list[i] \in {s \in Rule : s.priority = r.priority /\ s.id = r.id}}
           k == Min(I)
           w == RemoveAt(list, k)
<1>1. list \in Seq(Rule) /\ n \in Nat /\ DOMAIN list = 1 .. n /\ \A i \in 1 .. n : list[i] \in Rule
  BY DEF Sound
<1>2. \A i \in 1 .. n : i \in I <=> list[i] = r
  BY <1>1, SubHybridAssumption
<1>3. ListWithout(list, r) = IF I = {} THEN list ELSE w
  BY DEF ListWithout, RemoveFirstOf
<1>4. CASE I = {}
  <2>1. r \notin Range(list)
    BY <1>1, <1>2, <1>4 DEF Range
  <2>2. Range(list) = Range(list) \ {r}
    BY <2>1
  <2> QED BY <1>3, <1>4, <2>2
<1>5. CASE I # {}
  <2>1. I \in SUBSET Nat
    BY <1>1
  <2>2. k \in I
    <3> HIDE DEF I
    <3> QED BY <1>5, <2>1, MinIs
  <2>3. k \in 1 .. n /\ list[k] = r
    BY <1>1, <1>2, <2>2
  <2> HIDE DEF k, I
  <2>4. /\ w \in Seq(Rule) /\ Len(w) = n - 1
        /\ \A i \in 1 .. n - 1 : w[i] = IF i < k THEN list[i] ELSE list[i + 1]
    BY <1>1, <2>3, RemoveAtIs
  <2> HIDE DEF w
  <2>5. DOMAIN w = 1 .. n - 1
    BY <1>1, <2>4
  <2>6. ASSUME NEW i \in 1 .. n - 1
        PROVE  \E a \in 1 .. n : w[i] = list[a] /\ a # k /\ a = IF i < k THEN i ELSE i + 1
    <3>1. CASE i < k
      <4>1. i \in 1 .. n /\ i # k /\ w[i] = list[i]
        BY <1>1, <2>3, <2>4, <3>1
      <4> QED BY <3>1, <4>1
    <3>2. CASE ~(i < k)
      <4>1. i + 1 \in 1 .. n /\ i + 1 # k /\ w[i] = list[i + 1]
        BY <1>1, <2>3, <2>4, <3>2
      <4> QED BY <3>2, <4>1
    <3> QED BY <3>1, <3>2
  <2>7. \A a, b \in 1 .. n : a < b => list[a] # list[b] /\ list[b].priority <= list[a].priority
    BY <1>1 DEF Sound, IsInjective, InDescendingOrder
  <2>8. ASSUME NEW i \in 1 .. n - 1, NEW j \in 1 .. n - 1, i < j
        PROVE  w[i] # w[j] /\ w[j].priority <= w[i].priority
    <3>1. PICK a \in 1 .. n : w[i] = list[a] /\ a = IF i < k THEN i ELSE i + 1
      BY <2>6
    <3>2. PICK b \in 1 .. n : w[j] = list[b] /\ b = IF j < k THEN j ELSE j + 1
      BY <2>6
    <3>3. a < b
      BY <1>1, <2>3, <2>8, <3>1, <3>2
    <3> QED BY <2>7, <3>1, <3>2, <3>3
  <2>9. Sound(w)
    <3>1. InDescendingOrder(w)
      BY <2>5, <2>8 DEF InDescendingOrder
    <3>2. IsInjective(w)
      <4> SUFFICES ASSUME NEW i \in 1 .. n - 1, NEW j \in 1 .. n - 1, w[i] = w[j], i # j
                   PROVE  FALSE
        BY <2>5 DEF IsInjective
      <4>1. i < j \/ j < i
        OBVIOUS
      <4> QED BY <2>8, <4>1
    <3> QED BY <2>4, <3>1, <3>2 DEF Sound
  <2>10. ASSUME NEW x \in Range(w)
         PROVE  x \in Range(list) \ {r}
    <3>1. PICK i \in 1 .. n - 1 : x = w[i]
      BY <2>5 DEF Range
    <3>2. PICK a \in 1 .. n : x = list[a] /\ a # k
      BY <2>6, <3>1
    <3>3. a < k \/ k < a
      BY <2>3, <3>2
    <3> QED BY <1>1, <2>3, <2>7, <3>2, <3>3 DEF Range
  <2>11. ASSUME NEW x \in Range(list), x # r
         PROVE  x \in Range(w)
    <3>1. PICK a \in 1 .. n : x = list[a]
      BY <1>1 DEF Range
    <3>2. a # k
      BY <2>3, <2>11, <3>1
    <3>3. CASE a < k
      <4>1. a \in 1 .. n - 1 /\ w[a] = x
        BY <1>1, <2>3, <2>4, <3>1, <3>3
      <4> QED BY <2>5, <4>1 DEF Range
    <3>4. CASE a > k
      <4>1. a - 1 \in 1 .. n - 1 /\ ~(a - 1 < k) /\ (a - 1) + 1 = a
        BY <1>1, <2>3, <3>4
      <4>2. w[a - 1] = x
        BY <2>4, <3>1, <4>1
      <4> QED BY <2>5, <4>1, <4>2 DEF Range
    <3> QED BY <2>3, <3>2, <3>3, <3>4
  <2> QED BY <1>3, <1>5, <2>9, <2>10, <2>11
<1> QED BY <1>4, <1>5

-----------------------------------------------------------------------------
(***************************************************************************)
(* The place of a rule is the one end of its way.                          *)
(***************************************************************************)

LEMMA BeginningOfAppend ==
  ASSUME NEW n \in Path, NEW x \in Key
  PROVE  /\ \A i \in 1 .. Len(n) + 1 : SubSeq(Append(n, x), 1, i - 1) = SubSeq(n, 1, i - 1)
         /\ SubSeq(n, 1, Len(n)) = n
<1> DEFINE w == Append(n, x)
<1>0. n \in Seq(Key) /\ Len(n) \in Nat
  BY DEF Path
<1>1. w \in Seq(Key) /\ Len(w) = Len(n) + 1 /\ \A i \in 1 .. Len(n) : w[i] = n[i]
  BY <1>0, AppendIs
<1> HIDE DEF w
<1>2. ASSUME NEW k \in 0 .. Len(n)
      PROVE  SubSeq(w, 1, k) = SubSeq(n, 1, k)
  <2> DEFINE a == SubSeq(w, 1, k)
             b == SubSeq(n, 1, k)
  <2>1. a \in Seq(Key) /\ Len(a) = k /\ \A i \in 1 .. k : a[i] = w[i]
    <3>1. k \in 0 .. Len(w)
      BY <1>0, <1>1
    <3> QED BY <1>1, <3>1, BeginningIs
  <2>2. b \in Seq(Key) /\ Len(b) = k /\ \A i \in 1 .. k : b[i] = n[i]
    BY <1>0, BeginningIs
  <2> HIDE DEF a, b
  <2>3. \A i \in 1 .. Len(a) : a[i] = b[i]
    BY <1>0, <1>1, <2>1, <2>2
  <2>4. a = b
    BY <2>1, <2>2, <2>3, SameList
  <2> QED BY <2>4 DEF a, b
<1>3. SubSeq(n, 1, Len(n)) = n
  <2> DEFINE b == SubSeq(n, 1, Len(n))
  <2>1. b \in Seq(Key) /\ Len(b) = Len(n) /\ \A i \in 1 .. Len(n) : b[i] = n[i]
    BY <1>0, BeginningIs
  <2> HIDE DEF b
  <2>2. b = n
    BY <1>0, <2>1, SameList
  <2> QED BY <2>2 DEF b
<1>4. ASSUME NEW i \in 1 .. Len(n) + 1
      PROVE  SubSeq(w, 1, i - 1) = SubSeq(n, 1, i - 1)
  <2>1. i - 1 \in 0 .. Len(n)
    BY <1>0
  <2> QED BY <1>2, <2>1
<1> QED BY <1>3, <1>4 DEF w

LEMMA ChildPath ==
  ASSUME NEW n \in Path, NEW x \in Key
  PROVE  /\ Append(n, x) \in Path /\ Append(n, x) # << >> /\ Len(Append(n, x)) = Len(n) + 1
         /\ Len(n) \in Nat /\ Front(Append(n, x)) = n /\ Last(Append(n, x)) = x
<1>1. n \in Seq(Key) /\ Len(n) \in Nat
  BY DEF Path
<1>2. /\ Append(n, x) \in Seq(Key) /\ Len(Append(n, x)) = Len(n) + 1
      /\ Last(Append(n, x)) = x /\ Front(Append(n, x)) = n
  BY <1>1, AppendIs
<1> QED BY <1>1, <1>2 DEF Path

\* The beginning of a beginning.
LEMMA BeginningTwice ==
  ASSUME NEW n \in Path, NEW k \in 0 .. Len(n)
  PROVE  /\ SubSeq(n, 1, k) \in Path /\ Len(SubSeq(n, 1, k)) = k
         /\ \A i \in 1 .. k : SubSeq(n, 1, k)[i] = n[i]
         /\ \A i \in 1 .. k : SubSeq(SubSeq(n, 1, k), 1, i - 1) = SubSeq(n, 1, i - 1)
<1>0. n \in Seq(Key) /\ Len(n) \in Nat
  BY DEF Path
<1> DEFINE m == SubSeq(n, 1, k)
<1>1. m \in Seq(Key) /\ Len(m) = k /\ \A i \in 1 .. k : m[i] = n[i]
  BY <1>0, BeginningIs
<1> HIDE DEF m
<1>2. ASSUME NEW i \in 1 .. k
      PROVE  SubSeq(m, 1, i - 1) = SubSeq(n, 1, i - 1)
  <2> DEFINE a == SubSeq(m, 1, i - 1)
             b == SubSeq(n, 1, i - 1)
  <2>1. i - 1 \in 0 .. Len(m) /\ i - 1 \in 0 .. Len(n)
    BY <1>0, <1>1
  <2>2. a \in Seq(Key) /\ Len(a) = i - 1 /\ \A j \in 1 .. i - 1 : a[j] = m[j]
    BY <1>1, <2>1, BeginningIs
  <2>3. b \in Seq(Key) /\ Len(b) = i - 1 /\ \A j \in 1 .. i - 1 : b[j] = n[j]
    BY <1>0, <2>1, BeginningIs
  <2> HIDE DEF a, b
  <2>4. \A j \in 1 .. Len(a) : a[j] = b[j]
    <3>1. \A j \in 1 .. i - 1 : j \in 1 .. k
      BY <1>0
    <3> QED BY <1>1, <2>2, <2>3, <3>1
  <2>5. a = b
    BY <2>2, <2>3, <2>4, SameList
  <2> QED BY <2>5 DEF a, b
<1> QED BY <1>1, <1>2 DEF m, Path

\* One step further.
Further(ns, r, n) ==
  IF n \in DOMAIN ns /\ ns[n].fun = "Hash" THEN Append(n, Step(ns[n], r)) ELSE n

LEMMA RoutedFurther ==
  ASSUME NEW ns, Tree(ns), NEW r, NEW n, Routed(ns, r, n), HashAt(ns, n)
  PROVE  /\ Step(ns[n], r) \in Key
         /\ Append(n, Step(ns[n], r)) \in Path
         /\ Len(Append(n, Step(ns[n], r))) = Len(n) + 1
         /\ Routed(ns, r, Append(n, Step(ns[n], r)))
<1> DEFINE x == Step(ns[n], r)
           w == Append(n, x)
<1>1. x \in Key /\ n \in Seq(Key) /\ n \in Path /\ Len(n) \in Nat
  <2>1. ns[n] \in NodeType
    BY DEF Tree, HashAt
  <2>2. n \in Path
    BY DEF Routed
  <2> QED BY <2>1, <2>2, StepInTable DEF Path
<1>2. w \in Seq(Key) /\ Len(w) = Len(n) + 1 /\ w[Len(n) + 1] = x /\ \A i \in 1 .. Len(n) : w[i] = n[i]
  <2> HIDE DEF x
  <2> QED BY <1>1, AppendIs
<1>3. /\ \A i \in 1 .. Len(n) + 1 : SubSeq(w, 1, i - 1) = SubSeq(n, 1, i - 1)
      /\ SubSeq(n, 1, Len(n)) = n
  <2> HIDE DEF x
  <2> QED BY <1>1, BeginningOfAppend
<1> HIDE DEF w
<1>4. ASSUME NEW i \in 1 .. Len(n) + 1
      PROVE  HashAt(ns, SubSeq(w, 1, i - 1)) /\ w[i] = Step(ns[SubSeq(w, 1, i - 1)], r)
  <2>1. SubSeq(w, 1, i - 1) = SubSeq(n, 1, i - 1)
    BY <1>3
  <2>2. CASE i = Len(n) + 1
    <3>1. i - 1 = Len(n)
      BY <1>1, <2>2
    <3>2. SubSeq(w, 1, i - 1) = n
      BY <1>3, <2>1, <3>1
    <3> QED BY <1>2, <2>2, <3>2
  <2>3. CASE i # Len(n) + 1
    <3>1. i \in 1 .. Len(n)
      BY <1>1, <2>3
    <3>2. HashAt(ns, SubSeq(n, 1, i - 1)) /\ n[i] = Step(ns[SubSeq(n, 1, i - 1)], r)
      BY <3>1 DEF Routed
    <3> QED BY <1>2, <2>1, <3>1, <3>2
  <2> QED BY <2>2, <2>3
<1>5. Routed(ns, r, w)
  BY <1>2, <1>4 DEF Routed, Path
<1> QED BY <1>1, <1>2, <1>5 DEF w, Path

\* A way that comes through a child comes from a Hash node.
LEMMA RoutedAbove ==
  ASSUME NEW ns, NEW r, NEW n \in Path, NEW x \in Key, Routed(ns, r, Append(n, x))
  PROVE  HashAt(ns, n) /\ x = Step(ns[n], r) /\ Routed(ns, r, n)
<1> DEFINE w == Append(n, x)
           k == Len(n)
<1>1. /\ k \in Nat /\ Len(w) = k + 1 /\ w[k + 1] = x /\ \A i \in 1 .. k : w[i] = n[i]
  BY AppendIs DEF Path
<1>2. /\ \A i \in 1 .. k + 1 : SubSeq(w, 1, i - 1) = SubSeq(n, 1, i - 1)
      /\ SubSeq(n, 1, k) = n
  BY BeginningOfAppend
<1>3. \A i \in 1 .. k + 1 : HashAt(ns, SubSeq(w, 1, i - 1)) /\ w[i] = Step(ns[SubSeq(w, 1, i - 1)], r)
  BY <1>1 DEF Routed
<1> HIDE DEF w, k
<1>4. k + 1 \in 1 .. k + 1 /\ (k + 1) - 1 = k /\ \A i \in 1 .. k : i \in 1 .. k + 1
  BY <1>1
<1>5. SubSeq(w, 1, (k + 1) - 1) = n
  BY <1>2, <1>4
<1>6. HashAt(ns, n) /\ x = Step(ns[n], r)
  BY <1>1, <1>3, <1>4, <1>5
<1>7. \A i \in 1 .. k : HashAt(ns, SubSeq(n, 1, i - 1)) /\ n[i] = Step(ns[SubSeq(n, 1, i - 1)], r)
  BY <1>1, <1>2, <1>3, <1>4
<1> QED BY <1>6, <1>7 DEF Routed, k

\* Up to the shorter one, two ways of a rule are the same.
LEMMA WaysAgree ==
  ASSUME NEW ns, NEW r, NEW n, NEW m, Routed(ns, r, n), Routed(ns, r, m)
  PROVE  \A k \in Nat : k <= Len(n) /\ k <= Len(m) => SubSeq(n, 1, k) = SubSeq(m, 1, k)
<1>1. n \in Path /\ m \in Path /\ n \in Seq(Key) /\ m \in Seq(Key) /\ Len(n) \in Nat /\ Len(m) \in Nat
  BY DEF Routed, Path
<1> DEFINE P == {k \in Nat : k <= Len(n) /\ k <= Len(m) => SubSeq(n, 1, k) = SubSeq(m, 1, k)}
<1>2. 0 \in P
  <2> DEFINE a == SubSeq(n, 1, 0)
             b == SubSeq(m, 1, 0)
  <2>1. a \in Seq(Key) /\ Len(a) = 0 /\ b \in Seq(Key) /\ Len(b) = 0
    BY <1>1, BeginningIs
  <2> HIDE DEF a, b
  <2>2. a = b
    BY <2>1
  <2> QED BY <2>2 DEF a, b
<1>3. ASSUME NEW k \in Nat, k \in P
      PROVE  k + 1 \in P
  <2>1. CASE k + 1 <= Len(n) /\ k + 1 <= Len(m)
    <3>1. /\ k + 1 \in 1 .. Len(n) /\ k + 1 \in 1 .. Len(m) /\ (k + 1) - 1 = k
          /\ k <= Len(n) /\ k <= Len(m)
          /\ k + 1 \in 0 .. Len(n) /\ k + 1 \in 0 .. Len(m)
          /\ k \in 0 .. Len(n) /\ k \in 0 .. Len(m)
      BY <1>1, <2>1
    <3>2. SubSeq(n, 1, k) = SubSeq(m, 1, k)
      BY <1>3, <3>1
    <3>3. n[k + 1] = Step(ns[SubSeq(n, 1, k)], r) /\ m[k + 1] = Step(ns[SubSeq(m, 1, k)], r)
      <4>1. /\ n[k + 1] = Step(ns[SubSeq(n, 1, (k + 1) - 1)], r)
            /\ m[k + 1] = Step(ns[SubSeq(m, 1, (k + 1) - 1)], r)
        BY <3>1 DEF Routed
      <4> QED BY <3>1, <4>1
    <3> DEFINE a == SubSeq(n, 1, k + 1)
               b == SubSeq(m, 1, k + 1)
               c == SubSeq(n, 1, k)
               d == SubSeq(m, 1, k)
    <3>4. a \in Seq(Key) /\ Len(a) = k + 1 /\ \A i \in 1 .. k + 1 : a[i] = n[i]
      BY <1>1, <3>1, BeginningIs
    <3>5. b \in Seq(Key) /\ Len(b) = k + 1 /\ \A i \in 1 .. k + 1 : b[i] = m[i]
      BY <1>1, <3>1, BeginningIs
    <3>6. \A i \in 1 .. k : c[i] = n[i] /\ d[i] = m[i]
      BY <1>1, <3>1, BeginningIs
    <3>7. c = d
      BY <3>2
    <3> HIDE DEF a, b, c, d
    <3>8. ASSUME NEW i \in 1 .. k + 1
          PROVE  a[i] = b[i]
      <4>1. CASE i = k + 1
        BY <3>2, <3>3, <3>4, <3>5, <4>1
      <4>2. CASE i # k + 1
        <5>1. i \in 1 .. k
          BY <4>2
        <5> QED BY <3>4, <3>5, <3>6, <3>7, <5>1
      <4> QED BY <4>1, <4>2
    <3>9. a = b
      BY <3>4, <3>5, <3>8, SameList
    <3> QED BY <3>9 DEF a, b
  <2> QED BY <2>1
<1>4. \A k \in Nat : k \in P
  <2> HIDE DEF P
  <2> QED BY <1>2, <1>3, NatInduct
<1> QED BY <1>4

\* So there is but one end.
LEMMA OneEnd ==
  ASSUME NEW ns, NEW r, NEW n, NEW m, Ends(ns, r, n), Ends(ns, r, m)
  PROVE  n = m
<1>1. n \in Path /\ m \in Path /\ n \in Seq(Key) /\ m \in Seq(Key) /\ Len(n) \in Nat /\ Len(m) \in Nat
  BY DEF Ends, Routed, Path
<1>2. \A k \in Nat : k <= Len(n) /\ k <= Len(m) => SubSeq(n, 1, k) = SubSeq(m, 1, k)
  BY WaysAgree DEF Ends
<1>3. SubSeq(n, 1, Len(n)) = n /\ SubSeq(m, 1, Len(m)) = m
  <2>1. Big \in Key
    BY DEF Key
  <2> QED BY <1>1, <2>1, BeginningOfAppend
<1>4. CASE Len(n) < Len(m)
  <2>1. n = SubSeq(m, 1, Len(n))
    BY <1>1, <1>2, <1>3, <1>4
  <2>2. Len(n) + 1 \in 1 .. Len(m) /\ (Len(n) + 1) - 1 = Len(n)
    BY <1>1, <1>4
  <2>3. HashAt(ns, SubSeq(m, 1, (Len(n) + 1) - 1))
    BY <2>2 DEF Ends, Routed
  <2>4. HashAt(ns, n)
    BY <2>1, <2>2, <2>3
  <2> QED BY <2>4 DEF Ends
<1>5. CASE Len(m) < Len(n)
  <2>1. m = SubSeq(n, 1, Len(m))
    BY <1>1, <1>2, <1>3, <1>5
  <2>2. Len(m) + 1 \in 1 .. Len(n) /\ (Len(m) + 1) - 1 = Len(m)
    BY <1>1, <1>5
  <2>3. HashAt(ns, SubSeq(n, 1, (Len(m) + 1) - 1))
    BY <2>2 DEF Ends, Routed
  <2>4. HashAt(ns, m)
    BY <2>1, <2>2, <2>3
  <2> QED BY <2>4 DEF Ends
<1>6. CASE Len(n) = Len(m)
  BY <1>1, <1>2, <1>3, <1>6
<1> QED BY <1>1, <1>4, <1>5, <1>6

\* it is the iteration by which PlaceIn(ns, r) is defined.
PlaceSolves(it, ns, r) ==
  it = [T \in SUBSET Dim |-> IF T = {} THEN << >> ELSE Further(ns, r, it[T \ {Choice(T)}])]

Shallow(ns) == \A n \in DOMAIN ns : HashAt(ns, n) => Len(n) < Cardinality(Dim)

LEMMA FurtherIsPath ==
  ASSUME NEW ns, Tree(ns), NEW r, NEW n \in Path
  PROVE  Further(ns, r, n) \in Path
<1>1. CASE HashAt(ns, n)
  <2>1. ns[n] \in NodeType
    BY <1>1 DEF Tree, HashAt
  <2>2. Step(ns[n], r) \in Key
    BY <2>1, StepInTable
  <2>3. Further(ns, r, n) = Append(n, Step(ns[n], r))
    BY <1>1 DEF Further, HashAt
  <2> QED BY <2>2, <2>3 DEF Path
<1>2. CASE ~HashAt(ns, n)
  BY <1>2 DEF Further, HashAt
<1> QED BY <1>1, <1>2

LEMMA PlaceIterates ==
  ASSUME NEW ns, Tree(ns), NEW r
  PROVE  \E it : PlaceSolves(it, ns, r)
<1> DEFINE S == Dim
           V == Path
           o == [T \in SUBSET S |-> [g \in [T -> V] |->
                   IF T = {} THEN << >> ELSE Further(ns, r, g[Choice(T)])]]
<1>1. IsFiniteSet(S)
  BY DimIs
<1>2. ASSUME NEW T \in SUBSET S, T # {}
      PROVE  Choice(T) \in T
  BY <1>2, ChoiceIsElement
<1> HIDE DEF S
<1>3. ASSUME NEW T \in SUBSET S, NEW g \in [T -> V]
      PROVE  o[T][g] \in V
  <2>1. CASE T = {}
    BY <2>1 DEF Path
  <2>2. CASE T # {}
    <3>1. PICK i \in T : i = Choice(T)
      BY <1>2, <2>2
    <3>2. Further(ns, r, g[i]) \in V
      BY FurtherIsPath
    <3> QED BY <2>2, <3>1, <3>2
  <2> QED BY <2>1, <2>2
<1>4. PICK it : Recurses(it, o, S, V)
  <2> HIDE DEF o, V
  <2>1. MapsInto(o, S, V)
    BY <1>3 DEF MapsInto
  <2> QED BY <1>1, <2>1, RecursionExists
<1>5. ASSUME NEW T \in SUBSET S
      PROVE  it[T] = IF T = {} THEN << >> ELSE Further(ns, r, it[T \ {Choice(T)}])
  <2>1. Below(it, T) \in [T -> V]
    BY <1>4 DEF Below, Recurses
  <2>2. T # {} => Below(it, T)[Choice(T)] = it[T \ {Choice(T)}]
    BY <1>2 DEF Below
  <2>3. it[T] = o[T][Below(it, T)]
    BY <1>4 DEF Recurses
  <2> HIDE DEF V
  <2> QED BY <2>1, <2>2, <2>3
<1> QED BY <1>4, <1>5 DEF PlaceSolves, Recurses, S

\* Where the way is after k steps, unless it has ended.
Gone(ns, r, n, k) == Routed(ns, r, n) /\ (HashAt(ns, n) => Len(n) = k)

LEMMA GoneFurther ==
  ASSUME NEW ns, Tree(ns), NEW r, NEW n, NEW k \in Nat, Gone(ns, r, n, k)
  PROVE  Gone(ns, r, Further(ns, r, n), k + 1)
<1>1. CASE HashAt(ns, n)
  <2>1. Further(ns, r, n) = Append(n, Step(ns[n], r))
    BY <1>1 DEF Further, HashAt
  <2>2. Routed(ns, r, n) /\ Len(n) = k
    BY <1>1 DEF Gone
  <2> DEFINE w == Append(n, Step(ns[n], r))
  <2>3. Routed(ns, r, w) /\ Len(w) = Len(n) + 1
    BY <1>1, <2>2, RoutedFurther
  <2> HIDE DEF w
  <2>4. Gone(ns, r, w, k + 1)
    BY <2>2, <2>3 DEF Gone
  <2> QED BY <2>1, <2>4 DEF w
<1>2. CASE ~HashAt(ns, n)
  <2>1. Further(ns, r, n) = n
    BY <1>2 DEF Further, HashAt
  <2>2. Gone(ns, r, n, k + 1)
    BY <1>2 DEF Gone
  <2> QED BY <2>1, <2>2
<1> QED BY <1>1, <1>2

LEMMA PlaceEnds ==
  ASSUME NEW ns, Tree(ns), Shallow(ns), NEW r
  PROVE  Ends(ns, r, PlaceIn(ns, r))
<1> DEFINE it == CHOOSE i : PlaceSolves(i, ns, r)
           P  == {T \in SUBSET Dim : Gone(ns, r, it[T], Cardinality(T))}
<1>1. PlaceSolves(it, ns, r)
  BY PlaceIterates
<1>2. PlaceIn(ns, r) = it[Dim]
  BY DEF PlaceIn, FoldSet, MapThenFoldSet, PlaceSolves, Further, Choice
<1> HIDE DEF it
<1>3. ASSUME NEW T \in SUBSET Dim, \A d \in T : T \ {d} \in P
      PROVE  T \in P
  <2>1. it[T] = IF T = {} THEN << >> ELSE Further(ns, r, it[T \ {Choice(T)}])
    BY <1>1 DEF PlaceSolves
  <2>2. IsFiniteSet(T) /\ Cardinality(T) \in Nat
    BY DimIs, FS_Subset, FS_CardinalityType
  <2>3. CASE T = {}
    <3>1. Cardinality(T) = 0
      BY <2>3, FS_EmptySet
    <3>2. it[T] = << >> /\ << >> \in Path /\ Len(<< >>) = 0
      BY <2>1, <2>3 DEF Path
    <3>3. Gone(ns, r, << >>, 0)
      BY <3>2 DEF Gone, Routed
    <3>4. Gone(ns, r, it[T], Cardinality(T))
      BY <3>1, <3>2, <3>3
    <3> QED BY <3>4, Zenon
  <2>4. CASE T # {}
    <3>1. PICK d \in T : d = Choice(T)
      BY <2>4, ChoiceIsElement
    <3>2. Cardinality(T \ {d}) = Cardinality(T) - 1 /\ Cardinality(T \ {d}) \in Nat
      <4>1. Cardinality(T \ {d}) = Cardinality(T) - 1 /\ IsFiniteSet(T \ {d})
        BY <2>2, FS_RemoveElement
      <4>2. Cardinality(T \ {d}) \in Nat
        BY <4>1, FS_CardinalityType
      <4> QED BY <4>1, <4>2
    <3> DEFINE k == Cardinality(T \ {d})
               n == it[T \ {d}]
    <3>3. Gone(ns, r, n, k)
      BY <1>3
    <3>4. k \in Nat /\ Cardinality(T) = k + 1
      BY <2>2, <3>2
    <3>5. it[T] = Further(ns, r, n)
      BY <2>1, <2>4, <3>1
    <3> HIDE DEF k, n
    <3>6. Gone(ns, r, Further(ns, r, n), k + 1)
      BY <3>3, <3>4, GoneFurther
    <3>7. Gone(ns, r, it[T], Cardinality(T))
      BY <3>4, <3>5, <3>6
    <3> QED BY <3>7, Zenon
  <2> QED BY <2>3, <2>4
<1> HIDE DEF P
<1>4. \A T \in SUBSET Dim : T \in P
  BY <1>3, DimIs, SubsetInduct
<1>5. Dim \in P
  BY <1>4
<1>6. Gone(ns, r, it[Dim], Cardinality(Dim))
  BY <1>5 DEF P
<1>7. Gone(ns, r, PlaceIn(ns, r), Cardinality(Dim))
  BY <1>2, <1>6
<1> QED BY <1>7, DimIs DEF Gone, Ends, Shallow, HashAt

\* The place of r is where its way ends.
LEMMA PlaceIs ==
  ASSUME NEW ns, Tree(ns), Shallow(ns), NEW r, NEW n, Ends(ns, r, n)
  PROVE  PlaceIn(ns, r) = n
BY PlaceEnds, OneEnd

LEMMA HungIsShallow ==
  ASSUME NEW ns, Tree(ns), Hung(ns), Shaped(ns)
  PROVE  Shallow(ns)
<1> SUFFICES ASSUME NEW n \in DOMAIN ns, HashAt(ns, n)
             PROVE  Len(n) < Cardinality(Dim)
  BY DEF Shallow
<1>1. ns[n].state[ns[n].dim] = -1 /\ ns[n].dim \in Dim
  BY DEF Shaped, HashAt, Tree, NodeType
<1>2. Cardinality(Marked(ns[n].state)) < Cardinality(Dim)
  BY <1>1, MarkedIs
<1>3. CASE n = << >>
  <2>1. Len(n) = 0 /\ Cardinality(Marked(ns[n].state)) \in Nat /\ Cardinality(Dim) \in Nat
    BY <1>3, DimIs, MarkedIs
  <2> QED BY <1>2, <2>1
<1>4. CASE n # << >>
  BY <1>2, <1>4 DEF Hung
<1> QED BY <1>3, <1>4

-----------------------------------------------------------------------------
(***************************************************************************)
(* Steps that leave the Hash nodes alone.                                  *)
(***************************************************************************)

Good(ns) == Tree(ns) /\ Hung(ns) /\ Shaped(ns)

LEMMA GoodPlace ==
  ASSUME NEW ns, Good(ns), NEW r
  PROVE  /\ Ends(ns, r, PlaceIn(ns, r)) /\ PlaceIn(ns, r) \in Path
         /\ \A n : Ends(ns, r, n) => PlaceIn(ns, r) = n
<1>1. Shallow(ns)
  BY HungIsShallow DEF Good
<1> QED BY <1>1, PlaceEnds, PlaceIs DEF Good, Ends, Routed

LEMMA StepSame ==
  ASSUME NEW a, NEW b, a.dim = b.dim, a.bit = b.bit, a.nHashBit = b.nHashBit
  PROVE  /\ \A r : Step(a, r) = Step(b, r)
         /\ \A x : getKey(a, x) = getKey(b, x)
<1>1. ASSUME NEW x
      PROVE  getKey(a, x) = getKey(b, x)
  BY Zenon DEF getKey
<1> QED BY <1>1 DEF Step

\* What no step but the construction of a node as a Hash node changes.
Alike(a, b) ==
  /\ a.state = b.state /\ a.dim = b.dim /\ a.bit = b.bit /\ a.nHashBit = b.nHashBit
  /\ a.maxBigPriority = b.maxBigPriority /\ (a.fun = "Hash" <=> b.fun = "Hash")

\* The nodes of ns are alike in ms; a node that is new in ms is a leaf that
\* hangs from one of them.
Tamed(ns, ms) ==
  /\ Tree(ms)
  /\ DOMAIN ns \subseteq DOMAIN ms
  /\ \A n \in DOMAIN ns : Alike(ns[n], ms[n])
  /\ \A n \in DOMAIN ms \ DOMAIN ns :
       /\ ms[n].fun # "Hash"
       /\ n # << >> /\ HashAt(ns, Front(n))
       /\ Last(n) \in -1 .. 2^ns[Front(n)].nHashBit - 1
       /\ ms[n].state = ChildState(ns[Front(n)], Last(n))
  /\ \A n \in DOMAIN ms : ms[n].fun = "new" => ms[n].rules # << >>

LEMMA DepthIs ==
  ASSUME NEW ns, Good(ns), NEW n \in DOMAIN ns
  PROVE  Len(n) = Cardinality(Marked(ns[n].state))
<1>1. CASE n = << >>
  <2>1. \A d \in Dim : ns[n].state[d] = -1
    BY <1>1 DEF Good, Hung, Unhashed
  <2>2. Marked(ns[n].state) = {}
    BY <2>1 DEF Marked
  <2> QED BY <1>1, <2>2, FS_EmptySet
<1>2. CASE n # << >>
  BY <1>2 DEF Good, Hung
<1> QED BY <1>1, <1>2

\* A child has one more field marked.
LEMMA ChildIs ==
  ASSUME NEW node \in NodeType, node.state[node.dim] = -1,
         NEW o \in Op[node.dim], node.bit = LeastBit[node.dim] + o, NEW x
  PROVE  /\ ChildState(node, x) \in State
         /\ Cardinality(Marked(ChildState(node, x))) = Cardinality(Marked(node.state)) + 1
<1> DEFINE d == node.dim
           s == node.state
           c == ChildState(node, x)
           e == IF x = Big THEN 0 ELSE node.bit - LeastBit[node.dim]
<1>1. d \in Dim /\ s \in [Dim -> -1 .. 15]
  BY DEF NodeType, State
<1>2. e \in 0 .. 15
  <2>1. LeastBit[d] \in Nat /\ o \in 0 .. 15
    BY <1>1, SubHybridAssumption
  <2> QED BY <2>1
<1>3. c = [s EXCEPT ![d] = e]
  BY DEF ChildState
<1> HIDE DEF e, c, s, d
<1>4. c \in [Dim -> -1 .. 15] /\ c[d] = e /\ \A i \in Dim : i # d => c[i] = s[i]
  BY <1>1, <1>2, <1>3
<1>5. Marked(c) = Marked(s) \cup {d} /\ d \notin Marked(s)
  BY <1>1, <1>2, <1>4 DEF Marked, s, d
<1>6. Cardinality(Marked(c)) = Cardinality(Marked(s)) + 1
  BY <1>5, MarkedIs, FS_AddElement
<1> QED BY <1>4, <1>6 DEF c, s, State

LEMMA TamedIsGood ==
  ASSUME NEW ns, Good(ns), NEW ms, Tamed(ns, ms)
  PROVE  /\ Good(ms)
         /\ \A n : HashAt(ms, n) <=> HashAt(ns, n)
         /\ \A n : HashAt(ns, n) => Alike(ns[n], ms[n])
         /\ \A r : PlaceIn(ms, r) = PlaceIn(ns, r)
         /\ \A r : ServedIn(ns, r) => ServedIn(ms, r)
<1>1. \A n : HashAt(ms, n) <=> HashAt(ns, n)
  BY DEF Tamed, HashAt, Alike
<1>2. \A n : HashAt(ns, n) => Alike(ns[n], ms[n])
  BY DEF Tamed, HashAt
<1>3. Shaped(ms)
  <2> SUFFICES ASSUME NEW n \in DOMAIN ms
               PROVE  /\ ms[n].fun = "Hash" => /\ ms[n].state[ms[n].dim] = -1
                                               /\ \E o \in Op[ms[n].dim] : ms[n].bit = LeastBit[ms[n].dim] + o
                      /\ ms[n].fun = "new" => ms[n].rules # << >>
    BY DEF Shaped
  <2>1. ASSUME ms[n].fun = "Hash"
        PROVE  /\ ms[n].state[ms[n].dim] = -1
               /\ \E o \in Op[ms[n].dim] : ms[n].bit = LeastBit[ms[n].dim] + o
    <3>1. n \in DOMAIN ns /\ ns[n].fun = "Hash" /\ Alike(ns[n], ms[n])
      BY <1>1, <1>2, <2>1 DEF HashAt
    <3> QED BY <3>1 DEF Good, Shaped, Alike
  <2>2. ms[n].fun = "new" => ms[n].rules # << >>
    BY DEF Tamed
  <2> QED BY <2>1, <2>2
<1>4. Hung(ms)
  <2>1. << >> \in DOMAIN ms /\ ms[<< >>].state = Unhashed
    BY DEF Good, Hung, Tamed, Alike
  <2>2. ASSUME NEW n \in DOMAIN ms \ {<< >>}
        PROVE  /\ HashAt(ms, Front(n))
               /\ Last(n) \in -1 .. 2^ms[Front(n)].nHashBit - 1
               /\ ms[n].state = ChildState(ms[Front(n)], Last(n))
               /\ Len(n) = Cardinality(Marked(ms[n].state))
    <3>1. /\ HashAt(ns, Front(n))
          /\ Last(n) \in -1 .. 2^ns[Front(n)].nHashBit - 1
          /\ ms[n].state = ChildState(ns[Front(n)], Last(n))
      <4>1. CASE n \in DOMAIN ns
        BY <4>1 DEF Good, Hung, Tamed, Alike
      <4>2. CASE n \notin DOMAIN ns
        BY <4>2 DEF Tamed
      <4> QED BY <4>1, <4>2
    <3> DEFINE a == ns[Front(n)]
               b == ms[Front(n)]
    <3>2. Alike(a, b)
      BY <1>2, <3>1
    <3>3. ChildState(b, Last(n)) = ChildState(a, Last(n))
      BY <3>2 DEF Alike, ChildState
    <3>4. Len(n) = Cardinality(Marked(ms[n].state))
      <4>1. CASE n \in DOMAIN ns
        BY <4>1, DepthIs DEF Tamed, Alike
      <4>2. CASE n \notin DOMAIN ns
        <5>1. Front(n) \in DOMAIN ns /\ a.fun = "Hash" /\ a \in NodeType
          BY <3>1 DEF HashAt, Good, Tree
        <5>2. a.state[a.dim] = -1
          BY <5>1 DEF Good, Shaped
        <5>3. PICK o \in Op[a.dim] : a.bit = LeastBit[a.dim] + o
          BY <5>1 DEF Good, Shaped
        <5>4. Len(Front(n)) = Cardinality(Marked(a.state))
          BY <5>1, DepthIs
        <5> HIDE DEF a
        <5>5. Cardinality(Marked(ChildState(a, Last(n)))) = Cardinality(Marked(a.state)) + 1
          BY <5>1, <5>2, <5>3, ChildIs
        <5>6. n \in Seq(Key) /\ n # << >>
          BY DEF Tamed, Tree, Path
        <5>7. Len(Front(n)) = Len(n) - 1 /\ Len(n) \in Nat
          BY <5>6, FrontLast
        <5>8. ms[n].state = ChildState(a, Last(n))
          BY <3>1 DEF a
        <5> QED BY <5>4, <5>5, <5>7, <5>8
      <4> QED BY <4>1, <4>2
    <3> QED BY <1>1, <3>1, <3>2, <3>3, <3>4 DEF Alike
  <2> QED BY <2>1, <2>2 DEF Hung
<1>5. Good(ms)
  BY <1>3, <1>4 DEF Good, Tamed
<1>6. ASSUME NEW r
      PROVE  PlaceIn(ms, r) = PlaceIn(ns, r)
  <2> DEFINE n == PlaceIn(ns, r)
  <2>1. Ends(ns, r, n)
    BY GoodPlace
  <2> HIDE DEF n
  <2>2. ASSUME NEW m, HashAt(ns, m)
        PROVE  Step(ms[m], r) = Step(ns[m], r)
    BY <1>2, <2>2, StepSame DEF Alike
  <2>3. Ends(ms, r, n)
    BY <1>1, <2>1, <2>2 DEF Ends, Routed
  <2> QED BY <1>5, <2>3, GoodPlace DEF n
<1>7. ASSUME NEW r, ServedIn(ns, r)
      PROVE  ServedIn(ms, r)
  <2> DEFINE n == PlaceIn(ns, r)
  <2>1. Ends(ns, r, n) /\ PlaceIn(ms, r) = n /\ n \in Seq(Key)
    BY <1>6, GoodPlace DEF Path
  <2>2. ASSUME NEW i \in DOMAIN n, n[i] = Big
        PROVE  /\ Append(SubSeq(n, 1, i - 1), Big) \in DOMAIN ms
               /\ r.priority <= ms[SubSeq(n, 1, i - 1)].maxBigPriority
    <3>1. /\ Append(SubSeq(n, 1, i - 1), Big) \in DOMAIN ns
          /\ r.priority <= ns[SubSeq(n, 1, i - 1)].maxBigPriority
      BY <1>7, <2>2 DEF ServedIn
    <3>2. i \in 1 .. Len(n)
      BY <2>1
    <3>3. HashAt(ns, SubSeq(n, 1, i - 1))
      BY <2>1, <3>2 DEF Ends, Routed
    <3> QED BY <1>2, <3>1, <3>3 DEF Tamed, Alike
  <2> HIDE DEF n
  <2> QED BY <2>1, <2>2 DEF ServedIn
<1> QED BY <1>1, <1>2, <1>5, <1>6, <1>7

-----------------------------------------------------------------------------
(***************************************************************************)
(* The queue.                                                              *)
(***************************************************************************)

LEMMA TailIs ==
  ASSUME NEW X, NEW q \in Seq(X), q # << >>, IsInjective(q)
  PROVE  /\ Head(q) \in Range(q) /\ Tail(q) \in Seq(X) /\ IsInjective(Tail(q))
         /\ Range(Tail(q)) = Range(q) \ {Head(q)}
<1> DEFINE n == Len(q)
           t == Tail(q)
<1>1. n \in Nat /\ n >= 1 /\ DOMAIN q = 1 .. n /\ Head(q) = q[1]
  OBVIOUS
<1>2. t \in Seq(X) /\ Len(t) = n - 1 /\ \A i \in 1 .. n - 1 : t[i] = q[i + 1]
  OBVIOUS
<1> HIDE DEF t
<1>3. DOMAIN t = 1 .. n - 1
  BY <1>1, <1>2
<1>4. \A a, b \in 1 .. n : q[a] = q[b] => a = b
  BY <1>1 DEF IsInjective
<1>5. \A i \in 1 .. n - 1 : i + 1 \in 1 .. n /\ i + 1 # 1
  BY <1>1
<1>6. 1 \in 1 .. n
  BY <1>1
<1>7. IsInjective(t)
  <2> SUFFICES ASSUME NEW i \in 1 .. n - 1, NEW j \in 1 .. n - 1, t[i] = t[j]
               PROVE  i = j
    BY <1>3 DEF IsInjective
  <2>1. i + 1 = j + 1
    BY <1>2, <1>4, <1>5
  <2> QED BY <2>1
<1>8. ASSUME NEW x \in Range(t)
      PROVE  x \in Range(q) \ {q[1]}
  <2>1. PICK i \in 1 .. n - 1 : x = t[i]
    BY <1>3 DEF Range
  <2> QED BY <1>1, <1>2, <1>4, <1>5, <1>6, <2>1 DEF Range
<1>9. ASSUME NEW x \in Range(q), x # q[1]
      PROVE  x \in Range(t)
  <2>1. PICK a \in 1 .. n : x = q[a]
    BY <1>1 DEF Range
  <2>2. a - 1 \in 1 .. n - 1 /\ (a - 1) + 1 = a
    BY <1>1, <1>9, <2>1
  <2>3. x = t[a - 1]
    BY <1>2, <2>1, <2>2
  <2> QED BY <1>3, <2>2, <2>3 DEF Range
<1>10. Head(q) \in Range(q)
  BY <1>1, <1>6 DEF Range
<1> QED BY <1>1, <1>2, <1>7, <1>8, <1>9, <1>10 DEF t

LEMMA JoinIs ==
  ASSUME NEW X, NEW a \in Seq(X), NEW b \in Seq(X), IsInjective(a), IsInjective(b),
         Range(a) \cap Range(b) = {}
  PROVE  /\ a \o b \in Seq(X) /\ IsInjective(a \o b)
         /\ Range(a \o b) = Range(a) \cup Range(b)
<1> DEFINE n == Len(a)
           m == Len(b)
           w == a \o b
<1>1. n \in Nat /\ m \in Nat /\ DOMAIN a = 1 .. n /\ DOMAIN b = 1 .. m
  OBVIOUS
<1>2. /\ w \in Seq(X) /\ DOMAIN w = 1 .. n + m
      /\ \A i \in 1 .. n + m : w[i] = IF i <= n THEN a[i] ELSE b[i - n]
  BY ConcatIs
<1> HIDE DEF w
<1>3. \A i \in 1 .. n + m : (i <= n => i \in 1 .. n) /\ (~(i <= n) => i - n \in 1 .. m)
  BY <1>1
<1>4. \A i \in 1 .. n : a[i] \in Range(a)
  BY <1>1 DEF Range
<1>5. \A i \in 1 .. m : b[i] \in Range(b)
  BY <1>1 DEF Range
<1>6. IsInjective(w)
  <2> SUFFICES ASSUME NEW i \in 1 .. n + m, NEW j \in 1 .. n + m, w[i] = w[j]
               PROVE  i = j
    BY <1>2 DEF IsInjective
  <2>1. CASE i <= n /\ j <= n
    BY <1>1, <1>2, <1>3, <2>1 DEF IsInjective
  <2>2. CASE ~(i <= n) /\ ~(j <= n)
    <3>1. i - n = j - n
      BY <1>1, <1>2, <1>3, <2>2 DEF IsInjective
    <3> QED BY <1>1, <3>1
  <2>3. CASE i <= n /\ ~(j <= n)
    BY <1>2, <1>3, <1>4, <1>5, <2>3
  <2>4. CASE ~(i <= n) /\ j <= n
    BY <1>2, <1>3, <1>4, <1>5, <2>4
  <2> QED BY <2>1, <2>2, <2>3, <2>4
<1>7. ASSUME NEW x \in Range(w)
      PROVE  x \in Range(a) \cup Range(b)
  <2>1. PICK i \in 1 .. n + m : x = w[i]
    BY <1>2 DEF Range
  <2> QED BY <1>2, <1>3, <1>4, <1>5, <2>1
<1>8. ASSUME NEW x \in Range(a)
      PROVE  x \in Range(w)
  <2>1. PICK i \in 1 .. n : x = a[i]
    BY <1>1 DEF Range
  <2>2. i \in 1 .. n + m /\ i <= n
    BY <1>1
  <2> QED BY <1>2, <2>1, <2>2 DEF Range
<1>9. ASSUME NEW x \in Range(b)
      PROVE  x \in Range(w)
  <2>1. PICK i \in 1 .. m : x = b[i]
    BY <1>1 DEF Range
  <2>2. i + n \in 1 .. n + m /\ ~(i + n <= n) /\ (i + n) - n = i
    BY <1>1
  <2>3. w[i + n] = b[i]
    BY <1>2, <2>2
  <2> QED BY <1>2, <2>1, <2>2, <2>3 DEF Range
<1> QED BY <1>2, <1>6, <1>7, <1>8, <1>9 DEF w

-----------------------------------------------------------------------------
(***************************************************************************)
(* The construction of a node.                                             *)
(***************************************************************************)

\* An action is linear, TM or the bits of a field that is free.
LEMMA ActionIs ==
  ASSUME NEW node \in NodeType, Policy(policy), NEW op \in getAction(node)
  PROVE  \/ op = <<"linear", -1, -1>>
         \/ op = <<"TM", -1, -1>>
         \/ /\ Len(node.rules) >= binth
            /\ \E d \in Dim : \E o \in Op[d] : op = <<"Hash", d, o>> /\ node.state[d] = -1
<1> DEFINE free == {d \in Dim : node.state[d] = -1}
           any  == UNION {{<<"Hash", d, o>> : o \in Op[d]} : d \in free}
           few  == Len(node.rules) < binth
           keys == {<<r.prefix_length[1], r.prefix_length[2]>> : r \in Range(node.rules)}
           tm   == /\ Len(node.rules) >= binth
                   /\ \/ rtssleaf[2] * Len(node.rules) <= rtssleaf[1] * Cardinality(keys)
                      \/ free = {}
<1>1. getAction(node) = CASE few -> {<<"linear", -1, -1>>}
                          [] tm  -> {<<"TM", -1, -1>>}
                          [] OTHER -> IF node.state \in DOMAIN policy
                                        THEN {policy[node.state]} ELSE any
  BY Zenon DEF getAction
<1>2. ~(few /\ tm) /\ (few \/ Len(node.rules) >= binth)
  <2>1. Len(node.rules) \in Nat /\ binth \in Nat
    BY SubHybridAssumption DEF NodeType
  <2> QED BY <2>1
<1>3. \A x \in any : \E d \in Dim : \E o \in Op[d] : x = <<"Hash", d, o>> /\ node.state[d] = -1
  OBVIOUS
<1>4. node.state \in DOMAIN policy =>
        \E d \in Dim : \E o \in Op[d] : policy[node.state] = <<"Hash", d, o>> /\ node.state[d] = -1
  BY DEF Policy
<1> HIDE DEF few, tm, any, free, keys
<1>5. CASE few
  <2>1. getAction(node) = {<<"linear", -1, -1>>}
    BY <1>1, <1>2, <1>5
  <2> QED BY <2>1
<1>6. CASE tm
  <2>1. getAction(node) = {<<"TM", -1, -1>>}
    BY <1>1, <1>2, <1>6
  <2> QED BY <2>1
<1>7. CASE ~few /\ ~tm
  <2>1. getAction(node) = IF node.state \in DOMAIN policy THEN {policy[node.state]} ELSE any
    BY <1>1, <1>7
  <2> QED BY <1>2, <1>3, <1>4, <1>7, <2>1
<1> QED BY <1>5, <1>6, <1>7

LeafBuilt(ns, ms, n, leaf) ==
  /\ DOMAIN ms = DOMAIN ns /\ ms = [m \in DOMAIN ms |-> ms[m]]
  /\ \A m \in DOMAIN ns :
       /\ ms[m] \in NodeType
       /\ ms[m].fun = IF m = n THEN leaf ELSE ns[m].fun
       /\ ms[m].rules = ns[m].rules /\ Alike(ns[m], ms[m])
       /\ ms[m].reward = ns[m].reward + addReward(n, m, IF leaf = "TM" THEN -Len(ns[n].rules) ELSE 0)

HashBuilt(ns, ms, n, node) ==
  LET X == {Step(node, r) : r \in Range(node.rules)} IN
  /\ node \in NodeType /\ node.fun = "Hash"
  /\ node.state = ns[n].state /\ node.rules = ns[n].rules /\ node.reward = ns[n].reward
  /\ node.state[node.dim] = -1
  /\ \E o \in Op[node.dim] : node.bit = LeastBit[node.dim] + o
  /\ \A r \in Range(node.rules) : Step(node, r) = Big => r.priority <= node.maxBigPriority
  /\ node.nHashBit = HashBits(Len(node.rules), node.bit)
  /\ DOMAIN ms = DOMAIN ns \cup {Append(n, x) : x \in X} /\ ms = [m \in DOMAIN ms |-> ms[m]]
  /\ \A m \in DOMAIN ns \ {n} : ms[m] = ns[m]
  /\ ms[n] = [node EXCEPT !.rules = << >>]
  /\ \A x \in X : ms[Append(n, x)] = NewNode(ChildState(node, x), RulesFor(node, x))

\* The children are queued, each once.
ChildrenQueued(q, w, n, node) ==
  LET X == {Step(node, r) : r \in Range(node.rules)} IN
  \E v \in Seq(X) : /\ Range(v) = X /\ IsInjective(v)
                    /\ w = Tail(q) \o [i \in DOMAIN v |-> Append(n, v[i])]

\* What the loop's turn does with action op.
BuiltBy(op, n, node, steps, C, cost) ==
  /\ nodes' = [m \in DOMAIN nodes \cup C |->
                 IF m \in C
                   THEN NewNode(ChildState(node, Last(m)), RulesFor(node, Last(m)))
                   ELSE [(CASE m # n                     -> nodes[m]
                            [] m = n /\ op[1] = "Hash"  -> [node EXCEPT !.rules = << >>]
                            [] m = n /\ op[1] # "Hash"  -> node)
                           EXCEPT !.reward = @ + addReward(n, m, cost)]]
  /\ queue' = Tail(queue) \o [i \in DOMAIN steps |-> Append(n, steps[i])]
  /\ policy' = IF op[1] = "Hash"
                 THEN [s \in DOMAIN policy \cup {node.state} |->
                         IF s = node.state THEN op ELSE policy[s]]
                 ELSE policy

LEMMA HeadIsNew ==
  ASSUME Inv, BuildNode
  PROVE  /\ queue # << >> /\ Head(queue) \in DOMAIN nodes /\ nodes[Head(queue)].fun = "new"
         /\ nodes[Head(queue)] \in NodeType /\ Head(queue) \in Path
         /\ built' = built /\ live' = live
         /\ \E op \in getAction(nodes[Head(queue)]) :
              LET n    == Head(queue)
                  node == Constructed(nodes[n], op)
              IN  BuiltBy(op, n, node, ChildSteps(node),
                          {Append(n, x) : x \in Range(ChildSteps(node))},
                          IF op[1] = "TM" THEN -Len(node.rules) ELSE 0)
<1>1. queue # << >>
  BY DEF BuildNode, Ready
<1>2. Head(queue) \in Range(queue)
  BY <1>1, TailIs DEF Inv, QueuedIn
<1>3. Head(queue) \in DOMAIN nodes /\ nodes[Head(queue)].fun = "new"
  BY <1>2 DEF Inv, QueuedIn
<1>4. nodes[Head(queue)] \in NodeType /\ Head(queue) \in Path
  BY <1>3 DEF Inv, Tree
<1>5. \E op \in getAction(nodes[Head(queue)]) :
        LET n    == Head(queue)
            node == Constructed(nodes[n], op)
        IN  BuiltBy(op, n, node, ChildSteps(node),
                    {Append(n, x) : x \in Range(ChildSteps(node))},
                    IF op[1] = "TM" THEN -Len(node.rules) ELSE 0)
  BY Zenon DEF BuildNode, BuiltBy
<1> QED BY <1>1, <1>3, <1>4, <1>5 DEF BuildNode

LEMMA BuildLeaf ==
  ASSUME Inv, queue # << >>, NEW n \in DOMAIN nodes, nodes[n].fun = "new",
         NEW op, NEW leaf \in {"linear", "TM"}, op[1] = leaf,
         NEW node, node = Constructed(nodes[n], op),
         BuiltBy(op, n, node, ChildSteps(node),
                 {Append(n, x) : x \in Range(ChildSteps(node))},
                 IF op[1] = "TM" THEN -Len(node.rules) ELSE 0)
  PROVE  LeafBuilt(nodes, nodes', n, leaf) /\ queue' = Tail(queue) /\ policy' = policy
<1> DEFINE C    == {Append(n, x) : x \in Range(ChildSteps(node))}
           cost == IF op[1] = "TM" THEN -Len(node.rules) ELSE 0
<1>1. nodes[n] \in NodeType
  BY DEF Inv, Tree
<1>2. node = [nodes[n] EXCEPT !.fun = op[1]]
  BY DEF Constructed
<1>3. node \in NodeType /\ node.fun = op[1] /\ node.rules = nodes[n].rules /\ Alike(nodes[n], node)
      /\ node.reward = nodes[n].reward
  BY <1>1, <1>2 DEF NodeType, Alike
<1>4. ChildSteps(node) = << >>
  BY <1>3 DEF ChildSteps
<1>5. C = {}
  BY <1>4 DEF Range
<1>6. cost = IF op[1] = "TM" THEN -Len(nodes[n].rules) ELSE 0
  BY <1>3
<1> HIDE DEF C, cost
<1>7. nodes' = [m \in DOMAIN nodes |->
                  [(IF m = n THEN node ELSE nodes[m]) EXCEPT !.reward = @ + addReward(n, m, cost)]]
  <2>1. nodes' = [m \in DOMAIN nodes \cup C |->
                    IF m \in C
                      THEN NewNode(ChildState(node, Last(m)), RulesFor(node, Last(m)))
                      ELSE [(CASE m # n                     -> nodes[m]
                               [] m = n /\ op[1] = "Hash"  -> [node EXCEPT !.rules = << >>]
                               [] m = n /\ op[1] # "Hash"  -> node)
                              EXCEPT !.reward = @ + addReward(n, m, cost)]]
    BY DEF BuiltBy, C, cost
  <2>2. op[1] # "Hash"
    OBVIOUS
  <2> QED BY <1>5, <2>1, <2>2
<1>8. ASSUME NEW m \in DOMAIN nodes
      PROVE  /\ nodes'[m] \in NodeType
             /\ nodes'[m].fun = IF m = n THEN op[1] ELSE nodes[m].fun
             /\ nodes'[m].rules = nodes[m].rules /\ Alike(nodes[m], nodes'[m])
             /\ nodes'[m].reward = nodes[m].reward + addReward(n, m, cost)
  <2> DEFINE b == IF m = n THEN node ELSE nodes[m]
             k == addReward(n, m, cost)
  <2>1. nodes'[m] = [b EXCEPT !.reward = b.reward + k]
    BY <1>7
  <2>2. k \in Int
    BY <1>1, <1>6 DEF addReward, NodeType
  <2>3. b \in NodeType /\ b.fun = (IF m = n THEN op[1] ELSE nodes[m].fun)
        /\ b.rules = nodes[m].rules /\ Alike(nodes[m], b) /\ b.reward = nodes[m].reward
    <3>1. nodes[m] \in NodeType
      BY DEF Inv, Tree
    <3>2. CASE m = n
      BY <1>3, <3>2
    <3>3. CASE m # n
      BY <3>1, <3>3 DEF Alike
    <3> QED BY <3>2, <3>3
  <2> HIDE DEF b, k
  <2>4. /\ nodes'[m] \in NodeType /\ nodes'[m].fun = b.fun /\ nodes'[m].rules = b.rules
        /\ Alike(b, nodes'[m]) /\ nodes'[m].reward = b.reward + k
    <3>1. b.reward + k \in Int
      BY <2>2, <2>3 DEF NodeType
    <3>2. ASSUME NEW c \in Int, NEW e, e = [b EXCEPT !.reward = c]
          PROVE  e \in NodeType /\ e.fun = b.fun /\ e.rules = b.rules /\ Alike(b, e) /\ e.reward = c
      BY <2>3, <3>2 DEF NodeType, Alike
    <3> QED BY <2>1, <3>1, <3>2
  <2> QED BY <2>3, <2>4 DEF Alike, k
<1>9. LeafBuilt(nodes, nodes', n, op[1])
  BY <1>6, <1>7, <1>8 DEF LeafBuilt
<1>10. queue' = Tail(queue)
  <2>1. queue' = Tail(queue) \o [i \in DOMAIN ChildSteps(node) |-> Append(n, ChildSteps(node)[i])]
    BY DEF BuiltBy
  <2>2. [i \in DOMAIN ChildSteps(node) |-> Append(n, ChildSteps(node)[i])] = << >>
    BY <1>4
  <2>3. Tail(queue) \in Seq(DOMAIN nodes)
    BY DEF Inv, QueuedIn
  <2> QED BY <2>1, <2>2, <2>3
<1> QED BY <1>9, <1>10 DEF BuiltBy

\* The table is not larger than it may be.
LEMMA HashBitsIs ==
  ASSUME NEW count, NEW bit
  PROVE  /\ HashBits(count, bit) \in 0 .. 30
         /\ \/ HashBits(count, bit) > bit \/ HashBits(count, bit) = 30
            \/ 2^HashBits(count, bit) - 1 >= count * inflation
<1> DEFINE N == {n \in 0 .. 30 : n > bit \/ n = 30 \/ 2^n - 1 >= count * inflation}
<1>1. N \in SUBSET Nat /\ 30 \in N
  OBVIOUS
<1>2. HashBits(count, bit) = Min(N)
  BY DEF HashBits
<1>3. Min(N) \in N
  <2> HIDE DEF N
  <2> QED BY <1>1, MinIs
<1> QED BY <1>2, <1>3

LEMMA HashNodeIs ==
  ASSUME NEW new \in NodeType, NEW d \in Dim, NEW o \in Op[d], new.state[d] = -1,
         NEW node, node = Constructed(new, <<"Hash", d, o>>)
  PROVE  /\ node \in NodeType /\ node.fun = "Hash"
         /\ node.state = new.state /\ node.rules = new.rules /\ node.reward = new.reward
         /\ node.dim = d /\ node.bit = LeastBit[d] + o
         /\ node.nHashBit = HashBits(Len(node.rules), node.bit)
         /\ \A r \in Range(node.rules) : Step(node, r) = Big => r.priority <= node.maxBigPriority
<1> DEFINE bit  == LeastBit[d] + o
           k    == HashBits(Len(new.rules), bit)
           hash == [new EXCEPT !.fun = "Hash", !.dim = d, !.bit = bit, !.nHashBit = k]
           S    == {r.priority : r \in Range(RulesFor(hash, Big))}
           h    == Highest(S)
<1>1. node = [hash EXCEPT !.maxBigPriority = h]
  <2>1. /\ <<"Hash", d, o>>[1] = "Hash" /\ <<"Hash", d, o>>[2] = d /\ <<"Hash", d, o>>[3] = o
    OBVIOUS
  <2> QED BY <2>1 DEF Constructed
<1>2. bit \in 0 .. 32
  <2>1. LeastBit[d] \in Nat /\ o \in 0 .. 15 /\ LeastBit[d] + o <= Width[d] /\ Width[d] \in 1 .. 32
    BY SubHybridAssumption, DimIs
  <2> QED BY <2>1
<1>3. k \in 0 .. 30
  BY HashBitsIs
<1> HIDE DEF bit, k
<1>4. /\ hash \in NodeType /\ hash.fun = "Hash" /\ hash.state = new.state /\ hash.rules = new.rules
      /\ hash.reward = new.reward /\ hash.dim = d /\ hash.bit = bit /\ hash.nHashBit = k
  BY <1>2, <1>3 DEF NodeType
<1> HIDE DEF hash
<1>5. /\ RulesFor(hash, Big) \in Seq(Rule)
      /\ Range(RulesFor(hash, Big)) = Range(hash.rules) \cap {r \in Rule : Step(hash, r) = Big}
  <2>1. hash.rules \in Seq(Rule)
    BY <1>4 DEF NodeType
  <2>2. RulesFor(hash, Big) = Only(hash.rules, {r \in Rule : Step(hash, r) = Big})
    BY DEF RulesFor
  <2> QED BY <2>1, <2>2, OnlyIs
<1>6. hash.rules \in Seq(Rule) /\ Range(hash.rules) \subseteq Rule
  BY <1>4 DEF NodeType, Range
<1>7. S \in SUBSET Priority
  BY <1>5 DEF Priority
<1>8. IsFiniteSet(S) /\ S \in SUBSET Int
  <2> HIDE DEF S
  <2> QED BY <1>7, PrioritiesFinite
<1>9. h \in S \cup {-1} /\ \A y \in S \cup {-1} : y <= h
  <2> HIDE DEF S
  <2> QED BY <1>8, HighestIsGreatest
<1>10. h \in Priority \cup {-1} /\ \A r \in Range(hash.rules) : Step(hash, r) = Big => r.priority <= h
  BY <1>5, <1>6, <1>7, <1>9
<1> HIDE DEF h
<1>11. /\ node \in NodeType /\ node.fun = "Hash" /\ node.state = new.state /\ node.rules = new.rules
       /\ node.reward = new.reward /\ node.dim = d /\ node.bit = bit /\ node.nHashBit = k
       /\ node.maxBigPriority = h
  BY <1>1, <1>4, <1>10 DEF NodeType
<1>12. \A r : Step(node, r) = Step(hash, r)
  <2>1. node.dim = hash.dim /\ node.bit = hash.bit /\ node.nHashBit = hash.nHashBit
    BY <1>4, <1>11
  <2> QED BY <2>1, StepSame
<1>13. \A r \in Range(node.rules) : Step(node, r) = Big => r.priority <= node.maxBigPriority
  BY <1>4, <1>10, <1>11, <1>12
<1> QED BY <1>11, <1>13 DEF bit, k

\* The steps to the children are those of the rules, each once.
LEMMA ChildStepsAre ==
  ASSUME NEW node \in NodeType, node.fun = "Hash",
         NEW X, X = {Step(node, r) : r \in Range(node.rules)}
  PROVE  /\ ChildSteps(node) \in Seq(X) /\ Range(ChildSteps(node)) = X
         /\ IsInjective(ChildSteps(node))
<1> DEFINE N == 2^node.nHashBit
           s == [i \in 1 .. N + 1 |-> IF i <= N THEN i - 1 ELSE Big]
           v == ChildSteps(node)
<1>1. N \in Nat /\ N >= 1
  BY PowersAre DEF NodeType
<1>2. v = Only(s, X)
  BY DEF ChildSteps, Steps
<1>3. \A x \in X : x \in -1 .. N - 1
  BY StepInTable
<1> HIDE DEF N
<1>4. s \in Seq(Int) /\ DOMAIN s = 1 .. N + 1 /\ Len(s) = N + 1
  BY <1>1 DEF Big
<1>5. \A i \in 1 .. N + 1 : s[i] = IF i <= N THEN i - 1 ELSE -1
  BY DEF Big
<1> HIDE DEF s
<1>6. IsInjective(s)
  <2> SUFFICES ASSUME NEW i \in 1 .. N + 1, NEW j \in 1 .. N + 1, s[i] = s[j]
               PROVE  i = j
    BY <1>4 DEF IsInjective
  <2> QED BY <1>1, <1>5
<1>7. ASSUME NEW x \in X
      PROVE  x \in Range(s)
  <2>1. x \in -1 .. N - 1
    BY <1>3
  <2>2. CASE x = -1
    <3>1. N + 1 \in 1 .. N + 1 /\ ~(N + 1 <= N)
      BY <1>1
    <3> QED BY <1>4, <1>5, <2>2, <3>1 DEF Range
  <2>3. CASE x # -1
    <3>1. x + 1 \in 1 .. N + 1 /\ x + 1 <= N /\ (x + 1) - 1 = x
      BY <1>1, <2>1, <2>3
    <3>2. s[x + 1] = x
      BY <1>5, <3>1
    <3> QED BY <1>4, <3>1, <3>2 DEF Range
  <2> QED BY <2>2, <2>3
<1>8. v \in Seq(Int) /\ Range(v) = Range(s) \cap X /\ IsInjective(v)
  BY <1>2, <1>4, <1>6, OnlyIs
<1>9. Range(v) = X
  BY <1>7, <1>8
<1>10. v \in Seq(X)
  <2>1. ASSUME NEW w \in Seq(Int), Range(w) = X
        PROVE  w \in Seq(X)
    <3>1. \A i \in 1 .. Len(w) : w[i] \in Range(w)
      BY DEF Range
    <3> QED BY <2>1, <3>1
  <2> HIDE DEF v
  <2> QED BY <1>8, <1>9, <2>1
<1> QED BY <1>8, <1>9, <1>10

LEMMA BuildHash ==
  ASSUME Inv, queue # << >>, NEW n \in DOMAIN nodes, nodes[n].fun = "new",
         NEW d \in Dim, NEW o \in Op[d], nodes[n].state[d] = -1,
         NEW op, op = <<"Hash", d, o>>,
         NEW node, node = Constructed(nodes[n], op),
         BuiltBy(op, n, node, ChildSteps(node),
                 {Append(n, x) : x \in Range(ChildSteps(node))},
                 IF op[1] = "TM" THEN -Len(node.rules) ELSE 0)
  PROVE  /\ HashBuilt(nodes, nodes', n, node)
         /\ ChildrenQueued(queue, queue', n, node)
         /\ Policy(policy')
<1> DEFINE X == {Step(node, r) : r \in Range(node.rules)}
           C == {Append(n, x) : x \in X}
           v == ChildSteps(node)
<1>1. nodes[n] \in NodeType
  BY DEF Inv, Tree
<1>2. /\ node \in NodeType /\ node.fun = "Hash" /\ node.state = nodes[n].state
      /\ node.rules = nodes[n].rules /\ node.reward = nodes[n].reward
      /\ node.dim = d /\ node.bit = LeastBit[d] + o
      /\ node.nHashBit = HashBits(Len(node.rules), node.bit)
      /\ \A r \in Range(node.rules) : Step(node, r) = Big => r.priority <= node.maxBigPriority
  BY <1>1, HashNodeIs
<1>3. v \in Seq(X) /\ Range(v) = X /\ IsInjective(v)
  BY <1>2, ChildStepsAre
<1>4. op[1] = "Hash"
  OBVIOUS
<1>5. ChildrenQueued(queue, queue', n, node)
  <2>1. queue' = Tail(queue) \o [i \in DOMAIN v |-> Append(n, v[i])]
    BY DEF BuiltBy
  <2> HIDE DEF v
  <2> QED BY <1>3, <2>1 DEF ChildrenQueued
<1>6. Policy(policy')
  <2>1. policy' = [s \in DOMAIN policy \cup {node.state} |->
                     IF s = node.state THEN op ELSE policy[s]]
    BY <1>4 DEF BuiltBy
  <2>2. node.state \in State /\ node.state[d] = -1
    BY <1>2 DEF NodeType
  <2>3. Policy(policy)
    BY DEF Inv
  <2> QED BY <2>1, <2>2, <2>3 DEF Policy
<1>7. nodes' = [m \in DOMAIN nodes \cup C |->
                  IF m \in C
                    THEN NewNode(ChildState(node, Last(m)), RulesFor(node, Last(m)))
                    ELSE [(IF m # n THEN nodes[m] ELSE [node EXCEPT !.rules = << >>])
                           EXCEPT !.reward = @ + addReward(n, m, 0)]]
  <2>1. Range(v) = X
    BY <1>3
  <2>2. {Append(n, x) : x \in Range(v)} = C
    BY <2>1
  <2> HIDE DEF C, X, v
  <2>3. (IF op[1] = "TM" THEN -Len(node.rules) ELSE 0) = 0
    BY <1>4
  <2>4. BuiltBy(op, n, node, v, C, 0)
    BY <2>2, <2>3 DEF v
  <2> QED BY <1>4, <2>4 DEF BuiltBy
<1>8. n \in Seq(Key) /\ X \subseteq Key
  <2>1. n \in Path
    BY DEF Inv, Tree
  <2> QED BY <1>2, <2>1, StepInTable DEF Path
<1>9. ASSUME NEW x \in X
      PROVE  /\ Append(n, x) \in Path /\ Last(Append(n, x)) = x /\ Front(Append(n, x)) = n
             /\ Append(n, x) # << >>
  <2>1. x \in Key /\ n \in Path
    BY <1>8 DEF Path
  <2> QED BY <2>1, ChildPath
<1>10. C \cap DOMAIN nodes = {}
  <2> SUFFICES ASSUME NEW x \in X, Append(n, x) \in DOMAIN nodes
               PROVE  FALSE
    OBVIOUS
  <2>1. Append(n, x) # << >> /\ Front(Append(n, x)) = n
    BY <1>9
  <2>2. HashAt(nodes, n)
    BY <2>1 DEF Inv, Hung
  <2> QED BY <2>2 DEF HashAt
<1>11. ASSUME NEW m \in DOMAIN nodes
       PROVE  nodes'[m] = IF m # n THEN nodes[m] ELSE [node EXCEPT !.rules = << >>]
  <2> DEFINE b == IF m # n THEN nodes[m] ELSE [node EXCEPT !.rules = << >>]
  <2>1. m \notin C
    BY <1>10
  <2>2. nodes'[m] = [b EXCEPT !.reward = b.reward + addReward(n, m, 0)]
    <3> HIDE DEF C
    <3> QED BY <1>7, <2>1
  <2>3. b \in NodeType
    <3>1. nodes[m] \in NodeType
      BY DEF Inv, Tree
    <3>2. [node EXCEPT !.rules = << >>] \in NodeType
      <4>1. << >> \in Seq(Rule)
        OBVIOUS
      <4> QED BY <1>2, <4>1, Zenon DEF NodeType
    <3> QED BY <3>1, <3>2
  <2> HIDE DEF b
  <2>4. addReward(n, m, 0) = 0
    BY DEF addReward
  <2>5. nodes'[m] = b
    BY <2>2, <2>3, <2>4 DEF NodeType
  <2> QED BY <2>5 DEF b
<1>12. ASSUME NEW x \in X
       PROVE  nodes'[Append(n, x)] = NewNode(ChildState(node, x), RulesFor(node, x))
  BY <1>7, <1>9
<1>13. DOMAIN nodes' = DOMAIN nodes \cup C /\ nodes' = [m \in DOMAIN nodes' |-> nodes'[m]]
  <2> HIDE DEF C
  <2> QED BY <1>7
<1>14. /\ node.state[node.dim] = -1
       /\ \E a \in Op[node.dim] : node.bit = LeastBit[node.dim] + a
  BY <1>2
<1>15. HashBuilt(nodes, nodes', n, node)
  <2>1. /\ \A m \in DOMAIN nodes \ {n} : nodes'[m] = nodes[m]
        /\ nodes'[n] = [node EXCEPT !.rules = << >>]
    BY <1>11
  <2>2. \A x \in X : nodes'[Append(n, x)] = NewNode(ChildState(node, x), RulesFor(node, x))
    BY <1>12
  <2> QED BY <1>2, <1>13, <1>14, <2>1, <2>2, Zenon DEF HashBuilt
<1> QED BY <1>5, <1>6, <1>15

\* Such a node has no children yet.
LEMMA NoChildYet ==
  ASSUME NEW ns, Good(ns), NEW n \in Path, ~HashAt(ns, n), NEW x \in Key
  PROVE  Append(n, x) \notin DOMAIN ns
<1> SUFFICES ASSUME Append(n, x) \in DOMAIN ns
             PROVE  FALSE
  OBVIOUS
<1>1. Append(n, x) # << >> /\ Front(Append(n, x)) = n
  BY ChildPath
<1>2. HashAt(ns, n)
  BY <1>1 DEF Good, Hung
<1> QED BY <1>2

\* The node built, and its children.
NodeBuilt(ns, ms, n, node, X) ==
  /\ ms[n] \in NodeType /\ ms[n].rules = << >> /\ ms[n].reward = node.reward
  /\ Alike(node, ms[n]) /\ ms[n].fun = "Hash"
  /\ n \in Path /\ ~HashAt(ns, n) /\ X \subseteq Key /\ Range(node.rules) \subseteq Rule
  /\ \A x \in X : /\ Append(n, x) \in DOMAIN ms \ DOMAIN ns /\ Append(n, x) \in Path
                  /\ ms[Append(n, x)] \in NodeType /\ ms[Append(n, x)].fun = "new"
                  /\ ms[Append(n, x)].state = ChildState(node, x)
                  /\ ms[Append(n, x)].rules = RulesFor(node, x)
                  /\ ms[Append(n, x)].rules # << >>
                  /\ ms[Append(n, x)].reward = 0
                  /\ RulesFor(node, x) \in Seq(Rule)
                  /\ Range(RulesFor(node, x)) = {r \in Range(node.rules) : Step(node, r) = x}
                  /\ Sound(node.rules) => Sound(RulesFor(node, x))

LEMMA HashBuiltIs ==
  ASSUME NEW ns, Good(ns), NEW n \in DOMAIN ns, ns[n].fun = "new",
         NEW ms, NEW node, HashBuilt(ns, ms, n, node),
         NEW X, X = {Step(node, r) : r \in Range(node.rules)}
  PROVE  NodeBuilt(ns, ms, n, node, X)
<1>1. /\ n \in Path /\ ~HashAt(ns, n) /\ node \in NodeType /\ node.fun = "Hash"
      /\ node.rules \in Seq(Rule)
  BY DEF Good, Tree, HashAt, HashBuilt, NodeType
<1>2. X \subseteq Key
  BY <1>1, StepInTable
<1>3. Range(node.rules) \subseteq Rule
  BY <1>1 DEF Range
<1>4. ms[n] = [node EXCEPT !.rules = << >>]
  BY Zenon DEF HashBuilt
<1>5. ms[n] \in NodeType
  <2>1. << >> \in Seq(Rule)
    OBVIOUS
  <2> QED BY <1>1, <1>4, <2>1, Zenon DEF NodeType
<1>6. ms[n].rules = << >> /\ ms[n].reward = node.reward /\ Alike(node, ms[n]) /\ ms[n].fun = "Hash"
  BY <1>1, <1>4 DEF Alike, NodeType
<1>7. ASSUME NEW x \in X
      PROVE  /\ Append(n, x) \in DOMAIN ms \ DOMAIN ns /\ Append(n, x) \in Path
             /\ ms[Append(n, x)] \in NodeType /\ ms[Append(n, x)].fun = "new"
             /\ ms[Append(n, x)].state = ChildState(node, x)
             /\ ms[Append(n, x)].rules = RulesFor(node, x)
             /\ ms[Append(n, x)].rules # << >>
             /\ ms[Append(n, x)].reward = 0
             /\ RulesFor(node, x) \in Seq(Rule)
             /\ Range(RulesFor(node, x)) = {r \in Range(node.rules) : Step(node, r) = x}
             /\ Sound(node.rules) => Sound(RulesFor(node, x))
  <2> DEFINE c == Append(n, x)
             v == RulesFor(node, x)
             s == ChildState(node, x)
  <2>1. x \in Key
    BY <1>2
  <2>2. c \in Path /\ c \notin DOMAIN ns
    BY <1>1, <2>1, ChildPath, NoChildYet
  <2>3. c \in DOMAIN ms
    BY DEF HashBuilt
  <2>4. ms[c] = NewNode(s, v)
    BY Zenon DEF HashBuilt
  <2>5. v = Only(node.rules, {r \in Rule : Step(node, r) = x})
    BY DEF RulesFor
  <2>6. /\ v \in Seq(Rule) /\ Range(v) = Range(node.rules) \cap {r \in Rule : Step(node, r) = x}
        /\ Sound(node.rules) => Sound(v)
    <3> HIDE DEF v
    <3> QED BY <1>1, <2>5, OnlyIs DEF Sound
  <2>7. Range(v) = {r \in Range(node.rules) : Step(node, r) = x}
    BY <1>3, <2>6
  <2>8. v # << >>
    <3>1. PICK r \in Range(node.rules) : Step(node, r) = x
      OBVIOUS
    <3>2. r \in Range(v)
      BY <2>7, <3>1
    <3> HIDE DEF v
    <3> QED BY <3>2 DEF Range
  <2>9. s \in State
    <3>1. PICK o \in Op[node.dim] : node.bit = LeastBit[node.dim] + o
      BY Zenon DEF HashBuilt
    <3>2. node.state[node.dim] = -1
      BY DEF HashBuilt
    <3> QED BY <1>1, <3>1, <3>2, ChildIs
  <2> HIDE DEF v, s, c
  <2>10. /\ ms[c] \in NodeType /\ ms[c].fun = "new" /\ ms[c].state = s /\ ms[c].rules = v
         /\ ms[c].reward = 0
    BY <2>4, <2>6, <2>9, DimIs DEF NewNode, NodeType
  <2>11. ms[c].rules # << >>
    BY <2>8, <2>10
  <2> QED BY <2>2, <2>3, <2>6, <2>7, <2>10, <2>11 DEF c, v, s
<1> QED BY <1>1, <1>2, <1>3, <1>5, <1>6, <1>7 DEF NodeBuilt

LEMMA HashBuiltIsGood ==
  ASSUME NEW ns, Good(ns), NEW n \in DOMAIN ns, ns[n].fun = "new",
         NEW ms, NEW node, HashBuilt(ns, ms, n, node)
  PROVE  Good(ms)
<1> DEFINE X == {Step(node, r) : r \in Range(node.rules)}
<1>1. /\ ms[n] \in NodeType /\ Alike(node, ms[n]) /\ ms[n].fun = "Hash"
      /\ n \in Path /\ ~HashAt(ns, n) /\ X \subseteq Key
      /\ \A x \in X : /\ Append(n, x) \in DOMAIN ms \ DOMAIN ns /\ Append(n, x) \in Path
                      /\ ms[Append(n, x)] \in NodeType /\ ms[Append(n, x)].fun = "new"
                      /\ ms[Append(n, x)].state = ChildState(node, x)
                      /\ ms[Append(n, x)].rules # << >>
  <2>1. NodeBuilt(ns, ms, n, node, X)
    BY HashBuiltIs
  <2> HIDE DEF X
  <2> QED BY <2>1 DEF NodeBuilt
<1>2. /\ node \in NodeType /\ node.fun = "Hash" /\ node.state = ns[n].state
      /\ node.state[node.dim] = -1
      /\ \E o \in Op[node.dim] : node.bit = LeastBit[node.dim] + o
      /\ DOMAIN ms = DOMAIN ns \cup {Append(n, x) : x \in X} /\ ms = [m \in DOMAIN ms |-> ms[m]]
      /\ \A m \in DOMAIN ns \ {n} : ms[m] = ns[m]
  BY Zenon DEF HashBuilt
<1>3. \A x \in X : x \in -1 .. 2^node.nHashBit - 1
  BY <1>2, StepInTable
<1> HIDE DEF X
<1>4. \A m \in DOMAIN ms : m = n \/ (m \in DOMAIN ns /\ m # n /\ ms[m] = ns[m])
                           \/ \E x \in X : m = Append(n, x)
  BY <1>2
<1>5. Tree(ms)
  <2>1. ASSUME NEW m \in DOMAIN ms
        PROVE  m \in Path /\ ms[m] \in NodeType
    BY <1>1, <1>4 DEF Good, Tree
  <2>2. DOMAIN ms \subseteq Path
    BY <2>1
  <2>3. ms \in [DOMAIN ms -> NodeType]
    BY <1>2, <2>1, Zenon
  <2> QED BY <2>2, <2>3 DEF Tree
<1>6. Shaped(ms)
  <2> SUFFICES ASSUME NEW m \in DOMAIN ms
               PROVE  /\ ms[m].fun = "Hash" => /\ ms[m].state[ms[m].dim] = -1
                                               /\ \E o \in Op[ms[m].dim] : ms[m].bit = LeastBit[ms[m].dim] + o
                      /\ ms[m].fun = "new" => ms[m].rules # << >>
    BY DEF Shaped
  <2>1. CASE m = n
    BY <1>1, <1>2, <2>1 DEF Alike
  <2>2. CASE m \in DOMAIN ns /\ ms[m] = ns[m]
    BY <2>2 DEF Good, Shaped
  <2>3. CASE \E x \in X : m = Append(n, x)
    BY <1>1, <2>3
  <2> QED BY <1>4, <2>1, <2>2, <2>3
<1>7. Hung(ms)
  <2>1. << >> \in DOMAIN ms /\ ms[<< >>].state = Unhashed
    <3>1. << >> \in DOMAIN ns /\ ns[<< >>].state = Unhashed
      BY DEF Good, Hung
    <3> QED BY <1>1, <1>2, <3>1 DEF Alike
  <2>2. ASSUME NEW m \in DOMAIN ms \ {<< >>}
        PROVE  /\ HashAt(ms, Front(m))
               /\ Last(m) \in -1 .. 2^ms[Front(m)].nHashBit - 1
               /\ ms[m].state = ChildState(ms[Front(m)], Last(m))
               /\ Len(m) = Cardinality(Marked(ms[m].state))
    <3>1. CASE m \in DOMAIN ns
      <4>1. /\ HashAt(ns, Front(m))
            /\ Last(m) \in -1 .. 2^ns[Front(m)].nHashBit - 1
            /\ ns[m].state = ChildState(ns[Front(m)], Last(m))
            /\ Len(m) = Cardinality(Marked(ns[m].state))
        BY <3>1 DEF Good, Hung
      <4>2. ms[Front(m)] = ns[Front(m)] /\ Front(m) \in DOMAIN ms
        BY <1>1, <1>2, <4>1 DEF HashAt
      <4>3. ms[m].state = ns[m].state
        BY <1>1, <1>2, <3>1 DEF Alike
      <4> QED BY <4>1, <4>2, <4>3 DEF HashAt
    <3>2. CASE m \notin DOMAIN ns
      <4>1. PICK x \in X : m = Append(n, x)
        BY <1>2, <3>2
      <4>2. Front(m) = n /\ Last(m) = x /\ Len(m) = Len(n) + 1
        <5>1. x \in Key
          BY <1>1
        <5> QED BY <1>1, <4>1, <5>1, ChildPath
      <4>3. HashAt(ms, n)
        BY <1>1, <1>2 DEF HashAt
      <4>4. x \in -1 .. 2^ms[n].nHashBit - 1
        BY <1>1, <1>3 DEF Alike
      <4>5. ms[m].state = ChildState(node, x)
        BY <1>1, <4>1
      <4>6. ChildState(ms[n], x) = ChildState(node, x)
        BY <1>1 DEF Alike, ChildState
      <4>7. Len(m) = Cardinality(Marked(ms[m].state))
        <5>1. PICK o \in Op[node.dim] : node.bit = LeastBit[node.dim] + o
          BY <1>2
        <5>2. Cardinality(Marked(ChildState(node, x))) = Cardinality(Marked(node.state)) + 1
          BY <1>2, <5>1, ChildIs
        <5>3. Len(n) = Cardinality(Marked(node.state))
          BY <1>2, DepthIs
        <5> QED BY <4>2, <4>5, <5>2, <5>3
      <4> QED BY <4>2, <4>3, <4>4, <4>5, <4>6, <4>7
    <3> QED BY <3>1, <3>2
  <2> QED BY <2>1, <2>2 DEF Hung
<1> QED BY <1>5, <1>6, <1>7 DEF Good

\* The rules that came to n go one step further; the others stay.
LEMMA HashBuiltPlaces ==
  ASSUME NEW ns, Good(ns), NEW n \in DOMAIN ns, ns[n].fun = "new",
         NEW ms, NEW node, HashBuilt(ns, ms, n, node), NEW r
  PROVE  PlaceIn(ms, r) = IF PlaceIn(ns, r) = n THEN Append(n, Step(node, r)) ELSE PlaceIn(ns, r)
<1> DEFINE X == {Step(node, q) : q \in Range(node.rules)}
           p == PlaceIn(ns, r)
<1>1. /\ Alike(node, ms[n]) /\ n \in Path /\ ~HashAt(ns, n) /\ ms[n].fun = "Hash"
      /\ \A x \in X : Append(n, x) \notin DOMAIN ns /\ ms[Append(n, x)].fun = "new"
  <2>1. NodeBuilt(ns, ms, n, node, X)
    BY HashBuiltIs
  <2> HIDE DEF X
  <2> QED BY <2>1 DEF NodeBuilt
<1>2. /\ DOMAIN ms = DOMAIN ns \cup {Append(n, x) : x \in X}
      /\ \A m \in DOMAIN ns \ {n} : ms[m] = ns[m]
  BY Zenon DEF HashBuilt
<1>3. Good(ms)
  BY HashBuiltIsGood
<1>4. Ends(ns, r, p)
  BY GoodPlace
<1> HIDE DEF X, p
<1>5. \A m : HashAt(ns, m) => HashAt(ms, m) /\ ms[m] = ns[m]
  BY <1>1, <1>2 DEF HashAt
<1>6. \A m : HashAt(ms, m) => m = n \/ HashAt(ns, m)
  BY <1>1, <1>2 DEF HashAt
<1>7. Routed(ms, r, p)
  BY <1>4, <1>5 DEF Ends, Routed
<1>8. CASE p # n
  <2>1. Ends(ms, r, p)
    BY <1>4, <1>6, <1>7, <1>8 DEF Ends
  <2>2. PlaceIn(ms, r) = p
    BY <1>3, <2>1, GoodPlace
  <2> QED BY <1>8, <2>2 DEF p
<1>9. CASE p = n
  <2>1. HashAt(ms, n)
    BY <1>1, <1>2 DEF HashAt
  <2>2. Step(ms[n], r) = Step(node, r)
    BY <1>1, StepSame DEF Alike
  <2> DEFINE q == Append(n, Step(ms[n], r))
  <2>3. Routed(ms, r, q) /\ Step(ms[n], r) \in Key
    BY <1>3, <1>7, <1>9, <2>1, RoutedFurther DEF Good
  <2>4. q # n /\ q \notin DOMAIN ns
    <3>1. q # n
      <4>1. Len(q) = Len(n) + 1 /\ Len(n) \in Nat
        BY <1>1, <2>3, ChildPath
      <4> HIDE DEF q
      <4> QED BY <4>1
    <3> QED BY <1>1, <2>3, <3>1, NoChildYet
  <2> HIDE DEF q
  <2>5. ~HashAt(ms, q)
    BY <1>6, <2>4 DEF HashAt
  <2>6. PlaceIn(ms, r) = q
    BY <1>3, <2>3, <2>5, GoodPlace DEF Ends
  <2> QED BY <1>9, <2>2, <2>6 DEF p, q
<1> QED BY <1>8, <1>9

-----------------------------------------------------------------------------
(***************************************************************************)
(* The invariant: each step keeps it.                                      *)
(***************************************************************************)

LEMMA LeafBuiltIsTamed ==
  ASSUME NEW ns, Good(ns), NEW n \in DOMAIN ns, NEW leaf \in {"linear", "TM"},
         NEW ms, LeafBuilt(ns, ms, n, leaf)
  PROVE  Tamed(ns, ms)
<1>1. Tree(ms)
  BY DEF LeafBuilt, Tree, Good
<1>2. \A m \in DOMAIN ns : Alike(ns[m], ms[m])
  BY DEF LeafBuilt
<1>3. \A m \in DOMAIN ms : ms[m].fun = "new" => ms[m].rules # << >>
  BY DEF LeafBuilt, Good, Shaped
<1> QED BY <1>1, <1>2, <1>3 DEF Tamed, LeafBuilt

LEMMA BuildLeafKeeps ==
  ASSUME Inv, ~Ready, queue # << >>, NEW n, n = Head(queue), n \in DOMAIN nodes,
         NEW leaf \in {"linear", "TM"}, LeafBuilt(nodes, nodes', n, leaf),
         queue' = Tail(queue), policy' = policy, built' = built, live' = live
  PROVE  Inv'
<1>1. Good(nodes) /\ QueuedIn(nodes, queue) /\ Holds(nodes, live) /\ Stored(nodes, live)
      /\ \A r \in built : ServedIn(nodes, r)
  BY DEF Inv, Good
<1>2. PICK ns : ns = nodes
  OBVIOUS
<1>3. PICK ms : ms = nodes'
  OBVIOUS
<1>4. LeafBuilt(ns, ms, n, leaf) /\ Good(ns) /\ n \in DOMAIN ns
  BY <1>1, <1>2, <1>3
<1>5. Tamed(ns, ms)
  BY <1>4, LeafBuiltIsTamed
<1>6. /\ Good(ms) /\ \A r : PlaceIn(ms, r) = PlaceIn(ns, r)
      /\ \A r : ServedIn(ns, r) => ServedIn(ms, r)
  BY <1>4, <1>5, TamedIsGood
<1>7. /\ DOMAIN ms = DOMAIN ns
      /\ \A m \in DOMAIN ns : /\ ms[m].fun = IF m = n THEN leaf ELSE ns[m].fun
                              /\ ms[m].rules = ns[m].rules
                              /\ ms[m].fun = "Hash" <=> ns[m].fun = "Hash"
  BY <1>4 DEF LeafBuilt, Alike
<1>8. Holds(ms, live)
  <2>1. Holds(ns, live)
    BY <1>1, <1>2
  <2> QED BY <1>6, <1>7, <2>1 DEF Holds
<1>9. Stored(ms, live)
  <2>1. Stored(ns, live)
    BY <1>1, <1>2
  <2> QED BY <1>6, <1>7, <2>1 DEF Stored
<1>10. QueuedIn(ms, queue')
  <2>1. queue \in Seq(DOMAIN ns) /\ IsInjective(queue) /\ Range(queue) = {m \in DOMAIN ns : ns[m].fun = "new"}
    BY <1>1, <1>2 DEF QueuedIn
  <2>2. /\ Tail(queue) \in Seq(DOMAIN ns) /\ IsInjective(Tail(queue))
        /\ Range(Tail(queue)) = Range(queue) \ {Head(queue)}
    BY <2>1, TailIs
  <2>3. Range(queue') = {m \in DOMAIN ms : ms[m].fun = "new"}
    BY <1>7, <2>1, <2>2
  <2> QED BY <1>7, <2>2, <2>3 DEF QueuedIn
<1>11. \A r \in built' : ServedIn(ms, r)
  BY <1>1, <1>2, <1>6
<1>12. live = built
  BY DEF Inv
<1> QED BY <1>3, <1>6, <1>8, <1>9, <1>10, <1>11, <1>12 DEF Inv, Good

LEMMA SoundRules ==
  ASSUME NEW ns, Tree(ns), NEW lv, Holds(ns, lv), NEW n \in DOMAIN ns
  PROVE  Sound(ns[n].rules)
BY DEF Tree, NodeType, Holds, Sound

LEMMA HashBuiltHolds ==
  ASSUME NEW ns, Good(ns), NEW lv \in SUBSET Rule, Holds(ns, lv),
         NEW n \in DOMAIN ns, ns[n].fun = "new",
         NEW ms, NEW node, HashBuilt(ns, ms, n, node)
  PROVE  Holds(ms, lv)
<1> DEFINE X == {Step(node, r) : r \in Range(node.rules)}
<1>1. NodeBuilt(ns, ms, n, node, X)
  BY HashBuiltIs
<1>2. /\ DOMAIN ms = DOMAIN ns \cup {Append(n, x) : x \in X}
      /\ \A m \in DOMAIN ns \ {n} : ms[m] = ns[m]
      /\ node.rules = ns[n].rules /\ node \in NodeType
  BY Zenon DEF HashBuilt
<1>3. Sound(node.rules) /\ Range(node.rules) = {r \in lv : PlaceIn(ns, r) = n}
  <2>1. Sound(ns[n].rules)
    BY SoundRules DEF Good
  <2> QED BY <1>2, <2>1 DEF Holds
<1>4. \A r : PlaceIn(ms, r) = IF PlaceIn(ns, r) = n THEN Append(n, Step(node, r)) ELSE PlaceIn(ns, r)
  BY HashBuiltPlaces
<1>5. \A r : Append(n, Step(node, r)) \notin DOMAIN ns /\ Append(n, Step(node, r)) # n /\ Step(node, r) \in Key
  <2> TAKE r
  <2>1. n \in Path /\ ~HashAt(ns, n)
    BY <1>1 DEF NodeBuilt
  <2>2. Step(node, r) \in Key
    BY <1>2, StepInTable
  <2>3. Append(n, Step(node, r)) \notin DOMAIN ns
    BY <2>1, <2>2, NoChildYet
  <2> QED BY <2>2, <2>3
<1> HIDE DEF X
<1> SUFFICES ASSUME NEW m \in DOMAIN ms
             PROVE  /\ InDescendingOrder(ms[m].rules) /\ IsInjective(ms[m].rules)
                    /\ ms[m].fun # "Hash" => Range(ms[m].rules) = {r \in lv : PlaceIn(ms, r) = m}
                    /\ ms[m].fun = "Hash" => ms[m].rules = << >>
  BY DEF Holds
<1>6. CASE m = n
  <2>1. ms[m].fun = "Hash" /\ ms[m].rules = << >>
    BY <1>1, <1>6 DEF NodeBuilt
  <2>2. InDescendingOrder(<< >>) /\ IsInjective(<< >>)
    BY DEF InDescendingOrder, IsInjective
  <2> QED BY <2>1, <2>2
<1>7. CASE m \in DOMAIN ns /\ m # n
  <2>1. ms[m] = ns[m]
    BY <1>2, <1>7
  <2>2. \A r : PlaceIn(ms, r) = m <=> PlaceIn(ns, r) = m
    BY <1>4, <1>5, <1>7
  <2> QED BY <1>7, <2>1, <2>2 DEF Holds
<1>8. CASE m \notin DOMAIN ns
  <2>1. PICK x \in X : m = Append(n, x)
    BY <1>2, <1>8
  <2>2. /\ ms[m].fun = "new" /\ Sound(ms[m].rules)
        /\ Range(ms[m].rules) = {r \in Range(node.rules) : Step(node, r) = x}
    BY <1>1, <1>3, <2>1 DEF NodeBuilt
  <2>3. n \in Path /\ ~HashAt(ns, n) /\ x \in Key
    BY <1>1 DEF NodeBuilt
  <2>4. \A r : Append(n, Step(node, r)) = Append(n, x) => Step(node, r) = x
    <3> SUFFICES ASSUME NEW r, Append(n, Step(node, r)) = Append(n, x)
                 PROVE  Step(node, r) = x
      OBVIOUS
    <3>1. Last(Append(n, Step(node, r))) = Step(node, r) /\ Last(Append(n, x)) = x
      BY <1>5, <2>3, ChildPath
    <3> QED BY <3>1
  <2>5. \A r : PlaceIn(ns, r) # m
    <3> SUFFICES ASSUME NEW r, PlaceIn(ns, r) = m
                 PROVE  FALSE
      OBVIOUS
    <3>1. Routed(ns, r, m)
      BY GoodPlace DEF Ends
    <3>2. Routed(ns, r, Append(n, x))
      BY <2>1, <3>1
    <3>3. HashAt(ns, n)
      BY <2>3, <3>2, RoutedAbove
    <3> QED BY <2>3, <3>3
  <2>6. \A r : PlaceIn(ms, r) = m <=> PlaceIn(ns, r) = n /\ Step(node, r) = x
    BY <1>4, <2>1, <2>4, <2>5
  <2>7. Range(ms[m].rules) = {r \in lv : PlaceIn(ms, r) = m}
    BY <1>3, <2>2, <2>6
  <2> QED BY <2>2, <2>7 DEF Sound
<1> QED BY <1>6, <1>7, <1>8

LEMMA HashBuiltStored ==
  ASSUME NEW ns, Good(ns), NEW lv \in SUBSET Rule, Holds(ns, lv), Stored(ns, lv),
         NEW n \in DOMAIN ns, ns[n].fun = "new",
         NEW ms, NEW node, HashBuilt(ns, ms, n, node)
  PROVE  /\ Stored(ms, lv)
         /\ \A r \in lv : ServedIn(ns, r) => ServedIn(ms, r)
<1> DEFINE X == {Step(node, r) : r \in Range(node.rules)}
<1>1. NodeBuilt(ns, ms, n, node, X)
  BY HashBuiltIs
<1>2. /\ DOMAIN ms = DOMAIN ns \cup {Append(n, x) : x \in X}
      /\ \A m \in DOMAIN ns \ {n} : ms[m] = ns[m]
      /\ node.rules = ns[n].rules
      /\ \A r \in Range(node.rules) : Step(node, r) = Big => r.priority <= node.maxBigPriority
  BY Zenon DEF HashBuilt
<1>3. Range(node.rules) = {r \in lv : PlaceIn(ns, r) = n}
  BY <1>2 DEF Holds
<1>4. \A r : PlaceIn(ms, r) = IF PlaceIn(ns, r) = n THEN Append(n, Step(node, r)) ELSE PlaceIn(ns, r)
  BY HashBuiltPlaces
<1>5. \A r \in Range(node.rules) : Step(node, r) \in X
  OBVIOUS
<1> HIDE DEF X
<1>6. Stored(ms, lv)
  BY <1>2, <1>3, <1>4, <1>5 DEF Stored
<1>7. ASSUME NEW r \in lv, ServedIn(ns, r)
      PROVE  ServedIn(ms, r)
  <2> DEFINE p == PlaceIn(ns, r)
             q == PlaceIn(ms, r)
  <2>1. Ends(ns, r, p) /\ p \in Path /\ p \in Seq(Key)
    BY GoodPlace DEF Path
  <2>2. \A i \in 1 .. Len(p) : HashAt(ns, SubSeq(p, 1, i - 1))
    BY <2>1 DEF Ends, Routed
  <2>3. ASSUME NEW i \in 1 .. Len(p), p[i] = Big
        PROVE  /\ Append(SubSeq(p, 1, i - 1), Big) \in DOMAIN ms
               /\ r.priority <= ms[SubSeq(p, 1, i - 1)].maxBigPriority
    <3>1. /\ Append(SubSeq(p, 1, i - 1), Big) \in DOMAIN ns
          /\ r.priority <= ns[SubSeq(p, 1, i - 1)].maxBigPriority
      BY <1>7, <2>1, <2>3 DEF ServedIn
    <3>2. ms[SubSeq(p, 1, i - 1)] = ns[SubSeq(p, 1, i - 1)]
      BY <1>1, <1>2, <2>2 DEF NodeBuilt, HashAt
    <3> QED BY <1>2, <3>1, <3>2
  <2>4. CASE p # n
    <3>1. q = p
      BY <1>4, <2>4
    <3> HIDE DEF p, q
    <3>2. DOMAIN p = 1 .. Len(p)
      BY <2>1
    <3>3. ServedIn(ms, r)
      BY <2>3, <3>1, <3>2 DEF ServedIn, q
    <3> QED BY <3>3
  <2>5. CASE p = n
    <3> DEFINE x == Step(node, r)
    <3>1. q = Append(p, x) /\ r \in Range(node.rules)
      BY <1>3, <1>4, <2>5
    <3>2. x \in X /\ x \in Key
      BY <1>1, <1>5, <3>1 DEF NodeBuilt
    <3> HIDE DEF p, q, x
    <3>3. /\ Len(q) = Len(p) + 1 /\ DOMAIN q = 1 .. Len(p) + 1 /\ Len(p) \in Nat
          /\ q[Len(p) + 1] = x /\ \A i \in 1 .. Len(p) : q[i] = p[i]
      BY <2>1, <3>1, <3>2, AppendIs
    <3>4. /\ \A i \in 1 .. Len(p) + 1 : SubSeq(q, 1, i - 1) = SubSeq(p, 1, i - 1)
          /\ SubSeq(p, 1, Len(p)) = p
      BY <2>1, <3>1, <3>2, BeginningOfAppend
    <3>5. ASSUME NEW i \in DOMAIN q, q[i] = Big
          PROVE  /\ Append(SubSeq(q, 1, i - 1), Big) \in DOMAIN ms
                 /\ r.priority <= ms[SubSeq(q, 1, i - 1)].maxBigPriority
      <4>1. CASE i \in 1 .. Len(p)
        BY <2>3, <3>3, <3>4, <3>5, <4>1
      <4>2. CASE i = Len(p) + 1
        <5>1. SubSeq(q, 1, i - 1) = n
          <6>1. i - 1 = Len(p) /\ i \in 1 .. Len(p) + 1
            BY <3>3, <4>2
          <6> QED BY <2>5, <3>4, <6>1
        <5>2. x = Big
          BY <3>3, <3>5, <4>2
        <5>3. Append(n, Big) \in DOMAIN ms
          BY <1>2, <3>2, <5>2
        <5>4. r.priority <= node.maxBigPriority
          BY <1>2, <3>1, <5>2 DEF x
        <5>5. ms[n].maxBigPriority = node.maxBigPriority
          BY <1>1 DEF NodeBuilt, Alike
        <5> QED BY <5>1, <5>3, <5>4, <5>5
      <4> QED BY <3>3, <4>1, <4>2
    <3> QED BY <3>5 DEF ServedIn, q
  <2> QED BY <2>4, <2>5
<1> QED BY <1>6, <1>7

LEMMA HashBuiltQueued ==
  ASSUME NEW ns, Good(ns), NEW q, QueuedIn(ns, q), q # << >>,
         NEW n \in DOMAIN ns, ns[n].fun = "new", n = Head(q),
         NEW ms, NEW node, HashBuilt(ns, ms, n, node), NEW w, ChildrenQueued(q, w, n, node)
  PROVE  QueuedIn(ms, w)
<1> DEFINE X == {Step(node, r) : r \in Range(node.rules)}
<1>1. NodeBuilt(ns, ms, n, node, X)
  BY HashBuiltIs
<1>2. /\ DOMAIN ms = DOMAIN ns \cup {Append(n, x) : x \in X}
      /\ \A m \in DOMAIN ns \ {n} : ms[m] = ns[m]
  BY Zenon DEF HashBuilt
<1>3. PICK v \in Seq(X) : Range(v) = X /\ IsInjective(v) /\ w = Tail(q) \o [i \in DOMAIN v |-> Append(n, v[i])]
  BY DEF ChildrenQueued
<1> HIDE DEF X
<1>4. /\ Tail(q) \in Seq(DOMAIN ns) /\ IsInjective(Tail(q))
      /\ Range(Tail(q)) = {m \in DOMAIN ns : ns[m].fun = "new"} \ {n}
  BY TailIs DEF QueuedIn
<1> DEFINE c == [i \in DOMAIN v |-> Append(n, v[i])]
           t == Tail(q)
<1>5. n \in Path /\ X \subseteq Key
  BY <1>1 DEF NodeBuilt
<1>6. \A x \in X : Append(n, x) \in DOMAIN ms \ DOMAIN ns /\ ms[Append(n, x)].fun = "new"
  BY <1>1 DEF NodeBuilt
<1>7. DOMAIN v = 1 .. Len(v) /\ \A i \in DOMAIN v : v[i] \in X
  <2>1. \A i \in DOMAIN v : v[i] \in Range(v)
    BY DEF Range
  <2> QED BY <1>3, <2>1
<1>8. c \in Seq(DOMAIN ms) /\ DOMAIN c = DOMAIN v
  BY <1>6, <1>7
<1>9. Range(c) = {Append(n, x) : x \in X}
  <2>1. \A y \in Range(c) : y \in {Append(n, x) : x \in X}
    BY <1>7 DEF Range
  <2>2. ASSUME NEW x \in X
        PROVE  Append(n, x) \in Range(c)
    <3>1. PICK i \in DOMAIN v : x = v[i]
      BY <1>3 DEF Range
    <3> QED BY <3>1 DEF Range
  <2> QED BY <2>1, <2>2
<1>10. IsInjective(c)
  <2> SUFFICES ASSUME NEW i \in DOMAIN v, NEW j \in DOMAIN v, Append(n, v[i]) = Append(n, v[j])
               PROVE  i = j
    BY DEF IsInjective
  <2>1. v[i] = v[j]
    <3>1. v[i] \in Key /\ v[j] \in Key
      BY <1>5, <1>7
    <3>2. Last(Append(n, v[i])) = v[i] /\ Last(Append(n, v[j])) = v[j]
      BY <1>5, <3>1, ChildPath
    <3> QED BY <3>2
  <2> QED BY <1>3, <2>1 DEF IsInjective
<1> HIDE DEF c, t
<1>11. t \in Seq(DOMAIN ms)
  BY <1>2, <1>4 DEF t
<1>12. Range(t) \cap Range(c) = {}
  BY <1>4, <1>6, <1>9 DEF t
<1>13. w = t \o c
  BY <1>3 DEF c, t
<1>14. w \in Seq(DOMAIN ms) /\ IsInjective(w) /\ Range(w) = Range(t) \cup Range(c)
  BY <1>4, <1>8, <1>10, <1>11, <1>12, <1>13, JoinIs DEF t
<1>15. Range(w) = {m \in DOMAIN ms : ms[m].fun = "new"}
  <2>1. ms[n].fun = "Hash"
    BY <1>1 DEF NodeBuilt
  <2>2. \A m \in DOMAIN ms : m \in Range(c) => ms[m].fun = "new" /\ m \notin DOMAIN ns
    BY <1>6, <1>9
  <2>3. \A m \in DOMAIN ms : m \notin Range(c) => m \in DOMAIN ns
    BY <1>2, <1>9
  <2>4. Range(c) \subseteq DOMAIN ms
    BY <1>6, <1>9
  <2>5. Range(t) = {m \in DOMAIN ns : ns[m].fun = "new"} \ {n}
    BY <1>4 DEF t
  <2>6. "Hash" # "new"
    OBVIOUS
  <2> QED BY <1>2, <1>14, <2>1, <2>2, <2>3, <2>4, <2>5, <2>6
<1> QED BY <1>14, <1>15 DEF QueuedIn

LEMMA BuildHashKeeps ==
  ASSUME Inv, ~Ready, queue # << >>, NEW n, n = Head(queue), n \in DOMAIN nodes,
         nodes[n].fun = "new", NEW node, HashBuilt(nodes, nodes', n, node),
         ChildrenQueued(queue, queue', n, node), Policy(policy'), built' = built, live' = live
  PROVE  Inv'
<1>1. Good(nodes) /\ QueuedIn(nodes, queue) /\ Holds(nodes, live) /\ Stored(nodes, live)
      /\ \A r \in built : ServedIn(nodes, r)
  BY DEF Inv, Good
<1>2. PICK ns : ns = nodes
  OBVIOUS
<1>3. PICK ms : ms = nodes'
  OBVIOUS
<1>4. HashBuilt(ns, ms, n, node) /\ Good(ns) /\ n \in DOMAIN ns /\ ns[n].fun = "new"
  BY <1>1, <1>2, <1>3
<1>5. live = built /\ live \in SUBSET Rule
  BY DEF Inv
<1>6. Holds(ns, live) /\ Stored(ns, live) /\ QueuedIn(ns, queue)
  BY <1>1, <1>2
<1>7. Good(ms)
  BY <1>4, HashBuiltIsGood
<1>8. Holds(ms, live)
  BY <1>4, <1>5, <1>6, HashBuiltHolds
<1>9. Stored(ms, live) /\ \A r \in live : ServedIn(ns, r) => ServedIn(ms, r)
  BY <1>4, <1>5, <1>6, HashBuiltStored
<1>10. QueuedIn(ms, queue')
  BY <1>4, <1>6, HashBuiltQueued
<1>11. \A r \in built' : ServedIn(ms, r)
  BY <1>1, <1>2, <1>5, <1>9
<1> QED BY <1>3, <1>5, <1>7, <1>8, <1>9, <1>10, <1>11 DEF Inv, Good

\* A turn of the loop makes a leaf, or a Hash node of no fewer rules than binth.
BuildsLeaf(n, leaf) ==
  LeafBuilt(nodes, nodes', n, leaf) /\ queue' = Tail(queue) /\ policy' = policy

BuildsHash(n, node) ==
  /\ HashBuilt(nodes, nodes', n, node) /\ ChildrenQueued(queue, queue', n, node)
  /\ Policy(policy') /\ Len(node.rules) >= binth

LEMMA BuildNodeIs ==
  ASSUME Inv, BuildNode
  PROVE  /\ queue # << >> /\ Head(queue) \in DOMAIN nodes /\ nodes[Head(queue)].fun = "new"
         /\ built' = built /\ live' = live /\ ~Ready
         /\ \/ \E leaf \in {"linear", "TM"} : BuildsLeaf(Head(queue), leaf)
            \/ \E node : BuildsHash(Head(queue), node)
<1> DEFINE n == Head(queue)
<1>1. /\ queue # << >> /\ n \in DOMAIN nodes /\ nodes[n].fun = "new" /\ nodes[n] \in NodeType
      /\ built' = built /\ live' = live /\ ~Ready
  BY HeadIsNew DEF BuildNode
<1>2. PICK op \in getAction(nodes[n]) :
        BuiltBy(op, n, Constructed(nodes[n], op), ChildSteps(Constructed(nodes[n], op)),
                {Append(n, x) : x \in Range(ChildSteps(Constructed(nodes[n], op)))},
                IF op[1] = "TM" THEN -Len(Constructed(nodes[n], op).rules) ELSE 0)
  BY HeadIsNew
<1>3. PICK node : node = Constructed(nodes[n], op)
  OBVIOUS
<1>4. BuiltBy(op, n, node, ChildSteps(node), {Append(n, x) : x \in Range(ChildSteps(node))},
              IF op[1] = "TM" THEN -Len(node.rules) ELSE 0)
  BY <1>2, <1>3
<1> HIDE DEF n
<1>5. Policy(policy)
  BY DEF Inv
<1>6. CASE op[1] \in {"linear", "TM"}
  <2>1. PICK leaf \in {"linear", "TM"} : op[1] = leaf
    BY <1>6
  <2>2. BuildsLeaf(n, leaf)
    BY <1>1, <1>3, <1>4, <2>1, BuildLeaf DEF BuildsLeaf
  <2> QED BY <1>1, <2>2 DEF n
<1>7. CASE /\ Len(nodes[n].rules) >= binth
           /\ \E d \in Dim : \E o \in Op[d] : op = <<"Hash", d, o>> /\ nodes[n].state[d] = -1
  <2>1. PICK d \in Dim : \E o \in Op[d] : op = <<"Hash", d, o>> /\ nodes[n].state[d] = -1
    BY <1>7
  <2>2. PICK o \in Op[d] : op = <<"Hash", d, o>> /\ nodes[n].state[d] = -1
    BY <2>1
  <2>3. /\ HashBuilt(nodes, nodes', n, node) /\ ChildrenQueued(queue, queue', n, node)
        /\ Policy(policy')
    BY <1>1, <1>3, <1>4, <2>2, BuildHash
  <2>4. node.rules = nodes[n].rules
    BY <2>3 DEF HashBuilt
  <2>5. BuildsHash(n, node)
    BY <1>7, <2>3, <2>4 DEF BuildsHash
  <2> QED BY <1>1, <2>5 DEF n
<1>8. \/ op = <<"linear", -1, -1>>
      \/ op = <<"TM", -1, -1>>
      \/ /\ Len(nodes[n].rules) >= binth
         /\ \E d \in Dim : \E o \in Op[d] : op = <<"Hash", d, o>> /\ nodes[n].state[d] = -1
  BY <1>1, <1>2, <1>5, ActionIs
<1> QED BY <1>6, <1>7, <1>8

LEMMA BuildNodeKeeps ==
  ASSUME Inv, BuildNode
  PROVE  Inv'
<1>1. PICK n : n = Head(queue)
  OBVIOUS
<1>2. /\ queue # << >> /\ n \in DOMAIN nodes /\ nodes[n].fun = "new"
      /\ built' = built /\ live' = live /\ ~Ready
  BY <1>1, BuildNodeIs
<1>3. ASSUME NEW leaf \in {"linear", "TM"}, BuildsLeaf(n, leaf)
      PROVE  Inv'
  BY <1>1, <1>2, <1>3, BuildLeafKeeps DEF BuildsLeaf
<1>4. ASSUME NEW node, BuildsHash(n, node)
      PROVE  Inv'
  BY <1>1, <1>2, <1>4, BuildHashKeeps DEF BuildsHash
<1> QED BY <1>1, <1>3, <1>4, BuildNodeIs

LEMMA PlaceNow ==
  ASSUME NEW r
  PROVE  Place(r) = PlaceIn(nodes, r)
BY DEF Place, PlaceIn

\* Only the rule r came or went, and only its place n has another list.
LEMMA MovedRule ==
  ASSUME NEW ns, Good(ns), NEW lv, Holds(ns, lv), NEW r, NEW n, n = PlaceIn(ns, r),
         NEW ms, Tamed(ns, ms), NEW lw, \A s : s # r => (s \in lw <=> s \in lv),
         DOMAIN ms \subseteq DOMAIN ns \cup {n},
         \A m \in DOMAIN ns \ {n} : ms[m].rules = ns[m].rules,
         n \in DOMAIN ms => /\ ms[n].fun # "Hash" /\ Sound(ms[n].rules)
                            /\ Range(ms[n].rules) = {s \in lw : PlaceIn(ns, s) = n}
  PROVE  Holds(ms, lw)
<1>1. \A s : PlaceIn(ms, s) = PlaceIn(ns, s)
  BY TamedIsGood
<1>2. \A m \in DOMAIN ns : ms[m].fun = "Hash" <=> ns[m].fun = "Hash"
  BY DEF Tamed, Alike
<1> SUFFICES ASSUME NEW m \in DOMAIN ms
             PROVE  /\ InDescendingOrder(ms[m].rules) /\ IsInjective(ms[m].rules)
                    /\ ms[m].fun # "Hash" => Range(ms[m].rules) = {s \in lw : PlaceIn(ms, s) = m}
                    /\ ms[m].fun = "Hash" => ms[m].rules = << >>
  BY DEF Holds
<1>3. CASE m = n
  BY <1>1, <1>3 DEF Sound
<1>4. CASE m # n
  <2>1. m \in DOMAIN ns /\ ms[m].rules = ns[m].rules
    BY <1>4
  <2>2. {s \in lw : PlaceIn(ns, s) = m} = {s \in lv : PlaceIn(ns, s) = m}
    BY <1>4
  <2> QED BY <1>1, <1>2, <2>1, <2>2 DEF Holds
<1> QED BY <1>3, <1>4

\* An update keeps all nodes; another one is a list.
Updated(ns, ms) ==
  /\ Tamed(ns, ms)
  /\ \A m \in DOMAIN ns : ms[m].fun = ns[m].fun /\ ms[m].reward = ns[m].reward
  /\ \A m \in DOMAIN ms \ DOMAIN ns : ms[m].fun = "linear" /\ ms[m].reward = 0

Updates ==
  /\ Ready /\ queue' = queue /\ policy' = policy /\ built' = built
  /\ Updated(nodes, nodes') /\ Holds(nodes', live') /\ Stored(nodes', live')
  /\ live' \in SUBSET Rule

\* With an empty queue every node is built.
LEMMA NoneIsNew ==
  ASSUME Inv, Ready
  PROVE  \A n \in DOMAIN nodes : nodes[n].fun # "new"
<1>1. Range(queue) = {}
  BY DEF Ready, Range
<1>2. Range(queue) = {n \in DOMAIN nodes : nodes[n].fun = "new"}
  BY DEF Inv, QueuedIn
<1> QED BY <1>1, <1>2

LEMMA UpdateKeeps ==
  ASSUME Inv, Updates
  PROVE  Inv'
<1>0. Tamed(nodes, nodes') /\ \A m \in DOMAIN nodes' : nodes'[m].fun # "new"
  BY NoneIsNew DEF Updates, Updated
<1>1. Good(nodes) /\ \A r \in built : ServedIn(nodes, r)
  BY DEF Inv, Good
<1>2. PICK ns : ns = nodes
  OBVIOUS
<1>3. PICK ms : ms = nodes'
  OBVIOUS
<1>4. Good(ms) /\ \A r : ServedIn(ns, r) => ServedIn(ms, r)
  <2>1. Good(ns) /\ Tamed(ns, ms)
    BY <1>0, <1>1, <1>2, <1>3
  <2> QED BY <2>1, TamedIsGood
<1>5. QueuedIn(ms, queue')
  <2>1. queue' = << >>
    BY DEF Updates, Ready
  <2>2. {m \in DOMAIN ms : ms[m].fun = "new"} = {}
    BY <1>0, <1>3
  <2>3. << >> \in Seq(DOMAIN ms) /\ Range(<< >>) = {} /\ IsInjective(<< >>)
    BY DEF Range, IsInjective
  <2> QED BY <2>1, <2>2, <2>3 DEF QueuedIn
<1>6. Ready'
  BY DEF Updates, Ready
<1>7. \A r \in built' : ServedIn(ms, r)
  BY <1>1, <1>2, <1>4 DEF Updates
<1> QED BY <1>3, <1>4, <1>5, <1>6, <1>7 DEF Inv, Good, Updates

LEMMA TamedSelf ==
  ASSUME NEW ns, Good(ns)
  PROVE  Tamed(ns, ns)
BY DEF Good, Shaped, Tamed, Alike

\* The list of one leaf is another.
Relisted(ns, ms, n, list) ==
  /\ DOMAIN ms = DOMAIN ns
  /\ \A m \in DOMAIN ns : /\ ms[m].fun = ns[m].fun /\ ms[m].reward = ns[m].reward
                          /\ m # n => ms[m].rules = ns[m].rules
  /\ ms[n].rules = list

LEMMA ListChanged ==
  ASSUME NEW ns, Good(ns), NEW n \in DOMAIN ns, ns[n].fun # "new", NEW list \in Seq(Rule),
         NEW ms, ms = [ns EXCEPT ![n].rules = list]
  PROVE  Tamed(ns, ms) /\ Relisted(ns, ms, n, list)
<1>1. DOMAIN ns \subseteq Path /\ ns \in [DOMAIN ns -> NodeType]
  BY DEF Good, Tree
<1>2. ns[n] \in NodeType
  BY <1>1
<1> DEFINE c == [ns[n] EXCEPT !.rules = list]
<1>3. /\ c \in NodeType /\ Alike(ns[n], c) /\ c.fun = ns[n].fun /\ c.reward = ns[n].reward
      /\ c.rules = list
  BY <1>2 DEF NodeType, Alike
<1>4. ms = [ns EXCEPT ![n] = c]
  OBVIOUS
<1> HIDE DEF c
<1>5. DOMAIN ms = DOMAIN ns /\ \A m \in DOMAIN ns : ms[m] = IF m = n THEN c ELSE ns[m]
  BY <1>1, <1>4
<1>6. Tree(ms)
  <2>1. ms \in [DOMAIN ns -> NodeType]
    BY <1>1, <1>3, <1>4
  <2> QED BY <1>1, <1>5, <2>1 DEF Tree
<1>7. \A m \in DOMAIN ns : Alike(ns[m], ms[m])
  BY <1>3, <1>5 DEF Alike
<1>8. \A m \in DOMAIN ms : ms[m].fun = "new" => ms[m].rules # << >>
  BY <1>3, <1>5 DEF Good, Shaped
<1> QED BY <1>3, <1>5, <1>6, <1>7, <1>8 DEF Tamed, Relisted

\* A place without a node is below a Hash node.
LEMMA NoNodeAt ==
  ASSUME NEW ns, Good(ns), NEW r, NEW n, n = PlaceIn(ns, r), n \notin DOMAIN ns
  PROVE  /\ n \in Path /\ n # << >> /\ HashAt(ns, Front(n))
         /\ Last(n) \in -1 .. 2^ns[Front(n)].nHashBit - 1
<1>1. n \in Path /\ Routed(ns, r, n)
  BY GoodPlace DEF Ends
<1>2. n # << >> /\ n \in Seq(Key)
  BY <1>1 DEF Path, Good, Hung
<1>3. /\ n = Append(Front(n), Last(n)) /\ Front(n) \in Path /\ Last(n) \in Key
  BY <1>2, FrontLast DEF Path
<1>4. PICK f \in Path, x \in Key : f = Front(n) /\ x = Last(n)
  BY <1>3
<1>5. Routed(ns, r, Append(f, x))
  BY <1>1, <1>3, <1>4
<1>6. HashAt(ns, f) /\ x = Step(ns[f], r)
  BY <1>5, RoutedAbove
<1>7. ns[f] \in NodeType
  BY <1>6 DEF Good, Tree, HashAt
<1>8. x \in -1 .. 2^ns[f].nHashBit - 1
  BY <1>6, <1>7, StepInTable
<1> QED BY <1>1, <1>2, <1>4, <1>6, <1>8

\* A list for a rule that found no node.
LEMMA ChildAdded ==
  ASSUME NEW ns, Good(ns), NEW r \in Rule, NEW n, n = PlaceIn(ns, r), n \notin DOMAIN ns,
         NEW ms,
         ms = [m \in DOMAIN ns \cup {n} |->
                 IF m = n THEN [NewNode(ChildState(ns[Front(n)], Last(n)), <<r>>) EXCEPT !.fun = "linear"]
                          ELSE ns[m]]
  PROVE  /\ Tamed(ns, ms) /\ DOMAIN ms = DOMAIN ns \cup {n}
         /\ \A m \in DOMAIN ns : ms[m] = ns[m]
         /\ ms[n].fun = "linear" /\ ms[n].rules = <<r>> /\ ms[n].reward = 0
<1>1. /\ n \in Path /\ n # << >> /\ HashAt(ns, Front(n))
      /\ Last(n) \in -1 .. 2^ns[Front(n)].nHashBit - 1
  BY NoNodeAt
<1> DEFINE s == ChildState(ns[Front(n)], Last(n))
           c == [NewNode(s, <<r>>) EXCEPT !.fun = "linear"]
<1>2. s \in State
  <2>1. PICK a : a = ns[Front(n)]
    OBVIOUS
  <2>2. a \in NodeType /\ a.state[a.dim] = -1 /\ \E o \in Op[a.dim] : a.bit = LeastBit[a.dim] + o
    BY <1>1, <2>1 DEF Good, Tree, Shaped, HashAt
  <2>3. ChildState(a, Last(n)) \in State
    BY <2>2, ChildIs
  <2> QED BY <2>1, <2>3
<1> HIDE DEF s
<1>3. c \in NodeType /\ c.fun = "linear" /\ c.rules = <<r>> /\ c.reward = 0 /\ c.state = s
  <2> DEFINE v == <<r>>
             b == NewNode(s, v)
  <2>1. v \in Seq(Rule)
    OBVIOUS
  <2> HIDE DEF v
  <2>2. b \in NodeType /\ b.rules = v /\ b.reward = 0 /\ b.state = s
    BY <1>2, <2>1, DimIs DEF NewNode, NodeType
  <2> HIDE DEF b
  <2>3. c = [b EXCEPT !.fun = "linear"]
    BY DEF b, v
  <2> QED BY <2>2, <2>3 DEF NodeType, v
<1>4. DOMAIN ms = DOMAIN ns \cup {n} /\ ms[n] = c /\ \A m \in DOMAIN ns : ms[m] = ns[m]
  BY DEF s
<1>5. ms = [m \in DOMAIN ms |-> ms[m]]
  BY <1>4
<1> HIDE DEF c
<1>6. Tree(ms)
  <2>1. \A m \in DOMAIN ms : m \in Path /\ ms[m] \in NodeType
    BY <1>1, <1>3, <1>4 DEF Good, Tree
  <2>2. ms \in [DOMAIN ms -> NodeType]
    BY <1>5, <2>1, Zenon
  <2> QED BY <2>1, <2>2 DEF Tree
<1>7. \A m \in DOMAIN ms : ms[m].fun = "new" => ms[m].rules # << >>
  BY <1>3, <1>4 DEF Good, Shaped
<1>8. Tamed(ns, ms)
  <2>1. \A m \in DOMAIN ns : Alike(ns[m], ms[m])
    BY <1>4 DEF Alike
  <2>2. ms[n].fun # "Hash" /\ ms[n].state = ChildState(ns[Front(n)], Last(n))
    BY <1>3, <1>4 DEF s
  <2> QED BY <1>1, <1>4, <1>6, <1>7, <2>1, <2>2 DEF Tamed
<1> QED BY <1>3, <1>4, <1>8

LEMMA InsertUpdates ==
  ASSUME Inv, NEW r \in Rule, InsertRule(r)
  PROVE  Updates
<1>1. PICK ns : ns = nodes
  OBVIOUS
<1>2. PICK ms : ms = nodes'
  OBVIOUS
<1>3. PICK n : n = PlaceIn(ns, r)
  OBVIOUS
<1>4. PICK lw : lw = live \cup {r}
  OBVIOUS
<1>5. Place(r) = n
  BY <1>1, <1>3, PlaceNow
<1>6. /\ Good(ns) /\ Holds(ns, live) /\ Stored(ns, live) /\ live \in SUBSET Rule
  BY <1>1 DEF Inv, Good
<1>7. /\ Ready /\ r \notin live /\ live' = lw
      /\ queue' = queue /\ policy' = policy /\ built' = built
  BY <1>4 DEF InsertRule
<1>8. \A m \in DOMAIN ns : ns[m].fun # "new"
  BY <1>1, <1>7, NoneIsNew
<1>9. ~HashAt(ns, n) /\ n \in Path
  BY <1>3, <1>6, GoodPlace DEF Ends
<1>10. \A s : s # r => (s \in lw <=> s \in live)
  BY <1>4
<1>11. /\ \/ n \in DOMAIN ns /\ ms = [ns EXCEPT ![n].rules = InsertSortedByPriority(@, r)]
          \/ /\ n \notin DOMAIN ns
             /\ ms = [m \in DOMAIN ns \cup {n} |->
                        IF m = n THEN [NewNode(ChildState(ns[Front(n)], Last(n)), <<r>>) EXCEPT !.fun = "linear"]
                                 ELSE ns[m]]
             /\ Last(n) # Big
          \/ n \notin DOMAIN ns /\ ms = ns /\ Last(n) = Big
  BY <1>1, <1>2, <1>5 DEF InsertRule
<1> SUFFICES Updated(ns, ms) /\ Holds(ms, lw) /\ Stored(ms, lw)
  BY <1>1, <1>2, <1>4, <1>6, <1>7 DEF Updates
<1>12. CASE n \in DOMAIN ns /\ ms = [ns EXCEPT ![n].rules = InsertSortedByPriority(@, r)]
  <2>1. Sound(ns[n].rules) /\ Range(ns[n].rules) = {s \in live : PlaceIn(ns, s) = n}
    <3>1. Sound(ns[n].rules)
      BY <1>6, <1>12, SoundRules DEF Good
    <3> QED BY <1>6, <1>9, <1>12, <3>1 DEF Holds, HashAt
  <2> PICK list : list = InsertSortedByPriority(ns[n].rules, r)
    OBVIOUS
  <2>2. Sound(list) /\ Range(list) = Range(ns[n].rules) \cup {r}
    BY <1>7, <2>1, ListWithIs
  <2>3. ms = [ns EXCEPT ![n].rules = list] /\ ns[n].fun # "new" /\ list \in Seq(Rule)
    BY <1>8, <1>12, <2>2 DEF Sound
  <2>4. Tamed(ns, ms) /\ Relisted(ns, ms, n, list)
    BY <1>6, <1>12, <2>3, ListChanged
  <2>5. Range(list) = {s \in lw : PlaceIn(ns, s) = n}
    BY <1>3, <1>4, <2>1, <2>2
  <2>6. Holds(ms, lw)
    <3>1. /\ ms[n].fun # "Hash" /\ ms[n].rules = list /\ DOMAIN ms \subseteq DOMAIN ns \cup {n}
          /\ \A m \in DOMAIN ns \ {n} : ms[m].rules = ns[m].rules
      <4>1. n \in DOMAIN ns /\ ns[n].fun # "Hash"
        BY <1>9, <1>12 DEF HashAt
      <4> QED BY <2>4, <4>1 DEF Relisted
    <3> QED BY <1>3, <1>6, <1>10, <2>2, <2>4, <2>5, <3>1, MovedRule
  <2>7. \A s : PlaceIn(ms, s) = PlaceIn(ns, s)
    BY <1>6, <2>4, TamedIsGood
  <2>8. Stored(ms, lw)
    BY <1>3, <1>4, <1>6, <1>12, <2>4, <2>7 DEF Stored, Relisted
  <2> QED BY <2>4, <2>6, <2>8 DEF Relisted, Updated
<1>13. CASE /\ n \notin DOMAIN ns
            /\ ms = [m \in DOMAIN ns \cup {n} |->
                       IF m = n THEN [NewNode(ChildState(ns[Front(n)], Last(n)), <<r>>) EXCEPT !.fun = "linear"]
                                ELSE ns[m]]
            /\ Last(n) # Big
  <2>1. /\ Tamed(ns, ms) /\ DOMAIN ms = DOMAIN ns \cup {n}
        /\ \A m \in DOMAIN ns : ms[m] = ns[m]
        /\ ms[n].fun = "linear" /\ ms[n].rules = <<r>> /\ ms[n].reward = 0
    BY <1>3, <1>6, <1>13, ChildAdded
  <2>2. \A s \in live : PlaceIn(ns, s) # n
    BY <1>6, <1>13 DEF Stored
  <2>3. {s \in lw : PlaceIn(ns, s) = n} = {r}
    BY <1>3, <1>4, <2>2
  <2>4. Range(<<r>>) = {r}
    BY DEF Range
  <2>5. Sound(<<r>>)
    BY DEF Sound, InDescendingOrder, IsInjective
  <2>6. Holds(ms, lw)
    <3> DEFINE v == <<r>>
    <3> HIDE DEF v
    <3>1. ms[n].rules = v /\ Sound(v) /\ Range(v) = {s \in lw : PlaceIn(ns, s) = n}
      BY <2>1, <2>3, <2>4, <2>5 DEF v
    <3> QED BY <1>3, <1>6, <1>10, <2>1, <3>1, MovedRule
  <2>7. \A s : PlaceIn(ms, s) = PlaceIn(ns, s)
    BY <1>6, <2>1, TamedIsGood
  <2>8. Stored(ms, lw)
    BY <1>3, <1>4, <1>6, <2>1, <2>7 DEF Stored
  <2>9. Updated(ns, ms)
    BY <2>1 DEF Updated
  <2> QED BY <2>6, <2>8, <2>9
<1>14. CASE n \notin DOMAIN ns /\ ms = ns /\ Last(n) = Big
  <2>1. Tamed(ns, ms)
    BY <1>6, <1>14, TamedSelf
  <2>2. Holds(ms, lw)
    BY <1>3, <1>6, <1>10, <1>14, <2>1, MovedRule
  <2>3. Stored(ms, lw)
    BY <1>3, <1>4, <1>6, <1>14 DEF Stored
  <2> QED BY <1>14, <2>1, <2>2, <2>3 DEF Updated
<1> QED BY <1>11, <1>12, <1>13, <1>14

LEMMA DeleteUpdates ==
  ASSUME Inv, NEW r \in Rule, DeleteRule(r)
  PROVE  Updates
<1>1. PICK ns : ns = nodes
  OBVIOUS
<1>2. PICK ms : ms = nodes'
  OBVIOUS
<1>3. PICK n : n = PlaceIn(ns, r)
  OBVIOUS
<1>4. PICK lw : lw = live \ {r}
  OBVIOUS
<1>5. Place(r) = n
  BY <1>1, <1>3, PlaceNow
<1>6. /\ Good(ns) /\ Holds(ns, live) /\ Stored(ns, live) /\ live \in SUBSET Rule
  BY <1>1 DEF Inv, Good
<1>7. /\ Ready /\ live' = lw /\ queue' = queue /\ policy' = policy /\ built' = built
  BY <1>4 DEF DeleteRule
<1>8. \A m \in DOMAIN ns : ns[m].fun # "new"
  BY <1>1, <1>7, NoneIsNew
<1>9. ~HashAt(ns, n) /\ n \in Path
  BY <1>3, <1>6, GoodPlace DEF Ends
<1>10. \A s : s # r => (s \in lw <=> s \in live)
  BY <1>4
<1>11. \/ n \in DOMAIN ns /\ ms = [ns EXCEPT ![n].rules = ListWithout(@, r)]
       \/ n \notin DOMAIN ns /\ ms = ns
  BY <1>1, <1>2, <1>5 DEF DeleteRule
<1> SUFFICES Updated(ns, ms) /\ Holds(ms, lw) /\ Stored(ms, lw)
  BY <1>1, <1>2, <1>4, <1>6, <1>7 DEF Updates
<1>12. CASE n \in DOMAIN ns /\ ms = [ns EXCEPT ![n].rules = ListWithout(@, r)]
  <2>1. Sound(ns[n].rules) /\ Range(ns[n].rules) = {s \in live : PlaceIn(ns, s) = n}
    <3>1. Sound(ns[n].rules)
      BY <1>6, <1>12, SoundRules DEF Good
    <3> QED BY <1>6, <1>9, <1>12, <3>1 DEF Holds, HashAt
  <2> PICK list : list = ListWithout(ns[n].rules, r)
    OBVIOUS
  <2>2. Sound(list) /\ Range(list) = Range(ns[n].rules) \ {r}
    BY <2>1, ListWithoutIs
  <2>3. ms = [ns EXCEPT ![n].rules = list] /\ ns[n].fun # "new" /\ list \in Seq(Rule)
    BY <1>8, <1>12, <2>2 DEF Sound
  <2>4. Tamed(ns, ms) /\ Relisted(ns, ms, n, list)
    BY <1>6, <1>12, <2>3, ListChanged
  <2>5. Range(list) = {s \in lw : PlaceIn(ns, s) = n}
    BY <1>3, <1>4, <2>1, <2>2
  <2>6. Holds(ms, lw)
    <3>1. /\ ms[n].fun # "Hash" /\ ms[n].rules = list /\ DOMAIN ms \subseteq DOMAIN ns \cup {n}
          /\ \A m \in DOMAIN ns \ {n} : ms[m].rules = ns[m].rules
      <4>1. n \in DOMAIN ns /\ ns[n].fun # "Hash"
        BY <1>9, <1>12 DEF HashAt
      <4> QED BY <2>4, <4>1 DEF Relisted
    <3> QED BY <1>3, <1>6, <1>10, <2>2, <2>4, <2>5, <3>1, MovedRule
  <2>7. \A s : PlaceIn(ms, s) = PlaceIn(ns, s)
    BY <1>6, <2>4, TamedIsGood
  <2>8. Stored(ms, lw)
    BY <1>4, <1>6, <2>4, <2>7 DEF Stored, Relisted
  <2> QED BY <2>4, <2>6, <2>8 DEF Relisted, Updated
<1>13. CASE n \notin DOMAIN ns /\ ms = ns
  <2>1. Tamed(ns, ms)
    BY <1>6, <1>13, TamedSelf
  <2>2. Holds(ms, lw)
    BY <1>3, <1>6, <1>10, <1>13, <2>1, MovedRule
  <2>3. Stored(ms, lw)
    BY <1>4, <1>6, <1>13 DEF Stored
  <2> QED BY <1>13, <2>1, <2>2, <2>3 DEF Updated
<1> QED BY <1>11, <1>12, <1>13

-----------------------------------------------------------------------------
(***************************************************************************)
(* The invariant: it holds initially, so always.                           *)
(***************************************************************************)

LEMMA InitInv ==
  ASSUME Init
  PROVE  Inv
<1>1. PICK S \in (SUBSET Rule) \ {{}} :
        \E list \in {v \in SetToSeqs(S) : InDescendingOrder(v)} :
          /\ nodes = [n \in {<< >>} |-> NewNode(Unhashed, list)]
          /\ queue = << << >> >> /\ policy = << >> /\ built = S /\ live = S
  BY Zenon DEF Init
<1>2. PICK list \in {v \in SetToSeqs(S) : InDescendingOrder(v)} :
        /\ nodes = [n \in {<< >>} |-> NewNode(Unhashed, list)]
        /\ queue = << << >> >> /\ policy = << >> /\ built = S /\ live = S
  BY <1>1
<1>3. IsFiniteSet(S) /\ S \subseteq Rule /\ S # {}
  BY RuleAssumption, FS_Subset
<1>4. list \in Seq(S) /\ IsInjective(list) /\ Range(list) = S /\ InDescendingOrder(list)
  BY <1>3, ListOfSet
<1>5. list \in Seq(Rule) /\ list # << >>
  <2>1. list # << >>
    BY <1>3, <1>4 DEF Range
  <2> QED BY <1>3, <1>4, <2>1
<1>6. PICK root : root = NewNode(Unhashed, list)
  OBVIOUS
<1>7. /\ root \in NodeType /\ root.fun = "new" /\ root.state = Unhashed /\ root.rules = list
      /\ root.reward = 0
  <2>1. Unhashed \in State
    BY DEF Unhashed, State
  <2> QED BY <1>5, <1>6, <2>1, DimIs DEF NewNode, NodeType
<1>8. PICK ns : ns = nodes
  OBVIOUS
<1>9. ns = [n \in {<< >>} |-> root] /\ DOMAIN ns = {<< >>} /\ ns[<< >>] = root
  BY <1>2, <1>6, <1>8
<1>10. Good(ns)
  <2>1. Tree(ns)
    BY <1>7, <1>9 DEF Tree, Path
  <2>2. Hung(ns)
    BY <1>7, <1>9 DEF Hung
  <2>3. Shaped(ns)
    BY <1>5, <1>7, <1>9 DEF Shaped
  <2> QED BY <2>1, <2>2, <2>3 DEF Good
<1>11. \A r : PlaceIn(ns, r) = << >>
  <2> TAKE r
  <2>1. Ends(ns, r, << >>)
    BY <1>7, <1>9 DEF Ends, Routed, HashAt, Path
  <2> QED BY <1>10, <2>1, GoodPlace
<1>12. QueuedIn(ns, queue)
  <2>1. {n \in DOMAIN ns : ns[n].fun = "new"} = {<< >>}
    BY <1>7, <1>9
  <2>2. << << >> >> \in Seq({<< >>}) /\ Range(<< << >> >>) = {<< >>} /\ IsInjective(<< << >> >>)
    BY DEF Range, IsInjective
  <2> QED BY <1>2, <1>9, <2>1, <2>2 DEF QueuedIn
<1>13. Policy(policy)
  BY <1>2 DEF Policy
<1>14. Holds(ns, live)
  <2>1. {r \in S : PlaceIn(ns, r) = << >>} = S
    BY <1>11
  <2> QED BY <1>2, <1>4, <1>7, <1>9, <2>1 DEF Holds
<1>15. Stored(ns, live)
  BY <1>9, <1>11 DEF Stored
<1>16. \A r \in built : ServedIn(ns, r)
  BY <1>11 DEF ServedIn
<1> QED BY <1>2, <1>3, <1>8, <1>10, <1>12, <1>13, <1>14, <1>15, <1>16 DEF Inv, Good

LEMMA NextInv ==
  ASSUME Inv, [Next]_vars
  PROVE  Inv'
<1>1. CASE BuildNode
  BY <1>1, BuildNodeKeeps
<1>2. ASSUME NEW r \in Rule, InsertRule(r) \/ DeleteRule(r)
      PROVE  Inv'
  BY <1>2, InsertUpdates, DeleteUpdates, UpdateKeeps
<1>3. CASE UNCHANGED vars
  BY <1>3 DEF vars, Inv, Ready
<1> QED BY <1>1, <1>2, <1>3 DEF Next

LEMMA Invariance == Spec => []Inv
<1>1. Init => Inv
  BY InitInv
<1>2. Inv /\ [Next]_vars => Inv'
  BY NextInv
<1> QED BY <1>1, <1>2, PTL DEF Spec

-----------------------------------------------------------------------------
(***************************************************************************)
(* Theorems.                                                               *)
(***************************************************************************)

\* Each variable has its type: a node hashes a field by 0 to 32 bits into a
\* table of at most 2^30 slots, and only nodes of the tree are queued
\* (SubHybridTSS.h, and FindPolicy and buildTreeFromQTable in HybridTSS.cpp).
THEOREM TypeCorrect == Spec => []TypeOK
<1>1. Inv => TypeOK
  <2> SUFFICES ASSUME Inv
               PROVE  TypeOK
    OBVIOUS
  <2>1. \A n \in DOMAIN nodes : n \in Seq(Nat \cup {Big}) /\ nodes[n] \in NodeType
    BY DEF Inv, Tree, Path, Key
  <2>2. queue \in Seq(DOMAIN nodes)
    BY DEF Inv, QueuedIn
  <2>3. DOMAIN policy \subseteq [Dim -> -1 .. 15]
    BY DEF Inv, Policy, State
  <2> QED BY <2>1, <2>2, <2>3 DEF TypeOK, NodeType, State, Inv
<1> QED BY <1>1, Invariance, PTL

\* Every node hangs from a Hash node that hashes a field no node above it does;
\* the nodes still to be built are queued, each once; every leaf holds, in order
\* and once each, the inserted rules whose way ends there; and a rule the tree
\* was built from is served, even after it was deleted and inserted again: the
\* updates and the lookups of SubHybridTSS.cpp come to the same nodes.
THEOREM TreeCorrect == Spec => []TreeInv
<1>1. Inv => TreeInv
  <2> SUFFICES ASSUME Inv
               PROVE  TreeInv
    OBVIOUS
  <2>1. \A r : Place(r) = PlaceIn(nodes, r)
    BY PlaceNow
  <2>2. NodesHang
    BY DEF NodesHang, Inv, Hung, HashAt, Marked
  <2>3. QueueExact
    BY DEF QueueExact, Inv, QueuedIn
  <2>4. LeavesHoldLive
    BY <2>1 DEF LeavesHoldLive, Inv, Holds
  <2>5. \A r \in built : Served(r)
    BY <2>1 DEF Served, Inv, ServedIn
  <2> QED BY <2>2, <2>3, <2>4, <2>5 DEF TreeInv
<1> QED BY <1>1, Invariance, PTL

-----------------------------------------------------------------------------
(***************************************************************************)
(* The slots of a table, and the rewards.                                  *)
(***************************************************************************)

LEMMA TableIsEnough ==
  ASSUME inflation >= 2 \/ binth >= 2, NEW count \in Nat, count >= 1, count >= binth,
         NEW bit \in Nat, bit >= 1
  PROVE  HashBits(count, bit) >= 2
<1> DEFINE k == HashBits(count, bit)
<1>1. /\ k \in 0 .. 30 /\ (k > bit \/ k = 30 \/ 2^k - 1 >= count * inflation)
  BY HashBitsIs
<1>2. inflation \in Nat /\ inflation >= 1 /\ binth \in Nat
  BY SubHybridAssumption
<1>3. count * inflation >= 2
  <2>1. CASE inflation >= 2
    <3>1. \A a, b \in Nat : a >= 1 /\ b >= 2 => a * b >= 2
      OBVIOUS
    <3> QED BY <1>2, <2>1, <3>1
  <2>2. CASE binth >= 2
    <3>1. \A a, b \in Nat : a >= 2 /\ b >= 1 => a * b >= 2
      OBVIOUS
    <3>2. count >= 2
      BY <1>2, <2>2
    <3> QED BY <1>2, <3>1, <3>2
  <2> QED BY <2>1, <2>2
<1>4. 2^0 = 1 /\ 2^1 = 2
  <2>1. 0 \in 0 .. 29 /\ 0 + 1 = 1
    OBVIOUS
  <2>2. 2^(0 + 1) = 2 * 2^0 /\ 2^0 = 1
    BY <2>1, PowersAssumption
  <2> QED BY <2>1, <2>2
<1> HIDE DEF k
<1>5. k # 0
  <2> SUFFICES ASSUME k = 0
               PROVE  FALSE
    OBVIOUS
  <2>1. 2^k = 1
    BY <1>4
  <2> QED BY <1>1, <1>2, <1>3, <2>1
<1>6. k # 1
  <2> SUFFICES ASSUME k = 1
               PROVE  FALSE
    OBVIOUS
  <2>1. 2^k = 2
    BY <1>4
  <2> QED BY <1>1, <1>2, <1>3, <2>1
<1> QED BY <1>1, <1>5, <1>6 DEF k

LEMMA KeysStep ==
  ASSUME inflation >= 2 \/ binth >= 2, Inv, KeysTerminate, [Next]_vars
  PROVE  KeysTerminate'
<1>0. Good(nodes)
  BY DEF Inv, Good
<1>1. CASE BuildNode
  <2>1. PICK n : n = Head(queue)
    OBVIOUS
  <2>2. n \in DOMAIN nodes /\ nodes[n].fun = "new"
    BY <1>1, <2>1, BuildNodeIs
  <2>3. ASSUME NEW leaf \in {"linear", "TM"}, BuildsLeaf(n, leaf)
        PROVE  KeysTerminate'
    BY <2>3 DEF BuildsLeaf, LeafBuilt, Alike, KeysTerminate
  <2>4. ASSUME NEW node, BuildsHash(n, node)
        PROVE  KeysTerminate'
    <3> DEFINE X == {Step(node, r) : r \in Range(node.rules)}
    <3>1. PICK ns : ns = nodes
      OBVIOUS
    <3>2. PICK ms : ms = nodes'
      OBVIOUS
    <3>3. HashBuilt(ns, ms, n, node) /\ Len(node.rules) >= binth
      BY <2>4, <3>1, <3>2 DEF BuildsHash
    <3>4. NodeBuilt(ns, ms, n, node, X)
      BY <1>0, <2>2, <3>1, <3>3, HashBuiltIs
    <3>5. /\ DOMAIN ms = DOMAIN ns \cup {Append(n, x) : x \in X}
          /\ \A m \in DOMAIN ns \ {n} : ms[m] = ns[m]
          /\ node \in NodeType /\ node.rules = ns[n].rules
          /\ node.nHashBit = HashBits(Len(node.rules), node.bit)
          /\ \E o \in Op[node.dim] : node.bit = LeastBit[node.dim] + o
      BY <3>3, Zenon DEF HashBuilt
    <3> HIDE DEF X
    <3>6. node.nHashBit >= 2
      <4>1. Len(node.rules) \in Nat /\ Len(node.rules) >= 1
        <5>1. node.rules \in Seq(Rule) /\ node.rules # << >>
          BY <1>0, <2>2, <3>1, <3>5 DEF NodeType, Good, Shaped
        <5> QED BY <5>1
      <4>2. node.bit \in Nat /\ node.bit >= 1
        <5>1. PICK o \in Op[node.dim] : node.bit = LeastBit[node.dim] + o
          BY <3>5
        <5>2. node.dim \in Dim
          BY <3>5 DEF NodeType
        <5>3. LeastBit[node.dim] \in Nat \ {0} /\ o \in 0 .. 15
          BY <5>2, SubHybridAssumption
        <5> QED BY <5>1, <5>3
      <4> QED BY <3>3, <3>5, <4>1, <4>2, TableIsEnough
    <3>7. ms[n].nHashBit = node.nHashBit
      BY <3>4 DEF NodeBuilt, Alike
    <3>8. ASSUME NEW m \in DOMAIN ms, ms[m].fun = "Hash"
          PROVE  ms[m].nHashBit >= 2
      <4>1. CASE m = n
        BY <3>6, <3>7, <4>1
      <4>2. CASE m \in DOMAIN ns /\ m # n
        BY <3>1, <3>5, <3>8, <4>2 DEF KeysTerminate
      <4>3. CASE \E x \in X : m = Append(n, x)
        BY <3>4, <3>8, <4>3 DEF NodeBuilt
      <4> QED BY <3>5, <4>1, <4>2, <4>3
    <3> QED BY <3>2, <3>8 DEF KeysTerminate
  <2> QED BY <1>1, <2>1, <2>3, <2>4, BuildNodeIs
<1>2. CASE \E r \in Rule : InsertRule(r) \/ DeleteRule(r)
  <2>1. Updates
    BY <1>2, InsertUpdates, DeleteUpdates
  <2>2. \A m \in DOMAIN nodes' : nodes'[m].fun = "Hash" => m \in DOMAIN nodes /\ Alike(nodes[m], nodes'[m])
    BY <2>1 DEF Updates, Updated, Tamed
  <2> QED BY <2>2 DEF KeysTerminate, Alike
<1>3. CASE UNCHANGED vars
  BY <1>3 DEF vars, KeysTerminate
<1> QED BY <1>1, <1>2, <1>3 DEF Next

\* The loop of getKey shifts by nHashBit - 1 bits, so it ends: a Hash node looks
\* at one bit or more of at least binth rules, and at least one, and makes a
\* table of four slots or more for them (ConstructClassifier and getKey).
THEOREM KeysTerminateAlways ==
  ASSUME inflation >= 2 \/ binth >= 2
  PROVE  Spec => []KeysTerminate
<1>1. Init => KeysTerminate
  <2> SUFFICES ASSUME Init
               PROVE  KeysTerminate
    OBVIOUS
  <2>1. \A n \in DOMAIN nodes : nodes[n].fun = "new"
    BY DEF Init, NewNode
  <2> QED BY <2>1 DEF KeysTerminate
<1>2. Inv /\ KeysTerminate /\ [Next]_vars => KeysTerminate'
  BY KeysStep
<1> QED BY <1>1, <1>2, Invariance, PTL DEF Spec

\* A way through a node that is not a Hash node ends there.
LEMMA PrefixOfEnd ==
  ASSUME NEW ns, NEW r, NEW p, Ends(ns, r, p), NEW m \in Path, ~HashAt(ns, m), IsPrefix(m, p)
  PROVE  m = p
<1>1. p \in Seq(Key) /\ m \in Seq(Key) /\ Len(p) \in Nat /\ Len(m) \in Nat /\ p \in Path
  BY DEF Ends, Routed, Path
<1>2. Len(m) <= Len(p) /\ SubSeq(m, 1, Len(m)) = SubSeq(p, 1, Len(m))
  BY DEF IsPrefix
<1>3. Big \in Key
  BY DEF Key
<1>4. SubSeq(m, 1, Len(m)) = m /\ SubSeq(p, 1, Len(p)) = p
  BY <1>1, <1>3, BeginningOfAppend
<1>5. CASE Len(m) = Len(p)
  BY <1>2, <1>4, <1>5
<1>6. CASE Len(m) < Len(p)
  <2>1. Len(m) + 1 \in 1 .. Len(p) /\ (Len(m) + 1) - 1 = Len(m)
    BY <1>1, <1>6
  <2>2. HashAt(ns, SubSeq(p, 1, (Len(m) + 1) - 1))
    BY <2>1 DEF Ends, Routed
  <2>3. HashAt(ns, m)
    BY <1>2, <1>4, <2>1, <2>2
  <2> QED BY <2>3
<1> QED BY <1>1, <1>2, <1>5, <1>6

LEMMA NoneBelow ==
  ASSUME NEW ns, Good(ns), NEW n \in DOMAIN ns, ns[n].fun \notin {"Hash", "TM"}, NEW bt
  PROVE  -Cardinality({r \in bt : InTM(ns, r, n)}) = 0
<1>1. ASSUME NEW r, InTM(ns, r, n)
      PROVE  FALSE
  <2>1. Ends(ns, r, PlaceIn(ns, r))
    BY GoodPlace
  <2>2. n \in Path /\ ~HashAt(ns, n)
    BY DEF Good, Tree, HashAt
  <2>3. n = PlaceIn(ns, r)
    BY <1>1, <2>1, <2>2, PrefixOfEnd DEF InTM
  <2> QED BY <1>1, <2>3 DEF InTM
<1>2. {r \in bt : InTM(ns, r, n)} = {}
  BY <1>1
<1> QED BY <1>2, FS_EmptySet

LEMMA LeafRewarded ==
  ASSUME NEW ns, Good(ns), NEW n \in DOMAIN ns, ns[n].fun = "new", NEW leaf \in {"linear", "TM"},
         NEW ms, LeafBuilt(ns, ms, n, leaf), NEW bt, IsFiniteSet(bt), Holds(ns, bt), Rewarded(ns, bt)
  PROVE  Rewarded(ms, bt)
<1>1. Tamed(ns, ms)
  BY LeafBuiltIsTamed
<1>2. \A r : PlaceIn(ms, r) = PlaceIn(ns, r)
  BY <1>1, TamedIsGood
<1>3. /\ DOMAIN ms = DOMAIN ns
      /\ \A m \in DOMAIN ns :
           /\ ms[m].fun = IF m = n THEN leaf ELSE ns[m].fun
           /\ ms[m].reward = ns[m].reward + addReward(n, m, IF leaf = "TM" THEN -Len(ns[n].rules) ELSE 0)
  BY DEF LeafBuilt
<1> SUFFICES ASSUME NEW m \in DOMAIN ns
             PROVE  ms[m].reward = -Cardinality({r \in bt : InTM(ms, r, m)})
  BY <1>3 DEF Rewarded
<1> DEFINE A == {r \in bt : InTM(ns, r, m)}
           B == {r \in bt : InTM(ms, r, m)}
           C == {r \in bt : PlaceIn(ns, r) = n}
<1>4. ns[m].reward = -Cardinality(A)
  BY DEF Rewarded
<1>5. IsFiniteSet(A) /\ IsFiniteSet(C) /\ Cardinality(A) \in Nat
  <2>1. A \subseteq bt /\ C \subseteq bt
    OBVIOUS
  <2> HIDE DEF A, C
  <2> QED BY <2>1, FS_Subset, FS_CardinalityType
<1>6. Cardinality(C) = Len(ns[n].rules) /\ Len(ns[n].rules) \in Nat
  <2>1. Range(ns[n].rules) = C /\ IsInjective(ns[n].rules)
    BY DEF Holds
  <2>2. ns[n].rules \in Seq(Rule)
    BY DEF Good, Tree, NodeType
  <2> HIDE DEF C
  <2> QED BY <2>1, <2>2, InjectiveLen
<1>7. CASE leaf = "TM" /\ IsPrefix(m, n)
  <2>1. B = A \cup C
    <3> SUFFICES ASSUME NEW r \in bt
                 PROVE  InTM(ms, r, m) <=> InTM(ns, r, m) \/ PlaceIn(ns, r) = n
      OBVIOUS
    <3>1. CASE PlaceIn(ns, r) = n
      BY <1>2, <1>3, <1>7, <3>1 DEF InTM
    <3>2. CASE PlaceIn(ns, r) # n
      BY <1>2, <1>3, <3>2 DEF InTM
    <3> QED BY <3>1, <3>2
  <2>2. A \cap C = {}
    BY DEF InTM
  <2>3. addReward(n, m, IF leaf = "TM" THEN -Len(ns[n].rules) ELSE 0) = -Len(ns[n].rules)
    BY <1>7 DEF addReward
  <2> HIDE DEF A, B, C
  <2>4. Cardinality(B) = Cardinality(A) + Cardinality(C)
    <3>1. Cardinality({}) = 0
      BY FS_EmptySet
    <3>2. Cardinality(A \cup C) = Cardinality(A) + Cardinality(C) - Cardinality(A \cap C)
      BY <1>5, FS_Union
    <3>3. Cardinality(A \cap C) = 0
      BY <2>2, <3>1
    <3>4. Cardinality(C) \in Nat
      BY <1>6
    <3>5. Cardinality(A \cup C) = Cardinality(A) + Cardinality(C)
      BY <1>5, <3>2, <3>3, <3>4
    <3> QED BY <2>1, <3>5, Zenon
  <2>5. ms[m].reward = ns[m].reward - Len(ns[n].rules)
    <3>1. ns[m].reward \in Int
      BY <1>4, <1>5
    <3> QED BY <1>3, <1>6, <2>3, <3>1
  <2> QED BY <1>4, <1>5, <1>6, <2>4, <2>5 DEF B
<1>8. CASE ~(leaf = "TM" /\ IsPrefix(m, n))
  <2>1. B = A
    <3> SUFFICES ASSUME NEW r \in bt
                 PROVE  InTM(ms, r, m) <=> InTM(ns, r, m)
      OBVIOUS
    <3>1. CASE PlaceIn(ns, r) = n
      BY <1>2, <1>3, <1>8, <3>1 DEF InTM
    <3>2. CASE PlaceIn(ns, r) # n
      BY <1>2, <1>3, <3>2 DEF InTM
    <3> QED BY <3>1, <3>2
  <2>2. addReward(n, m, IF leaf = "TM" THEN -Len(ns[n].rules) ELSE 0) = 0
    BY <1>8 DEF addReward
  <2>3. ns[m].reward \in Int
    BY <1>4, <1>5
  <2>4. ms[m].reward = ns[m].reward
    BY <1>3, <2>2, <2>3
  <2> QED BY <1>4, <2>1, <2>4
<1> QED BY <1>7, <1>8

LEMMA HashRewarded ==
  ASSUME NEW ns, Good(ns), NEW n \in DOMAIN ns, ns[n].fun = "new",
         NEW ms, NEW node, HashBuilt(ns, ms, n, node), NEW bt, Rewarded(ns, bt)
  PROVE  Rewarded(ms, bt)
<1> DEFINE X == {Step(node, r) : r \in Range(node.rules)}
<1>1. NodeBuilt(ns, ms, n, node, X)
  BY HashBuiltIs
<1>2. /\ DOMAIN ms = DOMAIN ns \cup {Append(n, x) : x \in X}
      /\ \A m \in DOMAIN ns \ {n} : ms[m] = ns[m]
      /\ node.reward = ns[n].reward
  BY Zenon DEF HashBuilt
<1>3. \A r : PlaceIn(ms, r) = IF PlaceIn(ns, r) = n THEN Append(n, Step(node, r)) ELSE PlaceIn(ns, r)
  BY HashBuiltPlaces
<1>4. Good(ms)
  BY HashBuiltIsGood
<1> HIDE DEF X
<1>5. \A x \in X : Append(n, x) \in DOMAIN ms \ DOMAIN ns /\ ms[Append(n, x)].fun = "new" /\ ms[Append(n, x)].reward = 0
  BY <1>1 DEF NodeBuilt
<1>6. ms[n].fun = "Hash" /\ ms[n].reward = ns[n].reward
  BY <1>1, <1>2 DEF NodeBuilt
<1>7. \A m \in DOMAIN ms : ms[m].fun = "TM" => m \in DOMAIN ns /\ m # n /\ ms[m] = ns[m]
  BY <1>2, <1>5, <1>6
<1>8. ASSUME NEW r, NEW m
      PROVE  InTM(ms, r, m) <=> InTM(ns, r, m)
  <2>1. CASE PlaceIn(ns, r) = n
    <3>1. Append(n, Step(node, r)) \notin DOMAIN ns
      <4>1. node \in NodeType
        BY DEF HashBuilt
      <4>2. n \in Path /\ ~HashAt(ns, n)
        BY <1>1 DEF NodeBuilt
      <4> QED BY <4>1, <4>2, StepInTable, NoChildYet
    <3>2. ~InTM(ms, r, m)
      BY <1>3, <1>7, <2>1, <3>1 DEF InTM
    <3>3. ~InTM(ns, r, m)
      BY <2>1 DEF InTM
    <3> QED BY <3>2, <3>3
  <2>2. CASE PlaceIn(ns, r) # n
    <3>1. PlaceIn(ms, r) = PlaceIn(ns, r)
      BY <1>3, <2>2
    <3> QED BY <1>2, <1>7, <2>2, <3>1 DEF InTM
  <2> QED BY <2>1, <2>2
<1> SUFFICES ASSUME NEW m \in DOMAIN ms
             PROVE  ms[m].reward = -Cardinality({r \in bt : InTM(ms, r, m)})
  BY DEF Rewarded
<1>9. CASE m \in DOMAIN ns
  <2>1. ms[m].reward = ns[m].reward
    BY <1>2, <1>6, <1>9
  <2>2. {r \in bt : InTM(ms, r, m)} = {r \in bt : InTM(ns, r, m)}
    BY <1>8
  <2> QED BY <1>9, <2>1, <2>2 DEF Rewarded
<1>10. CASE m \notin DOMAIN ns
  <2>1. ms[m].fun = "new" /\ ms[m].reward = 0
    BY <1>2, <1>5, <1>10
  <2> QED BY <1>4, <2>1, NoneBelow
<1> QED BY <1>9, <1>10

LEMMA UpdateRewarded ==
  ASSUME NEW ns, Good(ns), NEW ms, Updated(ns, ms), NEW bt, Rewarded(ns, bt)
  PROVE  Rewarded(ms, bt)
<1>1. Tamed(ns, ms) /\ DOMAIN ns \subseteq DOMAIN ms
  BY DEF Updated, Tamed
<1>2. Good(ms) /\ \A r : PlaceIn(ms, r) = PlaceIn(ns, r)
  BY <1>1, TamedIsGood
<1>3. /\ \A m \in DOMAIN ns : ms[m].fun = ns[m].fun /\ ms[m].reward = ns[m].reward
      /\ \A m \in DOMAIN ms \ DOMAIN ns : ms[m].fun = "linear" /\ ms[m].reward = 0
  BY DEF Updated
<1>4. \A r, m : InTM(ms, r, m) <=> InTM(ns, r, m)
  BY <1>1, <1>2, <1>3 DEF InTM
<1> SUFFICES ASSUME NEW m \in DOMAIN ms
             PROVE  ms[m].reward = -Cardinality({r \in bt : InTM(ms, r, m)})
  BY DEF Rewarded
<1>5. CASE m \in DOMAIN ns
  <2>1. {r \in bt : InTM(ms, r, m)} = {r \in bt : InTM(ns, r, m)}
    BY <1>4
  <2> QED BY <1>3, <1>5, <2>1 DEF Rewarded
<1>6. CASE m \notin DOMAIN ns
  BY <1>2, <1>3, <1>6, NoneBelow
<1> QED BY <1>5, <1>6

LEMMA RewardStep ==
  ASSUME Inv, Rewarded(nodes, built), [Next]_vars
  PROVE  Rewarded(nodes', built')
<1>1. Good(nodes)
  BY DEF Inv, Good
<1>2. CASE BuildNode
  <2>1. PICK n : n = Head(queue)
    OBVIOUS
  <2>2. n \in DOMAIN nodes /\ nodes[n].fun = "new" /\ built' = built
    BY <1>2, <2>1, BuildNodeIs
  <2>3. PICK ns : ns = nodes
    OBVIOUS
  <2>4. PICK ms : ms = nodes'
    OBVIOUS
  <2>5. PICK bt : bt = built
    OBVIOUS
  <2>6. IsFiniteSet(bt) /\ Holds(ns, bt) /\ Rewarded(ns, bt) /\ Good(ns)
    <3>1. built = live /\ built \in SUBSET Rule
      BY <1>2 DEF Inv, BuildNode
    <3>2. IsFiniteSet(built)
      BY <3>1, RuleAssumption, FS_Subset
    <3> QED BY <1>1, <2>3, <2>5, <3>1, <3>2 DEF Inv
  <2>7. ASSUME NEW leaf \in {"linear", "TM"}, BuildsLeaf(n, leaf)
        PROVE  Rewarded(ms, bt)
    <3>1. LeafBuilt(ns, ms, n, leaf)
      BY <2>3, <2>4, <2>7 DEF BuildsLeaf
    <3> QED BY <2>2, <2>3, <2>6, <3>1, LeafRewarded
  <2>8. ASSUME NEW node, BuildsHash(n, node)
        PROVE  Rewarded(ms, bt)
    <3>1. HashBuilt(ns, ms, n, node)
      BY <2>3, <2>4, <2>8 DEF BuildsHash
    <3> QED BY <2>2, <2>3, <2>6, <3>1, HashRewarded
  <2>9. Rewarded(ms, bt)
    BY <1>2, <2>1, <2>7, <2>8, BuildNodeIs
  <2> QED BY <2>2, <2>4, <2>5, <2>9
<1>3. CASE \E r \in Rule : InsertRule(r) \/ DeleteRule(r)
  <2>1. Updates
    BY <1>3, InsertUpdates, DeleteUpdates
  <2> QED BY <1>1, <2>1, UpdateRewarded DEF Updates
<1>4. CASE UNCHANGED vars
  BY <1>4 DEF vars
<1> QED BY <1>2, <1>3, <1>4 DEF Next

\* The reward of a node, from which a Q-table learns, is the cost of what is
\* below it: minus the rules of the construction that end in a TupleMerge leaf
\* there, however the nodes were built one after the other and whatever was
\* inserted and deleted since (addReward in SubHybridTSS.cpp, buildTreeFromQTable
\* and ConstructBaseline).
THEOREM RewardIsCostBelowAlways == Spec => []RewardIsCostBelow
<1>1. Init => Rewarded(nodes, built)
  <2> SUFFICES ASSUME Init
               PROVE  Rewarded(nodes, built)
    OBVIOUS
  <2>1. \A n \in DOMAIN nodes : nodes[n].fun = "new" /\ nodes[n].reward = 0
    BY DEF Init, NewNode
  <2>2. Good(nodes)
    BY InitInv DEF Inv, Good
  <2>3. PICK ns : ns = nodes
    OBVIOUS
  <2>4. \A n \in DOMAIN ns : -Cardinality({r \in built : InTM(ns, r, n)}) = 0
    BY <2>1, <2>2, <2>3, NoneBelow
  <2> QED BY <2>1, <2>3, <2>4 DEF Rewarded
<1>2. Inv /\ Rewarded(nodes, built) /\ [Next]_vars => Rewarded(nodes, built)'
  BY RewardStep
<1>3. Rewarded(nodes, built) => RewardIsCostBelow
  BY PlaceNow DEF Rewarded, InTM, RewardIsCostBelow
<1> QED BY <1>1, <1>2, <1>3, Invariance, PTL DEF Spec

-----------------------------------------------------------------------------
(***************************************************************************)
(* Lookups.                                                                *)
(***************************************************************************)

\* The key of a point whose first bits are t.
KeyOf(node, t) ==
  LET One(i) == {k \in 0 .. node.bit : (t \div 2^(i + k * (node.nHashBit - 1))) % 2 = 1}
  IN  SumFunction([i \in 0 .. node.nHashBit - 1 |-> 2^i * (Cardinality(One(i)) % 2)])

\* A packet has the key of every rule that it matches and that is hashed.
LEMMA KeysAgree ==
  ASSUME NEW node \in NodeType, NEW r \in Rule, NEW p \in Packet, MatchesPacket(r, p),
         Step(node, r) # Big
  PROVE  Step(node, r) = getKey(node, p[node.dim])
<1> DEFINE d == node.dim
           y == r.range[d][1]
<1>1. d \in Dim /\ node.bit \in 0 .. 32
  BY DEF NodeType
<1>2. /\ d \in DOMAIN r.range /\ y \in Nat /\ r.range[d][2] \in Nat /\ p[d] \in Nat
      /\ r.prefix_length[d] \in 0 .. Width[d]
  BY <1>1, PrefixAssumption
<1>3. node.bit \in 0 .. r.prefix_length[d] /\ Step(node, r) = getKey(node, y)
  <2>1. ~(r.prefix_length[d] < node.bit) /\ Step(node, r) = getKey(node, y)
    BY DEF Step
  <2>2. Width[d] \in 1 .. 32
    <3> HIDE DEF d
    <3> QED BY <1>1, DimIs
  <2> QED BY <1>1, <1>2, <2>1, <2>2
<1>4. p[d] \in y .. r.range[d][2]
  <2>1. y <= p[d] /\ p[d] <= r.range[d][2]
    BY <1>2 DEF MatchesPacket
  <2> QED BY <1>2, <2>1
<1>5. p[d] \div 2^(Width[d] - node.bit) = y \div 2^(Width[d] - node.bit)
  BY <1>1, <1>3, <1>4, PrefixAssumption
<1>6. \A x : getKey(node, x) = KeyOf(node, x \div 2^(Width[node.dim] - node.bit))
  BY Zenon DEF getKey, KeyOf
<1>7. getKey(node, p[d]) = getKey(node, y)
  BY <1>5, <1>6
<1> QED BY <1>3, <1>7

-----------------------------------------------------------------------------
\* What a lookup answers at node n, given what it answers below.
AnswerAt(ns, p, f, n) ==
  LET node  == ns[n]
      child == Append(n, getKey(node, p[node.dim]))
      match == CASE node.fun = "linear" -> FirstMatch(node.rules, p)
                 [] node.fun = "TM"     -> LinearScanPriority(Range(node.rules), p)
                 [] node.fun = "Hash"   -> IF child \in DOMAIN ns THEN f[child] ELSE -1
      big   == Append(n, Big)
  IN  IF big \in DOMAIN ns /\ match < node.maxBigPriority
        THEN Highest({match, f[big]})
        ELSE match

Answers(f, ns, p) == f = [n \in DOMAIN ns |-> AnswerAt(ns, p, f, n)]

LEMMA LookupIs ==
  ASSUME NEW p
  PROVE  Lookup(p) = (CHOOSE f : Answers(f, nodes, p))[<< >>]
BY DEF Lookup, Answers, AnswerAt

\* A tree that is built, with the lists of its leaves in order.
Done(ns) == Good(ns) /\ \A n \in DOMAIN ns : ns[n].fun # "new" /\ InDescendingOrder(ns[n].rules)

Answer == Priority \cup {-1}

LEMMA LeafAnswers ==
  ASSUME NEW ns, Done(ns), NEW n \in DOMAIN ns, ns[n].fun # "Hash", NEW p, NEW f
  PROVE  AnswerAt(ns, p, f, n) = LinearScanPriority(Range(ns[n].rules), p)
<1>1. ns[n] \in NodeType /\ n \in Path
  BY DEF Done, Good, Tree
<1>2. ns[n].fun \in {"linear", "TM"} /\ ns[n].rules \in Seq(Rule) /\ InDescendingOrder(ns[n].rules)
  BY <1>1 DEF Done, NodeType
<1>3. Append(n, Big) \notin DOMAIN ns
  <2>1. Big \in Key
    BY DEF Key
  <2>2. Append(n, Big) # << >> /\ Front(Append(n, Big)) = n
    BY <1>1, <2>1, ChildPath
  <2> QED BY <2>2 DEF Done, Good, Hung, HashAt
<1>4. FirstMatch(ns[n].rules, p) = LinearScanPriority(Range(ns[n].rules), p)
  BY <1>2, FirstMatchIs
<1>5. CASE ns[n].fun = "linear"
  BY <1>3, <1>4, <1>5, Zenon DEF AnswerAt
<1>6. CASE ns[n].fun = "TM"
  BY <1>3, <1>6, Zenon DEF AnswerAt
<1> QED BY <1>2, <1>5, <1>6

LEMMA HighestOfTwo ==
  ASSUME NEW a \in Answer, NEW b \in Answer
  PROVE  /\ Highest({a, b}) \in {a, b, -1} /\ Highest({a, b}) \in Answer
         /\ a <= Highest({a, b}) /\ b <= Highest({a, b})
<1>1. Answer \in SUBSET Int /\ -1 \in Answer
  BY PriorityFinite DEF Answer
<1>2. {a, b} \in SUBSET Int
  BY <1>1
<1>3. IsFiniteSet({a, b})
  <2>1. {a, b} = {a} \cup {b}
    OBVIOUS
  <2>2. IsFiniteSet({a})
    BY FS_Singleton
  <2>3. IsFiniteSet({a} \cup {b})
    BY <2>2, FS_AddElement
  <2> QED BY <2>1, <2>3
<1>4. /\ Highest({a, b}) \in {a, b} \cup {-1}
      /\ \A y \in {a, b} \cup {-1} : y <= Highest({a, b})
  BY <1>2, <1>3, HighestIsGreatest
<1> QED BY <1>1, <1>4

\* What the answer a at a Hash node n has to do with those below it.
AnswersFrom(ns, p, f, n, a) ==
  LET child == Append(n, getKey(ns[n], p[ns[n].dim])) IN
  /\ a \in Answer
  /\ a = -1 \/ \E y \in Key : Append(n, y) \in DOMAIN ns /\ a = f[Append(n, y)]
  /\ child \in DOMAIN ns => f[child] <= a
  /\ Append(n, Big) \in DOMAIN ns => f[Append(n, Big)] <= a \/ ns[n].maxBigPriority <= a

LEMMA HashAnswers ==
  ASSUME NEW ns, Done(ns), NEW n \in DOMAIN ns, ns[n].fun = "Hash", NEW p,
         NEW f, \A y \in Key : Append(n, y) \in DOMAIN ns => f[Append(n, y)] \in Answer
  PROVE  AnswersFrom(ns, p, f, n, AnswerAt(ns, p, f, n))
<1> DEFINE x     == getKey(ns[n], p[ns[n].dim])
           child == Append(n, x)
           big   == Append(n, Big)
           match == IF child \in DOMAIN ns THEN f[child] ELSE -1
           a     == AnswerAt(ns, p, f, n)
<1>1. ns[n] \in NodeType
  BY DEF Done, Good, Tree
<1>2. x \in Key /\ Big \in Key
  <2>1. getKey(ns[n], p[ns[n].dim]) \in 0 .. 2^ns[n].nHashBit - 1
    BY <1>1, KeyInTable
  <2>2. 2^ns[n].nHashBit \in Nat
    BY <1>1, PowersAre DEF NodeType
  <2> HIDE DEF x
  <2>3. x \in 0 .. 2^ns[n].nHashBit - 1
    BY <2>1 DEF x
  <2> QED BY <2>2, <2>3 DEF Key
<1>3. Answer \in SUBSET Int /\ -1 \in Answer /\ ns[n].maxBigPriority \in Answer
  BY <1>1, PriorityFinite DEF Answer, NodeType
<1>4. a = IF big \in DOMAIN ns /\ match < ns[n].maxBigPriority THEN Highest({match, f[big]}) ELSE match
  BY Zenon DEF AnswerAt
<1>5. match \in Answer
  BY <1>2, <1>3
<1>6. /\ match = -1 \/ \E y \in Key : Append(n, y) \in DOMAIN ns /\ match = f[Append(n, y)]
      /\ child \in DOMAIN ns => match = f[child]
  BY <1>2
<1>7. /\ a \in Answer
      /\ a = -1 \/ \E y \in Key : Append(n, y) \in DOMAIN ns /\ a = f[Append(n, y)]
      /\ match <= a
      /\ big \in DOMAIN ns => f[big] <= a \/ ns[n].maxBigPriority <= a
  <2>1. CASE big \in DOMAIN ns /\ match < ns[n].maxBigPriority
    <3>1. f[big] \in Answer
      BY <1>2, <2>1
    <3> HIDE DEF a, match
    <3>2. /\ a \in {match, f[big], -1} /\ a \in Answer /\ match <= a /\ f[big] <= a
      BY <1>4, <1>5, <2>1, <3>1, HighestOfTwo
    <3>3. a = -1 \/ \E y \in Key : Append(n, y) \in DOMAIN ns /\ a = f[Append(n, y)]
      BY <1>2, <1>6, <2>1, <3>2
    <3> QED BY <3>2, <3>3
  <2>2. CASE ~(big \in DOMAIN ns /\ match < ns[n].maxBigPriority)
    <3> HIDE DEF a, match
    <3>1. a = match
      BY <1>4, <2>2
    <3>2. match <= a /\ (match < ns[n].maxBigPriority \/ ns[n].maxBigPriority <= a)
      <4>1. ASSUME NEW i \in Int, NEW j \in Int
            PROVE  i <= i /\ (i < j \/ j <= i)
        OBVIOUS
      <4>2. match \in Int /\ ns[n].maxBigPriority \in Int
        BY <1>3, <1>5
      <4> QED BY <3>1, <4>1, <4>2, Zenon
    <3> QED BY <1>5, <1>6, <2>2, <3>1, <3>2
  <2> QED BY <2>1, <2>2
<1> HIDE DEF a, match
<1> QED BY <1>6, <1>7 DEF AnswersFrom, a

\* The answer at a node is one of a leaf, or it comes from below.
LEMMA AnswerIsAnswer ==
  ASSUME NEW ns, Done(ns), NEW n \in DOMAIN ns, NEW p,
         NEW f, \A m \in DOMAIN ns : f[m] \in Answer
  PROVE  AnswerAt(ns, p, f, n) \in Answer
<1>1. CASE ns[n].fun = "Hash"
  BY <1>1, HashAnswers DEF AnswersFrom
<1>2. CASE ns[n].fun # "Hash"
  <2>1. Range(ns[n].rules) \in SUBSET Rule
    BY DEF Done, Good, Tree, NodeType, Range
  <2>2. LinearScanPriority(Range(ns[n].rules), p) \in Answer
    BY <2>1, ScanIsGreatest DEF Answer
  <2> QED BY <1>2, <2>2, LeafAnswers
<1> QED BY <1>1, <1>2

\* It depends on the answers below, and on no other.
LEMMA AnswerFromBelow ==
  ASSUME NEW ns, Done(ns), NEW n \in DOMAIN ns, NEW p, NEW f, NEW g,
         \A y \in Key : Append(n, y) \in DOMAIN ns => f[Append(n, y)] = g[Append(n, y)]
  PROVE  AnswerAt(ns, p, f, n) = AnswerAt(ns, p, g, n)
<1> DEFINE x     == getKey(ns[n], p[ns[n].dim])
           child == Append(n, x)
           big   == Append(n, Big)
<1>1. ns[n] \in NodeType
  BY DEF Done, Good, Tree
<1>2. x \in Key /\ Big \in Key
  <2>1. getKey(ns[n], p[ns[n].dim]) \in 0 .. 2^ns[n].nHashBit - 1
    BY <1>1, KeyInTable
  <2>2. 2^ns[n].nHashBit \in Nat
    BY <1>1, PowersAre DEF NodeType
  <2> HIDE DEF x
  <2>3. x \in 0 .. 2^ns[n].nHashBit - 1
    BY <2>1 DEF x
  <2> QED BY <2>2, <2>3 DEF Key
<1>3. child \in DOMAIN ns => f[child] = g[child]
  BY <1>2
<1>4. big \in DOMAIN ns => f[big] = g[big]
  BY <1>2
<1> DEFINE below(h) == IF child \in DOMAIN ns THEN h[child] ELSE -1
           match(c) == CASE ns[n].fun = "linear" -> FirstMatch(ns[n].rules, p)
                         [] ns[n].fun = "TM"     -> LinearScanPriority(Range(ns[n].rules), p)
                         [] ns[n].fun = "Hash"   -> c
           whole(c, h) == IF big \in DOMAIN ns /\ match(c) < ns[n].maxBigPriority
                            THEN Highest({match(c), h[big]})
                            ELSE match(c)
<1>5. \A h : AnswerAt(ns, p, h, n) = whole(below(h), h)
  BY DEF AnswerAt
<1>6. below(f) = below(g)
  BY <1>3
<1>7. \A c : whole(c, f) = whole(c, g)
  <2> HIDE DEF match, big
  <2> QED BY <1>4
<1> HIDE DEF whole, below
<1> QED BY <1>5, <1>6, <1>7

\* The fields no node above hashes.
Free(ns, n) == {d \in Dim : ns[n].state[d] = -1}

LEMMA FreeBelow ==
  ASSUME NEW ns, Good(ns), NEW n \in DOMAIN ns, NEW y \in Key, Append(n, y) \in DOMAIN ns
  PROVE  /\ ns[n].fun = "Hash" /\ ns[n].dim \in Free(ns, n)
         /\ Free(ns, Append(n, y)) = Free(ns, n) \ {ns[n].dim}
<1>1. n \in Path /\ ns[n] \in NodeType
  BY DEF Good, Tree
<1>2. Append(n, y) # << >> /\ Front(Append(n, y)) = n /\ Last(Append(n, y)) = y
  BY <1>1, ChildPath
<1>3. ns[n].fun = "Hash" /\ ns[Append(n, y)].state = ChildState(ns[n], y)
  BY <1>2 DEF Good, Hung, HashAt
<1>4. PICK o \in Op[ns[n].dim] : ns[n].bit = LeastBit[ns[n].dim] + o
  BY <1>3 DEF Good, Shaped
<1>5. ns[n].state[ns[n].dim] = -1
  BY <1>3 DEF Good, Shaped
<1> DEFINE d == ns[n].dim
           e == IF y = Big THEN 0 ELSE ns[n].bit - LeastBit[ns[n].dim]
<1>6. d \in Dim /\ ns[n].state \in State
  BY <1>1 DEF NodeType
<1>7. e # -1
  <2>1. LeastBit[ns[n].dim] \in Nat /\ o \in 0 .. 15
    BY <1>6, SubHybridAssumption
  <2> QED BY <1>4, <2>1
<1>8. ns[Append(n, y)].state = [ns[n].state EXCEPT ![d] = e]
  BY <1>3 DEF ChildState
<1> HIDE DEF e, d
<1>9. \A i \in Dim : ns[Append(n, y)].state[i] = IF i = d THEN e ELSE ns[n].state[i]
  BY <1>6, <1>8 DEF State
<1>10. d \in Free(ns, n)
  BY <1>5, <1>6 DEF Free, d
<1>11. Free(ns, Append(n, y)) = Free(ns, n) \ {d}
  BY <1>7, <1>9 DEF Free
<1> QED BY <1>3, <1>10, <1>11 DEF d

\* So the recursion down the tree has a solution.
LEMMA AnswersExist ==
  ASSUME NEW ns, Done(ns), NEW p
  PROVE  \E f : Answers(f, ns, p)
<1> DEFINE V == [DOMAIN ns -> Answer]
           none == [n \in DOMAIN ns |-> -1]
           Under(T, g, n) == IF ns[n].dim \in T THEN g[ns[n].dim] ELSE none
           o == [T \in SUBSET Dim |-> [g \in [T -> V] |->
                   [n \in DOMAIN ns |-> AnswerAt(ns, p, Under(T, g, n), n)]]]
<1>1. ASSUME NEW T \in SUBSET Dim, NEW g \in [T -> V]
      PROVE  o[T][g] \in V
  <2> SUFFICES ASSUME NEW n \in DOMAIN ns
               PROVE  AnswerAt(ns, p, Under(T, g, n), n) \in Answer
    BY Zenon
  <2>1. none \in V
    BY DEF Answer
  <2>2. Under(T, g, n) \in V
    BY <2>1
  <2>3. \A m \in DOMAIN ns : Under(T, g, n)[m] \in Answer
    BY <2>2
  <2> HIDE DEF Under
  <2> QED BY <2>3, AnswerIsAnswer
<1>2. PICK it : Recurses(it, o, Dim, V)
  <2> HIDE DEF o, V
  <2>1. MapsInto(o, Dim, V)
    BY <1>1 DEF MapsInto
  <2> QED BY <2>1, DimIs, RecursionExists
<1> DEFINE f == [n \in DOMAIN ns |-> it[Free(ns, n)][n]]
<1>3. ASSUME NEW n \in DOMAIN ns
      PROVE  f[n] = AnswerAt(ns, p, f, n)
  <2> DEFINE T == Free(ns, n)
             g == Below(it, T)
             u == Under(T, g, n)
  <2>1. T \in SUBSET Dim
    BY DEF Free
  <2>2. g \in [T -> V]
    <3> HIDE DEF T, V, o
    <3> QED BY <1>2, <2>1 DEF Below, Recurses
  <2>3. it[T] = o[T][g]
    <3> HIDE DEF T, V, o
    <3> QED BY <1>2, <2>1 DEF Recurses
  <2>4. f[n] = AnswerAt(ns, p, u, n)
    <3> HIDE DEF T, V, g, Under
    <3> QED BY <2>1, <2>2, <2>3 DEF T
  <2>5. ASSUME NEW y \in Key, Append(n, y) \in DOMAIN ns
        PROVE  f[Append(n, y)] = u[Append(n, y)]
    <3>1. ns[n].dim \in T /\ Free(ns, Append(n, y)) = T \ {ns[n].dim}
      BY <2>5, FreeBelow DEF Done
    <3>2. u = it[T \ {ns[n].dim}]
      <4> HIDE DEF T
      <4> QED BY <3>1 DEF Below
    <3> HIDE DEF T, u
    <3> QED BY <2>5, <3>1, <3>2
  <2> HIDE DEF f, u
  <2>6. AnswerAt(ns, p, f, n) = AnswerAt(ns, p, u, n)
    BY <2>5, AnswerFromBelow
  <2> QED BY <2>4, <2>6
<1>4. f = [n \in DOMAIN ns |-> AnswerAt(ns, p, f, n)]
  <2>1. f = [n \in DOMAIN ns |-> f[n]]
    OBVIOUS
  <2> HIDE DEF f
  <2> QED BY <1>3, <2>1
<1> HIDE DEF f
<1> QED BY <1>4 DEF Answers

-----------------------------------------------------------------------------
\* A rule of a built tree comes, from a Hash node, to the bigClassifier that
\* serves it or to the child of its key.
LEMMA ServedBelow ==
  ASSUME NEW ns, Done(ns), NEW lv, Stored(ns, lv), NEW r \in Rule, r \in lv, ServedIn(ns, r),
         NEW n \in DOMAIN ns, ns[n].fun = "Hash", Routed(ns, r, n),
         NEW x, x = Step(ns[n], r)
  PROVE  /\ x \in Key /\ Routed(ns, r, Append(n, x)) /\ Append(n, x) \in DOMAIN ns
         /\ x = Big => r.priority <= ns[n].maxBigPriority
<1>1. Good(ns) /\ HashAt(ns, n) /\ n \in Path /\ Len(n) \in Nat
  BY DEF Done, HashAt, Good, Tree, Path
<1> DEFINE w == Append(n, x)
           k == Len(n)
<1>2. x \in Key /\ w \in Path /\ Len(w) = k + 1 /\ Routed(ns, r, w)
  BY <1>1, RoutedFurther DEF Good
<1>3. PICK m : m = PlaceIn(ns, r)
  OBVIOUS
<1>4. m \in Path /\ Ends(ns, r, m) /\ Routed(ns, r, m) /\ Len(m) \in Nat /\ m \in Seq(Key)
  BY <1>1, <1>3, GoodPlace DEF Ends, Path
<1>5. k < Len(m)
  <2> SUFFICES ASSUME Len(m) <= k
               PROVE  FALSE
    BY <1>1, <1>4
  <2>1. SubSeq(n, 1, Len(m)) = SubSeq(m, 1, Len(m))
    BY <1>4, WaysAgree
  <2>2. SubSeq(m, 1, Len(m)) = m
    <3>1. Big \in Key
      BY DEF Key
    <3> QED BY <1>4, <3>1, BeginningOfAppend
  <2>3. CASE Len(m) = k
    <3>1. SubSeq(n, 1, k) = n
      BY <1>1, <1>2, BeginningOfAppend
    <3>2. n = m
      BY <2>1, <2>2, <2>3, <3>1
    <3> QED BY <1>1, <1>4, <3>2 DEF Ends
  <2>4. CASE Len(m) < k
    <3>1. Len(m) + 1 \in 1 .. k /\ (Len(m) + 1) - 1 = Len(m)
      BY <1>1, <1>4, <2>4
    <3>2. HashAt(ns, SubSeq(n, 1, (Len(m) + 1) - 1))
      BY <3>1 DEF Routed
    <3>3. HashAt(ns, m)
      BY <2>1, <2>2, <3>1, <3>2
    <3> QED BY <1>4, <3>3 DEF Ends
  <2> QED BY <1>1, <1>4, <2>3, <2>4
<1>6. SubSeq(m, 1, k) = n /\ k + 1 \in DOMAIN m /\ k + 1 \in 1 .. Len(m) /\ (k + 1) - 1 = k
  <2>1. SubSeq(n, 1, k) = SubSeq(m, 1, k)
    BY <1>1, <1>4, <1>5, WaysAgree
  <2>2. SubSeq(n, 1, k) = n
    BY <1>1, <1>2, BeginningOfAppend
  <2> QED BY <1>1, <1>4, <1>5, <2>1, <2>2
<1>7. m[k + 1] = x
  <2>1. m[k + 1] = Step(ns[SubSeq(m, 1, (k + 1) - 1)], r)
    BY <1>4, <1>6 DEF Routed
  <2> QED BY <1>6, <2>1
<1>8. CASE x = Big
  <2>1. m[k + 1] = Big =>
          /\ Append(SubSeq(m, 1, (k + 1) - 1), Big) \in DOMAIN ns
          /\ r.priority <= ns[SubSeq(m, 1, (k + 1) - 1)].maxBigPriority
    BY <1>3, <1>6 DEF ServedIn
  <2>2. Append(n, Big) \in DOMAIN ns /\ r.priority <= ns[n].maxBigPriority
    BY <1>6, <1>7, <1>8, <2>1
  <2> QED BY <1>2, <1>8, <2>2
<1>9. CASE x # Big
  <2> SUFFICES ASSUME w \notin DOMAIN ns
               PROVE  FALSE
    BY <1>2, <1>9
  <2>1. Ends(ns, r, w)
    BY <1>2 DEF Ends, HashAt
  <2>2. m = w
    BY <1>1, <1>3, <2>1, GoodPlace
  <2>3. Last(w) = x
    BY <1>1, <1>2, ChildPath
  <2> QED BY <1>3, <1>9, <2>2, <2>3 DEF Stored
<1> QED BY <1>8, <1>9

\* What is right of the answer a of node n.
Right(ns, lv, p, n, a) ==
  /\ a \in Answer
  /\ a # -1 => \E r \in lv : MatchesPacket(r, p) /\ r.priority = a
  /\ \A r \in lv : ServedIn(ns, r) /\ MatchesPacket(r, p) /\ Routed(ns, r, n) => r.priority <= a

LEMMA LeafRight ==
  ASSUME NEW ns, Done(ns), NEW lv \in SUBSET Rule, Holds(ns, lv), NEW p,
         NEW n \in DOMAIN ns, ns[n].fun # "Hash", NEW f
  PROVE  Right(ns, lv, p, n, AnswerAt(ns, p, f, n))
<1> DEFINE S == Range(ns[n].rules)
           a == LinearScanPriority(S, p)
<1>1. AnswerAt(ns, p, f, n) = a
  BY LeafAnswers
<1>2. S = {r \in lv : PlaceIn(ns, r) = n}
  BY DEF Holds
<1>3. S \in SUBSET Rule
  BY <1>2
<1> HIDE DEF S
<1>4. /\ a \in Answer
      /\ a # -1 => \E r \in S : MatchesPacket(r, p) /\ r.priority = a
      /\ \A r \in S : MatchesPacket(r, p) => r.priority <= a
  BY <1>3, ScanIsGreatest DEF Answer
<1>5. ASSUME NEW r \in lv, Routed(ns, r, n)
      PROVE  r \in S
  <2>1. Ends(ns, r, n)
    BY <1>5 DEF Ends, HashAt
  <2>2. PlaceIn(ns, r) = n
    BY <2>1, GoodPlace DEF Done
  <2> QED BY <1>2, <2>2
<1>6. a # -1 => \E r \in lv : MatchesPacket(r, p) /\ r.priority = a
  BY <1>2, <1>4
<1>7. \A r \in lv : ServedIn(ns, r) /\ MatchesPacket(r, p) /\ Routed(ns, r, n) => r.priority <= a
  BY <1>4, <1>5
<1> HIDE DEF a
<1>8. Right(ns, lv, p, n, a)
  BY <1>4, <1>6, <1>7 DEF Right
<1> QED BY <1>1, <1>8

LEMMA HashRight ==
  ASSUME NEW ns, Done(ns), NEW lv \in SUBSET Rule, Stored(ns, lv), NEW p \in Packet,
         NEW n \in DOMAIN ns, ns[n].fun = "Hash", NEW f,
         \A y \in Key : Append(n, y) \in DOMAIN ns => Right(ns, lv, p, Append(n, y), f[Append(n, y)])
  PROVE  Right(ns, lv, p, n, AnswerAt(ns, p, f, n))
<1>1. PICK a : a = AnswerAt(ns, p, f, n)
  OBVIOUS
<1>2. AnswersFrom(ns, p, f, n, a)
  BY <1>1, HashAnswers DEF Right
<1>3. a # -1 => \E r \in lv : MatchesPacket(r, p) /\ r.priority = a
  BY <1>2 DEF AnswersFrom, Right
<1>4. ASSUME NEW r \in lv, ServedIn(ns, r), MatchesPacket(r, p), Routed(ns, r, n)
      PROVE  r.priority <= a
  <2>1. PICK x : x = Step(ns[n], r)
    OBVIOUS
  <2> DEFINE m == Append(n, x)
  <2>2. /\ x \in Key /\ Routed(ns, r, m) /\ m \in DOMAIN ns
        /\ x = Big => r.priority <= ns[n].maxBigPriority
    BY <1>4, <2>1, ServedBelow
  <2>3. r.priority <= f[m] /\ f[m] \in Int
    <3>1. r.priority <= f[m]
      BY <1>4, <2>2 DEF Right
    <3>2. f[m] \in Answer
      BY <2>2 DEF Right
    <3>3. f[m] \in Int
      BY <3>2, PriorityFinite DEF Answer
    <3> QED BY <3>1, <3>3
  <2>4. r.priority \in Int /\ a \in Int /\ ns[n].maxBigPriority \in Int
    <3>1. ns[n] \in NodeType
      BY DEF Done, Good, Tree
    <3> QED BY <1>2, <3>1, RuleAssumption, PriorityFinite DEF AnswersFrom, Answer, NodeType
  <2>5. CASE x = Big
    <3>1. f[m] <= a \/ ns[n].maxBigPriority <= a
      BY <1>2, <2>2, <2>5 DEF AnswersFrom
    <3> HIDE DEF m
    <3> QED BY <2>2, <2>3, <2>4, <2>5, <3>1
  <2>6. CASE x # Big
    <3>1. ns[n] \in NodeType
      BY DEF Done, Good, Tree
    <3>2. x = getKey(ns[n], p[ns[n].dim])
      BY <1>4, <2>1, <2>6, <3>1, KeysAgree
    <3>3. f[m] <= a
      BY <1>2, <2>2, <3>2 DEF AnswersFrom
    <3> HIDE DEF m
    <3> QED BY <2>3, <2>4, <3>3
  <2> QED BY <2>5, <2>6
<1>5. a \in Answer
  BY <1>2 DEF AnswersFrom
<1>6. Right(ns, lv, p, n, a)
  BY <1>3, <1>4, <1>5 DEF Right
<1> QED BY <1>1, <1>6

\* Whatever solves the recursion is right everywhere: by induction on the
\* fields that are free.
LEMMA AnswersRight ==
  ASSUME NEW ns, Done(ns), NEW lv \in SUBSET Rule, Holds(ns, lv), Stored(ns, lv),
         NEW p \in Packet, NEW f, Answers(f, ns, p)
  PROVE  \A n \in DOMAIN ns : Right(ns, lv, p, n, f[n])
<1> DEFINE P == {T \in SUBSET Dim : \A n \in DOMAIN ns :
                   Free(ns, n) = T => Right(ns, lv, p, n, f[n])}
<1>1. \A n \in DOMAIN ns : f[n] = AnswerAt(ns, p, f, n)
  BY DEF Answers
<1>2. ASSUME NEW T \in SUBSET Dim, \A d \in T : T \ {d} \in P
      PROVE  T \in P
  <2> SUFFICES ASSUME NEW n \in DOMAIN ns, Free(ns, n) = T
               PROVE  Right(ns, lv, p, n, f[n])
    OBVIOUS
  <2>1. CASE ns[n].fun # "Hash"
    BY <1>1, <2>1, LeafRight
  <2>2. CASE ns[n].fun = "Hash"
    <3>1. ASSUME NEW y \in Key, Append(n, y) \in DOMAIN ns
          PROVE  Right(ns, lv, p, Append(n, y), f[Append(n, y)])
      <4>1. ns[n].dim \in T /\ Free(ns, Append(n, y)) = T \ {ns[n].dim}
        BY <3>1, FreeBelow DEF Done
      <4> QED BY <1>2, <3>1, <4>1
    <3>2. Right(ns, lv, p, n, AnswerAt(ns, p, f, n))
      BY <2>2, <3>1, HashRight
    <3> QED BY <1>1, <3>2
  <2> QED BY <2>1, <2>2
<1>3. \A T \in SUBSET Dim : T \in P
  <2> HIDE DEF P
  <2> QED BY <1>2, DimIs, SubsetInduct
<1>4. \A n \in DOMAIN ns : Free(ns, n) \in SUBSET Dim
  BY DEF Free
<1> QED BY <1>3, <1>4

LEMMA InvLookupServes ==
  ASSUME Inv
  PROVE  LookupServes
<1> SUFFICES ASSUME Ready, NEW p \in Packet
             PROVE  /\ Lookup(p) \in {-1} \cup {r.priority : r \in {s \in live : MatchesPacket(s, p)}}
                    /\ LinearScanPriority({r \in live : Served(r)}, p) <= Lookup(p)
  BY DEF LookupServes
<1>1. PICK ns : ns = nodes
  OBVIOUS
<1>2. live \in SUBSET Rule /\ Holds(ns, live) /\ Stored(ns, live) /\ Done(ns) /\ << >> \in DOMAIN ns
  BY <1>1, NoneIsNew DEF Inv, Done, Good, Holds, Hung
<1>3. PICK f : f = CHOOSE g : Answers(g, ns, p)
  OBVIOUS
<1>4. Answers(f, ns, p)
  BY <1>2, <1>3, AnswersExist
<1>5. Lookup(p) = f[<< >>]
  BY <1>1, <1>3, LookupIs
<1>6. PICK a : a = Lookup(p)
  OBVIOUS
<1>7. Right(ns, live, p, << >>, a)
  BY <1>2, <1>4, <1>5, <1>6, AnswersRight
<1>8. a = -1 \/ a \in {r.priority : r \in {s \in live : MatchesPacket(s, p)}}
  BY <1>7 DEF Right
<1> DEFINE S == {r \in live : Served(r)}
           c == LinearScanPriority(S, p)
<1>9. a \in Int /\ -1 <= a
  BY <1>7, PriorityFinite DEF Right, Answer
<1>10. c \in Int /\ (c # -1 => \E r \in S : MatchesPacket(r, p) /\ r.priority = c)
  <2>1. S \in SUBSET Rule
    BY <1>2
  <2> HIDE DEF S
  <2> QED BY <2>1, ScanIsGreatest
<1>11. ASSUME NEW r \in S, MatchesPacket(r, p)
       PROVE  r.priority <= a
  <2>1. ServedIn(ns, r)
    BY <1>1, PlaceNow DEF Served, ServedIn
  <2>2. Routed(ns, r, << >>)
    BY DEF Routed, Path
  <2> QED BY <1>7, <1>11, <2>1, <2>2 DEF Right
<1>12. c <= a
  <2> HIDE DEF c, S
  <2> QED BY <1>9, <1>10, <1>11
<1> QED BY <1>6, <1>8, <1>12

\* Whatever tree is built from whatever Q-table, and whatever is inserted and
\* deleted then, a lookup answers the priority of an inserted rule that matches
\* or none, and it misses no inserted rule that its bigClassifiers serve
\* (ClassifyAPacket, InsertRule, DeleteRule and getKey in SubHybridTSS.cpp).
THEOREM LookupServesAlways == Spec => []LookupServes
<1>1. Inv => LookupServes
  BY InvLookupServes
<1> QED BY <1>1, Invariance, PTL

=============================================================================
