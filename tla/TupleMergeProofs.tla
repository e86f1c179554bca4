-------------------------- MODULE TupleMergeProofs --------------------------
(***************************************************************************)
(* Proofs about online TupleMerge, for any finite set of rules with the    *)
(* prefixes that PrefixAssumption asks for, any hash function, any collide *)
(* limit and, the refinement aside, any number of copies.                  *)
(*                                                                         *)
(* The first sections are about the operators, for any tables: what an     *)
(* insertion, a deletion and a split do to the tables they are given,      *)
(* which masks take which rules, what the sort and the removal make of     *)
(* the list, and what a lookup answers.  The invariant follows.            *)
(***************************************************************************)
EXTENDS TupleMerge, RulesProofs, FoldLemmas

-----------------------------------------------------------------------------
(***************************************************************************)
(* One table: what an insertion and a deletion do to it.                   *)
(***************************************************************************)

Peers(q) == {r \in Rule : r.priority = q}

Table == [nodes : [Rule -> Nat], container : [Priority -> Nat], maxPriority : Priority \cup {-1}]

\* What Insertion, Deletion and the split work on, for the masks D.
States(D) == [slotted : [D -> Table], changed : BOOLEAN]

\* The multiset counts the nodes, and the cached maximum is that of the multiset.
Exact(t) ==
  /\ \A q \in Priority : t.container[q] = SumFunctionOnSet(t.nodes, Peers(q))
  /\ t.maxPriority = Highest(Held(t.container))

Inserted(t, r) ==
  [nodes       |-> [t.nodes EXCEPT ![r] = @ + 1],
   container   |-> [t.container EXCEPT ![r.priority] = @ + 1],
   maxPriority |-> IF r.priority > t.maxPriority THEN r.priority ELSE t.maxPriority]

Rest(t, r) == [t.container EXCEPT ![r.priority] = @ - 1]

Falls(t, r) == Held(Rest(t, r)) = {} \/ r.priority = t.maxPriority

Deleted(t, r) ==
  [nodes       |-> [t.nodes EXCEPT ![r] = IF @ > 0 THEN @ - 1 ELSE 0],
   container   |-> Rest(t, r),
   maxPriority |-> IF Falls(t, r) THEN Highest(Held(Rest(t, r))) ELSE t.maxPriority]

LEMMA PeersFinite ==
  ASSUME NEW q
  PROVE  Peers(q) \in SUBSET Rule /\ IsFiniteSet(Peers(q))
<1>1. Peers(q) \in SUBSET Rule
  BY DEF Peers
<1> QED BY <1>1, RuleAssumption, FS_Subset

LEMMA HighestHeld ==
  ASSUME NEW c
  PROVE  /\ Highest(Held(c)) \in Priority \cup {-1}
         /\ Highest(Held(c)) \in Int
         /\ \A q \in Held(c) : q \in Priority /\ q <= Highest(Held(c))
         /\ Highest(Held(c)) # -1 => Highest(Held(c)) \in Held(c)
<1> DEFINE S == Held(c)
<1>1. S \in SUBSET Priority
  BY DEF Held
<1> HIDE DEF S
<1>2. IsFiniteSet(S) /\ S \in SUBSET Int
  BY <1>1, PrioritiesFinite
<1>3. Highest(S) \in S \cup {-1} /\ \A y \in S \cup {-1} : y <= Highest(S)
  BY <1>2, HighestIsGreatest
<1>4. /\ Highest(S) \in Priority \cup {-1} /\ Highest(S) \in Int
      /\ \A q \in S : q \in Priority /\ q <= Highest(S)
      /\ Highest(S) # -1 => Highest(S) \in S
  <2> DEFINE h == Highest(S)
  <2>1. h \in S \cup {-1} /\ \A y \in S \cup {-1} : y <= h
    BY <1>3
  <2> HIDE DEF h
  <2>2. /\ h \in Priority \cup {-1} /\ h \in Int
        /\ \A q \in S : q \in Priority /\ q <= h
        /\ h # -1 => h \in S
    BY <1>1, <1>2, <2>1
  <2> QED BY <2>2 DEF h
<1> QED BY <1>4 DEF S

LEMMA HighestHeldIs ==
  ASSUME NEW c, NEW x \in Priority \cup {-1}, x # -1 => x \in Held(c), \A q \in Held(c) : q <= x
  PROVE  Highest(Held(c)) = x
<1> DEFINE S == Held(c)
<1>1. S \in SUBSET Priority
  BY DEF Held
<1> HIDE DEF S
<1>2. S \in SUBSET Int /\ x \in S \cup {-1} /\ -1 <= x
  BY <1>1, PriorityFinite DEF S
<1>3. \A y \in S \cup {-1} : y <= x
  BY <1>2 DEF S
<1>4. Highest(S) = x
  BY <1>2, <1>3, HighestIs
<1> QED BY <1>4 DEF S

\* The code's updates, written per table.
LEMMA InsertionIs ==
  ASSUME NEW D, NEW st \in States(D), NEW m \in D, NEW r \in Rule
  PROVE  Insertion(st, m, r)
           = [slotted |-> [st.slotted EXCEPT ![m] = Inserted(st.slotted[m], r)],
              changed |-> (st.changed \/ r.priority > st.slotted[m].maxPriority)]
<1>1. st.slotted[m] \in Table /\ st.slotted \in [D -> Table]
  BY DEF States
<1> DEFINE f == st.slotted
           g == [f EXCEPT ![m].nodes[r] = @ + 1, ![m].container[r.priority] = @ + 1,
                          ![m].maxPriority = IF r.priority > f[m].maxPriority
                                               THEN r.priority ELSE @]
<1>2. DOMAIN g = D /\ \A x \in D \ {m} : g[x] = f[x]
  BY <1>1
<1>3. g[m] = Inserted(f[m], r)
  BY <1>1 DEF Inserted, Table
<1>4. g = [f EXCEPT ![m] = Inserted(f[m], r)]
  BY <1>1, <1>2, <1>3
<1> QED BY <1>4 DEF Insertion

LEMMA DeletionIs ==
  ASSUME NEW D, NEW st \in States(D), NEW m \in D, NEW r \in Rule
  PROVE  Deletion(st, m, r)
           = IF st.slotted[m].container[r.priority] = 0
               THEN st
               ELSE [slotted |-> [st.slotted EXCEPT ![m] = Deleted(st.slotted[m], r)],
                     changed |-> (st.changed \/ Falls(st.slotted[m], r))]
<1>1. st.slotted[m] \in Table /\ st.slotted \in [D -> Table]
  BY DEF States
<1> DEFINE rest == Rest(st.slotted[m], r)
           falls == Falls(st.slotted[m], r)
<1> DEFINE f == st.slotted
           g == [f EXCEPT ![m].nodes[r] = IF @ > 0 THEN @ - 1 ELSE 0,
                          ![m].container = rest,
                          ![m].maxPriority = IF falls THEN Highest(Held(rest)) ELSE @]
<1>2. DOMAIN g = D /\ \A x \in D \ {m} : g[x] = f[x]
  <2> HIDE DEF rest, falls
  <2> QED BY <1>1
<1>3. g[m] = Deleted(f[m], r)
  <2> HIDE DEF rest, falls
  <2>1. g[m] = [nodes       |-> [f[m].nodes EXCEPT ![r] = IF @ > 0 THEN @ - 1 ELSE 0],
                container   |-> rest,
                maxPriority |-> IF falls THEN Highest(Held(rest)) ELSE f[m].maxPriority]
    BY <1>1 DEF Table
  <2> QED BY <2>1 DEF Deleted, rest, falls
<1>4. g = [f EXCEPT ![m] = Deleted(f[m], r)]
  <2> HIDE DEF rest, falls
  <2> QED BY <1>1, <1>2, <1>3
<1> QED BY <1>4 DEF Deletion, Rest, Falls

\* The count of a priority changes as the count of the rule does.
LEMMA CountUpdate ==
  ASSUME NEW n \in [Rule -> Nat], NEW k \in [Rule -> Nat], NEW r \in Rule,
         \A x \in Rule : x # r => k[x] = n[x]
  PROVE  \A q : /\ SumFunctionOnSet(n, Peers(q)) \in Nat
                /\ q = r.priority => SumFunctionOnSet(k, Peers(q)) + n[r]
                                       = SumFunctionOnSet(n, Peers(q)) + k[r]
                /\ q # r.priority => SumFunctionOnSet(k, Peers(q)) = SumFunctionOnSet(n, Peers(q))
<1> TAKE q
<1>1. Peers(q) \in SUBSET Rule /\ IsFiniteSet(Peers(q))
  BY PeersFinite
<1>2. r \in Peers(q) <=> q = r.priority
  BY DEF Peers
<1>3. SumFunctionOnSet(n, Peers(q)) \in Nat
  BY <1>1, SumStep
<1>4. CASE q = r.priority
  BY <1>1, <1>2, <1>3, <1>4, SumUpdate
<1>5. CASE q # r.priority
  BY <1>1, <1>2, <1>3, <1>5, SumSame
<1> QED BY <1>3, <1>4, <1>5

LEMMA EmptyTableExact ==
  EmptyTable \in Table /\ Exact(EmptyTable) /\ EmptyTable.maxPriority = -1
<1>1. EmptyTable \in Table /\ EmptyTable.maxPriority = -1
  BY DEF EmptyTable, Table
<1>2. ASSUME NEW q \in Priority
      PROVE  SumFunctionOnSet(EmptyTable.nodes, Peers(q)) = 0
  <2> DEFINE n == EmptyTable.nodes
             P == Peers(q)
  <2>1. IsFiniteSet(P) /\ \A r \in P : n[r] = 0
    BY PeersFinite DEF EmptyTable
  <2> HIDE DEF n, P
  <2>2. SumFunctionOnSet(n, P) \in Nat /\ ~(SumFunctionOnSet(n, P) > 0)
    BY <2>1, SumBounds
  <2> QED BY <2>2 DEF n, P
<1>3. Highest(Held(EmptyTable.container)) = -1
  <2>1. Held(EmptyTable.container) = {}
    BY DEF Held, EmptyTable
  <2> QED BY <2>1, HighestHeldIs
<1> QED BY <1>1, <1>2, <1>3 DEF Exact, EmptyTable

\* A rule in a table is counted and does not exceed the cached maximum.
LEMMA NodeIsHeld ==
  ASSUME NEW t \in Table, Exact(t), NEW r \in Rule, t.nodes[r] > 0
  PROVE  /\ r.priority \in Priority /\ t.container[r.priority] > 0
         /\ r.priority <= t.maxPriority /\ t.maxPriority # -1
<1>1. r.priority \in Priority /\ r \in Peers(r.priority)
  BY DEF Priority, Peers
<1>2. t.container[r.priority] > 0
  <2>1. IsFiniteSet(Peers(r.priority)) /\ \A x \in Peers(r.priority) : t.nodes[x] \in Nat
    BY PeersFinite DEF Table
  <2>2. SumFunctionOnSet(t.nodes, Peers(r.priority)) > 0
    BY <1>1, <2>1, SumBounds
  <2> QED BY <1>1, <2>2 DEF Exact
<1>3. r.priority \in Held(t.container)
  BY <1>1, <1>2 DEF Held
<1>4. r.priority <= t.maxPriority
  BY <1>3, HighestHeld DEF Exact
<1> QED BY <1>1, <1>2, <1>4, PriorityFinite

\* A table is empty when its multiset is.
LEMMA EmptyIsNotHeld ==
  ASSUME NEW t \in Table, Exact(t), NodesIn(t) = {}
  PROVE  Held(t.container) = {}
<1> SUFFICES ASSUME NEW q \in Priority, t.container[q] > 0
             PROVE  FALSE
  BY DEF Held
<1>1. IsFiniteSet(Peers(q)) /\ Peers(q) \in SUBSET Rule
  BY PeersFinite
<1>2. \A x \in Peers(q) : t.nodes[x] \in Nat
  BY <1>1 DEF Table
<1>3. SumFunctionOnSet(t.nodes, Peers(q)) > 0
  BY DEF Exact
<1>4. PICK x \in Peers(q) : t.nodes[x] > 0
  BY <1>1, <1>2, <1>3, SumBounds
<1> QED BY <1>1, <1>4 DEF NodesIn

LEMMA InsertedExact ==
  ASSUME NEW t \in Table, NEW r \in Rule
  PROVE  /\ Inserted(t, r) \in Table
         /\ Exact(t) => Exact(Inserted(t, r))
<1> DEFINE u == Inserted(t, r)
<1>1. r.priority \in Priority /\ r.priority \in Int
  BY PriorityFinite DEF Priority
<1>2. /\ u.nodes = [t.nodes EXCEPT ![r] = @ + 1] /\ u.nodes \in [Rule -> Nat]
      /\ u.container = [t.container EXCEPT ![r.priority] = @ + 1]
      /\ u.container \in [Priority -> Nat]
      /\ u.maxPriority = IF r.priority > t.maxPriority THEN r.priority ELSE t.maxPriority
      /\ u.maxPriority \in Priority \cup {-1}
  BY <1>1 DEF Inserted, Table
<1>3. u \in Table
  BY <1>2 DEF Inserted, Table
<1>4. ASSUME Exact(t)
      PROVE  Exact(u)
  <2>1. ASSUME NEW q \in Priority
        PROVE  u.container[q] = SumFunctionOnSet(u.nodes, Peers(q))
    <3>1. t.container[q] = SumFunctionOnSet(t.nodes, Peers(q)) /\ t.container[q] \in Nat
      BY <1>4 DEF Exact, Table
    <3>2. /\ q = r.priority => SumFunctionOnSet(u.nodes, Peers(q)) + t.nodes[r]
                                 = SumFunctionOnSet(t.nodes, Peers(q)) + u.nodes[r]
          /\ q # r.priority => SumFunctionOnSet(u.nodes, Peers(q))
                                 = SumFunctionOnSet(t.nodes, Peers(q))
      <4>1. \A x \in Rule : x # r => u.nodes[x] = t.nodes[x]
        BY <1>2 DEF Table
      <4>2. t.nodes \in [Rule -> Nat] /\ u.nodes \in [Rule -> Nat]
        BY <1>2 DEF Table
      <4> HIDE DEF u
      <4> QED BY <4>1, <4>2, CountUpdate
    <3>3. u.nodes[r] = t.nodes[r] + 1 /\ t.nodes[r] \in Nat
      BY <1>2 DEF Table
    <3>4. u.container[q] = IF q = r.priority THEN t.container[q] + 1 ELSE t.container[q]
      BY <1>2 DEF Table
    <3>5. SumFunctionOnSet(u.nodes, Peers(q)) \in Nat
      BY <1>2, CountUpdate
    <3> DEFINE a == SumFunctionOnSet(u.nodes, Peers(q))
    <3> HIDE DEF u, a
    <3> QED BY <3>1, <3>2, <3>3, <3>4, <3>5 DEF a
  <2>2. Highest(Held(u.container)) = u.maxPriority
    <3>1. /\ t.maxPriority \in Int
          /\ \A q \in Held(t.container) : q <= t.maxPriority
          /\ t.maxPriority # -1 => t.maxPriority \in Held(t.container)
      BY <1>4, HighestHeld DEF Exact
    <3>2. Held(u.container) = Held(t.container) \cup {r.priority}
      BY <1>1, <1>2 DEF Held, Table
    <3>3. \A q \in Priority : q \in Nat
      BY PriorityFinite
    <3> HIDE DEF u
    <3>4. /\ u.maxPriority # -1 => u.maxPriority \in Held(u.container)
          /\ \A q \in Held(u.container) : q <= u.maxPriority
      BY <1>1, <1>2, <3>1, <3>2, <3>3 DEF Held
    <3> QED BY <1>2, <3>4, HighestHeldIs
  <2> QED BY <2>1, <2>2 DEF Exact
<1> QED BY <1>3, <1>4

LEMMA DeletedExact ==
  ASSUME NEW t \in Table, NEW r \in Rule, t.container[r.priority] # 0
  PROVE  /\ Deleted(t, r) \in Table
         /\ Exact(t) /\ t.nodes[r] > 0 => Exact(Deleted(t, r))
<1> DEFINE u == Deleted(t, r)
           rest == Rest(t, r)
<1>1. r.priority \in Priority /\ r.priority \in Int
  BY PriorityFinite DEF Priority
<1>2. rest \in [Priority -> Nat] /\ rest = [t.container EXCEPT ![r.priority] = @ - 1]
  BY <1>1 DEF Rest, Table
<1>3. /\ u.nodes = [t.nodes EXCEPT ![r] = IF @ > 0 THEN @ - 1 ELSE 0]
      /\ u.nodes \in [Rule -> Nat]
      /\ u.container = rest
      /\ u.maxPriority = IF Falls(t, r) THEN Highest(Held(rest)) ELSE t.maxPriority
      /\ u.maxPriority \in Priority \cup {-1}
  BY HighestHeld DEF Deleted, Table
<1>4. u \in Table
  BY <1>2, <1>3 DEF Deleted, Table
<1>5. ASSUME Exact(t), t.nodes[r] > 0
      PROVE  Exact(u)
  <2>1. ASSUME NEW q \in Priority
        PROVE  u.container[q] = SumFunctionOnSet(u.nodes, Peers(q))
    <3>1. t.container[q] = SumFunctionOnSet(t.nodes, Peers(q)) /\ t.container[q] \in Nat
      BY <1>5 DEF Exact, Table
    <3>2. /\ q = r.priority => SumFunctionOnSet(u.nodes, Peers(q)) + t.nodes[r]
                                 = SumFunctionOnSet(t.nodes, Peers(q)) + u.nodes[r]
          /\ q # r.priority => SumFunctionOnSet(u.nodes, Peers(q))
                                 = SumFunctionOnSet(t.nodes, Peers(q))
      <4>1. \A x \in Rule : x # r => u.nodes[x] = t.nodes[x]
        BY <1>3 DEF Table
      <4>2. t.nodes \in [Rule -> Nat] /\ u.nodes \in [Rule -> Nat]
        BY <1>3 DEF Table
      <4> HIDE DEF u
      <4> QED BY <4>1, <4>2, CountUpdate
    <3>3. u.nodes[r] = t.nodes[r] - 1 /\ t.nodes[r] \in Nat
      BY <1>3, <1>5 DEF Table
    <3>4. u.container[q] = IF q = r.priority THEN t.container[q] - 1 ELSE t.container[q]
      BY <1>2, <1>3 DEF Table
    <3>5. SumFunctionOnSet(u.nodes, Peers(q)) \in Nat
      BY <1>3, CountUpdate
    <3> DEFINE a == SumFunctionOnSet(u.nodes, Peers(q))
    <3> HIDE DEF u, a
    <3> QED BY <3>1, <3>2, <3>3, <3>4, <3>5 DEF a
  <2>2. Highest(Held(u.container)) = u.maxPriority
    <3>1. CASE Falls(t, r)
      BY <1>3, <3>1
    <3>2. CASE ~Falls(t, r)
      <4>1. u.maxPriority = t.maxPriority /\ r.priority # t.maxPriority
        BY <1>3, <3>2 DEF Falls
      <4>2. /\ t.maxPriority # -1
            /\ \A q \in Held(t.container) : q <= t.maxPriority
            /\ t.maxPriority # -1 => t.maxPriority \in Held(t.container)
        BY <1>5, NodeIsHeld, HighestHeld DEF Exact
      <4>3. Held(rest) \subseteq Held(t.container)
        <5>1. ASSUME NEW q \in Priority, rest[q] > 0
              PROVE  t.container[q] > 0
          BY <1>1, <1>2, <5>1 DEF Table
        <5> QED BY <5>1 DEF Held
      <4>4. t.maxPriority \in Held(rest)
        BY <1>2, <4>1, <4>2 DEF Held, Table
      <4> HIDE DEF u, rest
      <4> QED BY <1>3, <4>1, <4>2, <4>3, <4>4, HighestHeldIs
    <3> QED BY <3>1, <3>2
  <2> QED BY <2>1, <2>2 DEF Exact
<1> QED BY <1>4, <1>5

-----------------------------------------------------------------------------
(***************************************************************************)
(* All tables: how an update moves the copies of a rule.                   *)
(***************************************************************************)

\* The copies of r in the tables f.
StoredIn(f, r) == SumFunctionOnSet([m \in DOMAIN f |-> f[m].nodes[r]], DOMAIN f)

LEMMA StoredIsSum ==
  ASSUME NEW r
  PROVE  Stored(r) = StoredIn(slotted, r)
BY DEF Stored, StoredIn, SumFunction, SumFunctionOnSet, FoldFunction

\* One table changes, at one rule.
LEMMA StoredUpdate ==
  ASSUME NEW D, IsFiniteSet(D), NEW f \in [D -> Table], NEW m \in D, NEW u \in Table, NEW r \in Rule
  PROVE  /\ StoredIn(f, r) \in Nat
         /\ StoredIn([f EXCEPT ![m] = u], r) + f[m].nodes[r] = StoredIn(f, r) + u.nodes[r]
<1> DEFINE g == [f EXCEPT ![m] = u]
           a == [x \in DOMAIN f |-> f[x].nodes[r]]
           b == [x \in DOMAIN g |-> g[x].nodes[r]]
<1>1. DOMAIN f = D /\ DOMAIN g = D /\ g[m] = u /\ \A x \in D : x # m => g[x] = f[x]
  OBVIOUS
<1>2. \A x \in D : f[x] \in Table /\ f[x].nodes[r] \in Nat
  BY DEF Table
<1>3. \A x \in D : a[x] \in Nat /\ (x # m => b[x] = a[x])
  <2> HIDE DEF g
  <2> QED BY <1>1, <1>2
<1>4. a[m] = f[m].nodes[r] /\ b[m] = u.nodes[r] /\ b[m] \in Nat
  <2>1. u.nodes[r] \in Nat
    BY DEF Table
  <2> HIDE DEF g
  <2> QED BY <1>1, <2>1
<1>5. StoredIn(f, r) = SumFunctionOnSet(a, D) /\ StoredIn(g, r) = SumFunctionOnSet(b, D)
  <2> HIDE DEF g
  <2> QED BY <1>1 DEF StoredIn
<1> HIDE DEF a, b, g
<1>6. SumFunctionOnSet(b, D) + a[m] = SumFunctionOnSet(a, D) + b[m]
  BY <1>3, <1>4, SumUpdate
<1>7. SumFunctionOnSet(a, D) \in Nat
  BY <1>3, SumStep
<1> QED BY <1>4, <1>5, <1>6, <1>7 DEF g

LEMMA StoredBounds ==
  ASSUME NEW D, IsFiniteSet(D), NEW f \in [D -> Table], NEW r \in Rule
  PROVE  /\ StoredIn(f, r) \in Nat
         /\ \A m \in D : f[m].nodes[r] \in Nat /\ f[m].nodes[r] <= StoredIn(f, r)
         /\ StoredIn(f, r) > 0 <=> \E m \in D : f[m].nodes[r] > 0
<1> DEFINE a == [x \in D |-> f[x].nodes[r]]
<1>1. \A x \in D : a[x] = f[x].nodes[r] /\ a[x] \in Nat
  BY DEF Table
<1>2. StoredIn(f, r) = SumFunctionOnSet(a, D)
  BY DEF StoredIn
<1> HIDE DEF a
<1> QED BY <1>1, <1>2, SumBounds

\* A table made for a mask that has none holds nothing yet.
LEMMA StoredOfMade ==
  ASSUME NEW D, IsFiniteSet(D), NEW f \in [D -> Table], NEW m, m \notin D, NEW r \in Rule
  PROVE  StoredIn(Made(f, m), r) = StoredIn(f, r)
<1> DEFINE g == Made(f, m)
           E == D \cup {m}
           a == [x \in D |-> f[x].nodes[r]]
           b == [x \in E |-> g[x].nodes[r]]
<1>1. EmptyTable \in Table /\ EmptyTable.nodes[r] = 0
  BY EmptyTableExact DEF EmptyTable
<1>2. g \in [E -> Table] /\ g[m] = EmptyTable /\ \A x \in D : g[x] = f[x]
  BY <1>1 DEF Made
<1> HIDE DEF g
<1>3. /\ \A x \in D : a[x] = f[x].nodes[r] /\ a[x] \in Nat /\ b[x] = a[x]
      /\ b[m] = 0
  BY <1>1, <1>2 DEF Table
<1>4. StoredIn(f, r) = SumFunctionOnSet(a, D) /\ StoredIn(g, r) = SumFunctionOnSet(b, E)
  BY <1>2 DEF StoredIn
<1> HIDE DEF a, b
<1>5. IsFiniteSet(E) /\ \A x \in E : b[x] \in Nat
  BY <1>3, FS_AddElement
<1>6. SumFunctionOnSet(b, E) = b[m] + SumFunctionOnSet(b, E \ {m})
  BY <1>5, SumSplit
<1>7. SumFunctionOnSet(b, E \ {m}) = SumFunctionOnSet(b, D)
  <2>1. E \ {m} = D
    OBVIOUS
  <2> QED BY <2>1
<1>8. SumFunctionOnSet(b, D) = SumFunctionOnSet(a, D) /\ SumFunctionOnSet(a, D) \in Nat
  BY <1>3, SumSame, SumStep
<1> HIDE DEF E
<1>9. StoredIn(g, r) = StoredIn(f, r)
  BY <1>3, <1>4, <1>6, <1>7, <1>8
<1> QED BY <1>9 DEF g

AllExact(f) == \A x \in DOMAIN f : Exact(f[x])

SameMax(f, g) == \A x \in DOMAIN f : g[x].maxPriority = f[x].maxPriority

LEMMA StateIs ==
  ASSUME NEW D, NEW f \in [D -> Table], NEW b \in BOOLEAN
  PROVE  [slotted |-> f, changed |-> b] \in States(D)
BY DEF States

LEMMA InsertionType ==
  ASSUME NEW D, NEW st \in States(D), NEW m \in D, NEW r \in Rule
  PROVE  Insertion(st, m, r) \in States(D)
<1> DEFINE b == (st.changed \/ r.priority > st.slotted[m].maxPriority)
           f == [st.slotted EXCEPT ![m] = Inserted(st.slotted[m], r)]
<1>1. b \in BOOLEAN
  OBVIOUS
<1>2. f \in [D -> Table]
  BY InsertedExact DEF States
<1>3. Insertion(st, m, r) = [slotted |-> f, changed |-> b]
  BY InsertionIs
<1> HIDE DEF b, f
<1> QED BY <1>1, <1>2, <1>3, StateIs

LEMMA DeletionType ==
  ASSUME NEW D, NEW st \in States(D), NEW m \in D, NEW r \in Rule
  PROVE  Deletion(st, m, r) \in States(D)
<1>1. CASE st.slotted[m].container[r.priority] = 0
  BY <1>1, DeletionIs
<1>2. CASE st.slotted[m].container[r.priority] # 0
  <2> DEFINE b == (st.changed \/ Falls(st.slotted[m], r))
             f == [st.slotted EXCEPT ![m] = Deleted(st.slotted[m], r)]
  <2>1. b \in BOOLEAN
    OBVIOUS
  <2>2. f \in [D -> Table]
    BY <1>2, DeletedExact DEF States
  <2>3. Deletion(st, m, r) = [slotted |-> f, changed |-> b]
    BY <1>2, DeletionIs
  <2> HIDE DEF b, f
  <2> QED BY <2>1, <2>2, <2>3, StateIs
<1> QED BY <1>1, <1>2

\* new is st with one more copy of r, in table m.
Adds(D, st, new, m, r) ==
  /\ new \in States(D) /\ AllExact(new.slotted)
  /\ \A x \in D \ {m} : new.slotted[x] = st.slotted[x]
  /\ new.slotted[m].nodes = [st.slotted[m].nodes EXCEPT ![r] = @ + 1]
  /\ \A x \in Rule : StoredIn(new.slotted, x)
                        = StoredIn(st.slotted, x) + (IF x = r THEN 1 ELSE 0)
  /\ ~new.changed => (~st.changed /\ SameMax(st.slotted, new.slotted))

\* new is st with one copy less of r, in table m.
Takes(D, st, new, m, r) ==
  /\ new \in States(D) /\ AllExact(new.slotted)
  /\ \A x \in D \ {m} : new.slotted[x] = st.slotted[x]
  /\ new.slotted[m].nodes = [st.slotted[m].nodes EXCEPT ![r] = @ - 1]
  /\ \A x \in Rule : StoredIn(st.slotted, x)
                        = StoredIn(new.slotted, x) + (IF x = r THEN 1 ELSE 0)
  /\ ~new.changed => /\ ~st.changed /\ SameMax(st.slotted, new.slotted)
                      /\ NodesIn(new.slotted[m]) # {}

LEMMA InsertionAdds ==
  ASSUME NEW D, IsFiniteSet(D), NEW st \in States(D), NEW m \in D, NEW r \in Rule,
         AllExact(st.slotted), NEW new, new = Insertion(st, m, r)
  PROVE  Adds(D, st, new, m, r)
<1> DEFINE t == st.slotted[m]
           u == Inserted(t, r)
<1>1. t \in Table /\ st.slotted \in [D -> Table] /\ u \in Table /\ Exact(u)
  BY InsertedExact DEF States, AllExact
<1>2. /\ new.slotted = [st.slotted EXCEPT ![m] = u]
      /\ new.changed = (st.changed \/ r.priority > t.maxPriority)
  BY InsertionIs
<1>3. /\ u.nodes = [t.nodes EXCEPT ![r] = @ + 1]
      /\ u.maxPriority = IF r.priority > t.maxPriority THEN r.priority ELSE t.maxPriority
  BY DEF Inserted
<1> HIDE DEF u
<1>4. AllExact(new.slotted) /\ \A x \in D \ {m} : new.slotted[x] = st.slotted[x]
  BY <1>1, <1>2 DEF AllExact
<1>5. ASSUME NEW x \in Rule
      PROVE  StoredIn(new.slotted, x) = StoredIn(st.slotted, x) + (IF x = r THEN 1 ELSE 0)
  <2>1. /\ StoredIn(st.slotted, x) \in Nat
        /\ StoredIn([st.slotted EXCEPT ![m] = u], x) + t.nodes[x]
              = StoredIn(st.slotted, x) + u.nodes[x]
    BY <1>1, StoredUpdate
  <2>2. u.nodes[x] = t.nodes[x] + (IF x = r THEN 1 ELSE 0) /\ t.nodes[x] \in Nat
    BY <1>1, <1>3 DEF Table
  <2>3. StoredIn([st.slotted EXCEPT ![m] = u], x) \in Nat
    <3>1. [st.slotted EXCEPT ![m] = u] \in [D -> Table]
      BY <1>1
    <3> QED BY <3>1, StoredBounds
  <2>4. StoredIn(new.slotted, x) = StoredIn([st.slotted EXCEPT ![m] = u], x)
    BY <1>2
  <2> DEFINE a == StoredIn([st.slotted EXCEPT ![m] = u], x)
  <2> HIDE DEF a, t
  <2> QED BY <2>1, <2>2, <2>3, <2>4 DEF a
<1>6. ~new.changed => ~st.changed /\ SameMax(st.slotted, new.slotted)
  BY <1>1, <1>2, <1>3 DEF SameMax
<1> QED BY <1>1, <1>2, <1>3, <1>4, <1>5, <1>6, InsertionType DEF Adds

LEMMA DeletionTakes ==
  ASSUME NEW D, IsFiniteSet(D), NEW st \in States(D), NEW m \in D, NEW r \in Rule,
         AllExact(st.slotted), st.slotted[m].nodes[r] > 0, NEW new, new = Deletion(st, m, r)
  PROVE  Takes(D, st, new, m, r)
<1> DEFINE t == st.slotted[m]
           u == Deleted(t, r)
<1>1. t \in Table /\ st.slotted \in [D -> Table] /\ Exact(t) /\ t.container[r.priority] # 0
  BY NodeIsHeld DEF States, AllExact
<1>2. u \in Table /\ Exact(u)
  BY <1>1, DeletedExact
<1>3. /\ new.slotted = [st.slotted EXCEPT ![m] = u]
      /\ new.changed = (st.changed \/ Falls(t, r))
  BY <1>1, DeletionIs
<1>4. /\ u.nodes = [t.nodes EXCEPT ![r] = @ - 1]
      /\ u.container = Rest(t, r)
      /\ ~Falls(t, r) => u.maxPriority = t.maxPriority
  BY <1>1 DEF Deleted, Table
<1> HIDE DEF u
<1>5. AllExact(new.slotted) /\ \A x \in D \ {m} : new.slotted[x] = st.slotted[x]
  BY <1>1, <1>2, <1>3 DEF AllExact
<1>6. ASSUME NEW x \in Rule
      PROVE  StoredIn(st.slotted, x) = StoredIn(new.slotted, x) + (IF x = r THEN 1 ELSE 0)
  <2>1. /\ StoredIn(st.slotted, x) \in Nat
        /\ StoredIn([st.slotted EXCEPT ![m] = u], x) + t.nodes[x]
              = StoredIn(st.slotted, x) + u.nodes[x]
    BY <1>1, <1>2, StoredUpdate
  <2>2. t.nodes[x] = u.nodes[x] + (IF x = r THEN 1 ELSE 0) /\ t.nodes[x] \in Nat
        /\ u.nodes[x] \in Nat
    BY <1>1, <1>2, <1>4 DEF Table
  <2>3. StoredIn([st.slotted EXCEPT ![m] = u], x) \in Nat
    <3>1. [st.slotted EXCEPT ![m] = u] \in [D -> Table]
      BY <1>1, <1>2
    <3> QED BY <3>1, StoredBounds
  <2>4. StoredIn(new.slotted, x) = StoredIn([st.slotted EXCEPT ![m] = u], x)
    BY <1>3
  <2> DEFINE a == StoredIn([st.slotted EXCEPT ![m] = u], x)
  <2> HIDE DEF a, t
  <2> QED BY <2>1, <2>2, <2>3, <2>4 DEF a
<1>7. ASSUME ~new.changed
      PROVE  /\ ~st.changed /\ SameMax(st.slotted, new.slotted)
             /\ NodesIn(new.slotted[m]) # {}
  <2>1. ~Falls(t, r) /\ ~st.changed
    BY <1>3, <1>7
  <2>2. Held(u.container) # {}
    BY <1>4, <2>1 DEF Falls
  <2>3. NodesIn(u) # {}
    BY <1>2, <2>2, EmptyIsNotHeld
  <2> QED BY <1>1, <1>3, <1>4, <2>1, <2>3 DEF SameMax
<1> QED BY <1>1, <1>3, <1>4, <1>5, <1>6, <1>7, DeletionType DEF Takes

-----------------------------------------------------------------------------
(***************************************************************************)
(* The split: one copy after the other moves from table m to the target.   *)
(***************************************************************************)

MoveOne(st, m, target, r) == Insertion(Deletion(st, m, r), target, r)

\* new is st with one copy of r moved from m to the target, or left in m if
\* that is the target.
Moves(D, st, new, m, target, r) ==
  /\ new \in States(D) /\ AllExact(new.slotted)
  /\ \A x \in D \ {m, target} : new.slotted[x] = st.slotted[x]
  /\ m # target =>
       /\ new.slotted[m].nodes = [st.slotted[m].nodes EXCEPT ![r] = @ - 1]
       /\ new.slotted[target].nodes = [st.slotted[target].nodes EXCEPT ![r] = @ + 1]
  /\ m = target => new.slotted[m].nodes = st.slotted[m].nodes
  /\ \A x \in Rule : StoredIn(new.slotted, x) = StoredIn(st.slotted, x)
  /\ ~new.changed => (~st.changed /\ SameMax(st.slotted, new.slotted))

LEMMA MoveOneMoves ==
  ASSUME NEW D, IsFiniteSet(D), NEW st \in States(D), NEW m \in D, NEW target \in D, NEW r \in Rule,
         AllExact(st.slotted), st.slotted[m].nodes[r] > 0, NEW new, new = MoveOne(st, m, target, r)
  PROVE  Moves(D, st, new, m, target, r)
<1>1. PICK mid : mid = Deletion(st, m, r) /\ new = Insertion(mid, target, r)
  BY DEF MoveOne
<1>2. Takes(D, st, mid, m, r)
  BY <1>1, DeletionTakes
<1>3. Adds(D, mid, new, target, r)
  BY <1>1, <1>2, InsertionAdds DEF Takes
<1>4. /\ st.slotted \in [D -> Table] /\ st.slotted[m].nodes \in [Rule -> Nat]
      /\ DOMAIN mid.slotted = D
  BY <1>2 DEF States, Table, Takes
<1>5. \A x \in D \ {m, target} : new.slotted[x] = st.slotted[x]
  BY <1>2, <1>3 DEF Takes, Adds
<1>6. ASSUME m # target
      PROVE  /\ new.slotted[m].nodes = [st.slotted[m].nodes EXCEPT ![r] = @ - 1]
             /\ new.slotted[target].nodes = [st.slotted[target].nodes EXCEPT ![r] = @ + 1]
  BY <1>2, <1>3, <1>6 DEF Takes, Adds
<1>7. ASSUME m = target
      PROVE  new.slotted[m].nodes = st.slotted[m].nodes
  <2>1. new.slotted[m].nodes
          = [[st.slotted[m].nodes EXCEPT ![r] = @ - 1] EXCEPT ![r] = @ + 1]
    BY <1>2, <1>3, <1>7 DEF Takes, Adds
  <2> DEFINE n == st.slotted[m].nodes
             k == [[n EXCEPT ![r] = @ - 1] EXCEPT ![r] = @ + 1]
  <2>2. n \in [Rule -> Nat]
    BY <1>4
  <2> HIDE DEF n
  <2>3. DOMAIN k = Rule /\ DOMAIN n = Rule /\ \A x \in Rule : k[x] = n[x]
    BY <2>2
  <2>4. k = [x \in Rule |-> k[x]] /\ n = [x \in Rule |-> n[x]]
    BY <2>2
  <2>5. k = n
    <3> HIDE DEF k
    <3> QED BY <2>3, <2>4
  <2> QED BY <2>1, <2>5 DEF n
<1>8. ASSUME NEW x \in Rule
      PROVE  StoredIn(new.slotted, x) = StoredIn(st.slotted, x)
  BY <1>2, <1>3 DEF Takes, Adds
<1>9. ASSUME ~new.changed
      PROVE  ~st.changed /\ SameMax(st.slotted, new.slotted)
  BY <1>2, <1>3, <1>4, <1>9 DEF SameMax, Takes, Adds
<1> QED BY <1>3, <1>5, <1>6, <1>7, <1>8, <1>9 DEF Moves, Adds

\* it is the iteration by which SplitTable moves the copies C.
MoveSolves(it, made, m, target, C) ==
  it = [T \in SUBSET C |-> IF T = {} THEN made
                           ELSE MoveOne(it[T \ {Choice(T)}], m, target, Choice(T)[1])]

LEMMA MoveIterates ==
  ASSUME NEW D, NEW made \in States(D), NEW m \in D, NEW target \in D,
         NEW C, IsFiniteSet(C), \A c \in C : c[1] \in Rule
  PROVE  \E it : MoveSolves(it, made, m, target, C)
<1> DEFINE V == States(D)
           o == [T \in SUBSET C |-> [g \in [T -> V] |->
                   IF T = {} THEN made ELSE MoveOne(g[Choice(T)], m, target, Choice(T)[1])]]
<1>1. ASSUME NEW T \in SUBSET C, NEW g \in [T -> V]
      PROVE  o[T][g] \in V
  <2>1. CASE T = {}
    BY <2>1
  <2>2. CASE T # {}
    <3>1. Choice(T) \in T
      BY <2>2, ChoiceIsElement
    <3>2. g[Choice(T)] \in V /\ Choice(T)[1] \in Rule
      BY <3>1
    <3>3. MoveOne(g[Choice(T)], m, target, Choice(T)[1]) \in V
      BY <3>2, DeletionType, InsertionType DEF MoveOne
    <3> QED BY <2>2, <3>3
  <2> QED BY <2>1, <2>2
<1>2. PICK it : Recurses(it, o, C, V)
  <2> HIDE DEF o, V
  <2>1. MapsInto(o, C, V)
    BY <1>1 DEF MapsInto
  <2> QED BY <2>1, RecursionExists
<1>3. ASSUME NEW T \in SUBSET C
      PROVE  it[T] = IF T = {} THEN made ELSE MoveOne(it[T \ {Choice(T)}], m, target, Choice(T)[1])
  <2>1. Below(it, T) \in [T -> V]
    BY <1>2 DEF Below, Recurses
  <2>2. T # {} => Below(it, T)[Choice(T)] = it[T \ {Choice(T)}]
    BY ChoiceIsElement DEF Below
  <2>3. it[T] = o[T][Below(it, T)]
    BY <1>2 DEF Recurses
  <2> HIDE DEF V
  <2> QED BY <2>1, <2>2, <2>3
<1> QED BY <1>2, <1>3 DEF MoveSolves, Recurses

\* One element per copy of the rules R, when there are n[r] of each, and the
\* copies of r that are among the elements T.
CopiesOf(n, R) == UNION {{r} \X (1 .. n[r]) : r \in R}
Among(T, r)    == {k \in Nat : <<r, k>> \in T}

LEMMA CopiesOfFinite ==
  ASSUME NEW n \in [Rule -> Nat], NEW R \in SUBSET Rule
  PROVE  IsFiniteSet(CopiesOf(n, R))
<1> DEFINE f == [r \in R |-> {r} \X (1 .. n[r])]
           S == {{r} \X (1 .. n[r]) : r \in R}
<1>1. IsFiniteSet(R)
  BY RuleAssumption, FS_Subset
<1>2. IsFiniteSet(S)
  <2>1. f \in Surjection(R, S)
    BY DEF Surjection
  <2> HIDE DEF S, f
  <2> QED BY <1>1, <2>1, FS_Surjection
<1>3. ASSUME NEW r \in R
      PROVE  IsFiniteSet({r} \X (1 .. n[r]))
  <2>1. n[r] \in Int /\ 1 \in Int
    OBVIOUS
  <2>2. IsFiniteSet(1 .. n[r])
    BY <2>1, FS_Interval
  <2>3. IsFiniteSet({r})
    BY FS_Singleton
  <2> QED BY <2>2, <2>3, FS_Product
<1>4. \A X \in S : IsFiniteSet(X)
  BY <1>3
<1>5. IsFiniteSet(UNION S)
  <2> HIDE DEF S
  <2> QED BY <1>2, <1>4, FS_UNION
<1> QED BY <1>5 DEF CopiesOf

LEMMA AmongTyped ==
  ASSUME NEW n \in [Rule -> Nat], NEW R \in SUBSET Rule, NEW T \in SUBSET CopiesOf(n, R), NEW r \in Rule
  PROVE  /\ Among(T, r) \in SUBSET (1 .. n[r])
         /\ IsFiniteSet(Among(T, r)) /\ Cardinality(Among(T, r)) \in Nat
         /\ Cardinality(Among(T, r)) <= n[r]
<1>1. Among(T, r) \in SUBSET (1 .. n[r])
  BY DEF Among, CopiesOf
<1>2. IsFiniteSet(1 .. n[r]) /\ Cardinality(1 .. n[r]) = n[r]
  BY FS_Interval
<1> QED BY <1>1, <1>2, FS_Subset, FS_CardinalityType

\* All of them are among the copies, for the rules R, and none for the others.
LEMMA AmongAll ==
  ASSUME NEW n \in [Rule -> Nat], NEW R \in SUBSET Rule, NEW r \in Rule
  PROVE  Cardinality(Among(CopiesOf(n, R), r)) = IF r \in R THEN n[r] ELSE 0
<1>1. CASE r \in R
  <2>1. Among(CopiesOf(n, R), r) = 1 .. n[r]
    BY <1>1 DEF Among, CopiesOf
  <2> QED BY <1>1, <2>1, FS_Interval
<1>2. CASE r \notin R
  <2>1. Among(CopiesOf(n, R), r) = {}
    BY <1>2 DEF Among, CopiesOf
  <2> QED BY <1>2, <2>1, FS_EmptySet
<1> QED BY <1>1, <1>2

LEMMA AmongLess ==
  ASSUME NEW n \in [Rule -> Nat], NEW R \in SUBSET Rule, NEW T \in SUBSET CopiesOf(n, R), NEW c \in T
  PROVE  /\ c[1] \in R
         /\ Cardinality(Among(T, c[1])) = Cardinality(Among(T \ {c}, c[1])) + 1
         /\ \A q \in Rule : q # c[1] => Among(T, q) = Among(T \ {c}, q)
<1>1. PICK r \in R : c \in {r} \X (1 .. n[r])
  BY DEF CopiesOf
<1>2. PICK k \in 1 .. n[r] : c = <<r, k>>
  BY <1>1
<1>3. Among(T \ {c}, r) = Among(T, r) \ {k} /\ k \in Among(T, r)
  BY <1>2 DEF Among
<1>4. \A q \in Rule : q # r => Among(T, q) = Among(T \ {c}, q)
  BY <1>2 DEF Among
<1>5. IsFiniteSet(Among(T, r)) /\ Cardinality(Among(T, r)) \in Nat
  BY AmongTyped
<1>6. Cardinality(Among(T \ {c}, r)) = Cardinality(Among(T, r)) - 1
  <2>1. Cardinality(Among(T, r) \ {k}) = Cardinality(Among(T, r)) - 1
    BY <1>3, <1>5, FS_RemoveElement
  <2> QED BY <1>3, <2>1
<1>7. Cardinality(Among(T, r)) = Cardinality(Among(T \ {c}, r)) + 1
  BY <1>5, <1>6
<1> QED BY <1>2, <1>4, <1>7

\* new is st with the copies T moved from m to the target.
MovesAll(D, st, new, m, target, T) ==
  /\ new \in States(D) /\ AllExact(new.slotted)
  /\ \A x \in D \ {m, target} : new.slotted[x] = st.slotted[x]
  /\ m # target => \A r \in Rule :
       /\ new.slotted[m].nodes[r] + Cardinality(Among(T, r)) = st.slotted[m].nodes[r]
       /\ new.slotted[target].nodes[r]
            = st.slotted[target].nodes[r] + Cardinality(Among(T, r))
  /\ m = target => new.slotted[m].nodes = st.slotted[m].nodes
  /\ \A x \in Rule : StoredIn(new.slotted, x) = StoredIn(st.slotted, x)
  /\ ~new.changed => (~st.changed /\ SameMax(st.slotted, new.slotted))

LEMMA MovesNone ==
  ASSUME NEW D, NEW st \in States(D), NEW m \in D, NEW target \in D, AllExact(st.slotted)
  PROVE  MovesAll(D, st, st, m, target, {})
<1>1. \A r : Cardinality(Among({}, r)) = 0
  <2>1. \A r : Among({}, r) = {}
    BY DEF Among
  <2> QED BY <2>1, FS_EmptySet
<1>2. /\ st.slotted \in [D -> Table]
      /\ \A x \in D, r \in Rule : st.slotted[x].nodes[r] \in Nat
  BY DEF States, Table
<1> QED BY <1>1, <1>2 DEF MovesAll, SameMax

LEMMA MovesOneMore ==
  ASSUME NEW D, IsFiniteSet(D), NEW st \in States(D), NEW m \in D, NEW target \in D,
         NEW R \in SUBSET Rule, NEW T \in SUBSET CopiesOf(st.slotted[m].nodes, R), NEW c \in T,
         NEW mid, MovesAll(D, st, mid, m, target, T \ {c}),
         NEW new, new = MoveOne(mid, m, target, c[1])
  PROVE  MovesAll(D, st, new, m, target, T)
<1> DEFINE n == st.slotted[m].nodes
           r == c[1]
           k(q) == Cardinality(Among(T, q))
           j(q) == Cardinality(Among(T \ {c}, q))
<1>1. n \in [Rule -> Nat] /\ st.slotted \in [D -> Table]
  BY DEF States, Table
<1>2. r \in R /\ r \in Rule /\ k(r) = j(r) + 1 /\ \A q \in Rule : q # r => k(q) = j(q)
  <2>1. n \in [Rule -> Nat] /\ T \in SUBSET CopiesOf(n, R)
    BY <1>1
  <2> HIDE DEF n
  <2>2. /\ r \in R
        /\ Cardinality(Among(T, r)) = Cardinality(Among(T \ {c}, r)) + 1
        /\ \A q \in Rule : q # r => Among(T, q) = Among(T \ {c}, q)
    BY <2>1, AmongLess, Zenon
  <2> QED BY <2>2
<1>3. \A q \in Rule : k(q) \in Nat /\ j(q) \in Nat /\ k(q) <= n[q]
  <2>1. T \ {c} \in SUBSET CopiesOf(n, R)
    OBVIOUS
  <2> HIDE DEF n
  <2> QED BY <1>1, <2>1, AmongTyped DEF n
<1> HIDE DEF k, j, r
<1>4. /\ m # target => mid.slotted[m].nodes[r] + j(r) = n[r]
      /\ m = target => mid.slotted[m].nodes[r] = n[r]
  BY <1>2 DEF MovesAll, j
<1>5. mid.slotted[m].nodes[r] > 0
  <2>1. mid.slotted[m].nodes[r] \in Nat
    BY <1>2 DEF MovesAll, States, Table
  <2> HIDE DEF n
  <2> QED BY <1>1, <1>2, <1>3, <1>4, <2>1
<1>6. mid \in States(D) /\ AllExact(mid.slotted)
  BY DEF MovesAll
<1>7. Moves(D, mid, new, m, target, r)
  BY <1>2, <1>5, <1>6, MoveOneMoves DEF r
<1>8. \A x \in D : mid.slotted[x].nodes \in [Rule -> Nat] /\ st.slotted[x].nodes \in [Rule -> Nat]
  BY <1>1, <1>6 DEF States, Table
<1>9. ASSUME m # target, NEW q \in Rule
      PROVE  /\ new.slotted[m].nodes[q] + k(q) = n[q]
             /\ new.slotted[target].nodes[q] = st.slotted[target].nodes[q] + k(q)
  <2>1. /\ mid.slotted[m].nodes[q] + j(q) = n[q]
        /\ mid.slotted[target].nodes[q] = st.slotted[target].nodes[q] + j(q)
    BY <1>9 DEF MovesAll, j
  <2>2. /\ new.slotted[m].nodes = [mid.slotted[m].nodes EXCEPT ![r] = @ - 1]
        /\ new.slotted[target].nodes = [mid.slotted[target].nodes EXCEPT ![r] = @ + 1]
    BY <1>7, <1>9 DEF Moves
  <2>3. /\ mid.slotted[m].nodes[q] \in Nat /\ mid.slotted[target].nodes[q] \in Nat
        /\ st.slotted[target].nodes[q] \in Nat /\ n[q] \in Nat
    BY <1>1, <1>8
  <2>4. /\ new.slotted[m].nodes[q] = mid.slotted[m].nodes[q] - (IF q = r THEN 1 ELSE 0)
        /\ new.slotted[target].nodes[q] = mid.slotted[target].nodes[q] + (IF q = r THEN 1 ELSE 0)
    BY <1>8, <2>2, <2>3
  <2> HIDE DEF n
  <2> QED BY <1>2, <1>3, <2>1, <2>3, <2>4
<1>10. ASSUME m = target
       PROVE  new.slotted[m].nodes = n
  BY <1>7, <1>10 DEF Moves, MovesAll
<1>11. \A x \in Rule : StoredIn(new.slotted, x) = StoredIn(st.slotted, x)
  BY <1>7 DEF Moves, MovesAll
<1>12. ~new.changed => (~st.changed /\ SameMax(st.slotted, new.slotted))
  <2>1. DOMAIN mid.slotted = D
    BY <1>6 DEF States
  <2> QED BY <1>1, <1>7, <2>1 DEF Moves, MovesAll, SameMax
<1>13. new \in States(D) /\ AllExact(new.slotted)
       /\ \A x \in D \ {m, target} : new.slotted[x] = st.slotted[x]
  BY <1>7 DEF Moves, MovesAll
<1> QED BY <1>9, <1>10, <1>11, <1>12, <1>13 DEF MovesAll, k

\* The iteration moves them all.
LEMMA IterationMoves ==
  ASSUME NEW D, IsFiniteSet(D), NEW st \in States(D), AllExact(st.slotted), NEW m \in D, NEW target \in D,
         NEW R \in SUBSET Rule, NEW C, C = CopiesOf(st.slotted[m].nodes, R),
         NEW it, MoveSolves(it, st, m, target, C)
  PROVE  \A T \in SUBSET C : MovesAll(D, st, it[T], m, target, T)
<1> DEFINE P == {T \in SUBSET C : MovesAll(D, st, it[T], m, target, T)}
<1>1. IsFiniteSet(C)
  <2>1. st.slotted[m].nodes \in [Rule -> Nat]
    BY DEF States, Table
  <2> QED BY <2>1, CopiesOfFinite
<1>2. ASSUME NEW T \in SUBSET C, \A x \in T : T \ {x} \in P
      PROVE  T \in P
  <2>1. it[T] = IF T = {} THEN st ELSE MoveOne(it[T \ {Choice(T)}], m, target, Choice(T)[1])
    BY DEF MoveSolves
  <2>2. CASE T = {}
    BY <2>1, <2>2, MovesNone
  <2>3. CASE T # {}
    <3>1. PICK c \in T : c = Choice(T)
      BY <2>3, ChoiceIsElement
    <3>2. MovesAll(D, st, it[T \ {c}], m, target, T \ {c})
      BY <1>2
    <3>3. it[T] = MoveOne(it[T \ {c}], m, target, c[1])
      BY <2>1, <2>3, <3>1
    <3>4. MovesAll(D, st, it[T], m, target, T)
      BY <3>2, <3>3, MovesOneMore
    <3> QED BY <3>4
  <2> QED BY <2>2, <2>3
<1> HIDE DEF P
<1>3. \A T \in SUBSET C : T \in P
  <2>1. PICK S : S = C
    OBVIOUS
  <2>2. IsFiniteSet(S) /\ \A T \in SUBSET S : (\A x \in T : T \ {x} \in P) => T \in P
    BY <1>1, <1>2, <2>1
  <2>3. \A T \in SUBSET S : T \in P
    BY <2>2, SubsetInduct
  <2> QED BY <2>1, <2>3
<1> QED BY <1>3 DEF P

\* FindOrMake: the tables with one for the target.
WithTarget(st, target) ==
  [st EXCEPT !.slotted = IF target \in DOMAIN @ THEN @ ELSE Made(@, target)]

LEMMA SplitTableIs ==
  ASSUME NEW st, NEW m, NEW target,
         NEW C, C = CopiesOf(st.slotted[m].nodes, Moved(st, m, target)),
         \E it : MoveSolves(it, WithTarget(st, target), m, target, C)
  PROVE  \E it : /\ MoveSolves(it, WithTarget(st, target), m, target, C)
                 /\ SplitTable(st, m, target) = it[C]
<1> DEFINE it == CHOOSE i : MoveSolves(i, WithTarget(st, target), m, target, C)
<1>1. MoveSolves(it, WithTarget(st, target), m, target, C)
  OBVIOUS
<1>2. SplitTable(st, m, target) = it[C]
  BY DEF SplitTable, FoldSet, MapThenFoldSet, MoveSolves, MoveOne, WithTarget, Choice, CopiesOf
<1> QED BY <1>1, <1>2

LEMMA WithTargetIs ==
  ASSUME NEW D, IsFiniteSet(D), NEW st \in States(D), AllExact(st.slotted), NEW target,
         NEW w, w = WithTarget(st, target)
  PROVE  /\ IsFiniteSet(D \cup {target})
         /\ w \in States(D \cup {target}) /\ AllExact(w.slotted) /\ w.changed = st.changed
         /\ \A x \in D : w.slotted[x] = st.slotted[x]
         /\ target \notin D => w.slotted[target] = EmptyTable
         /\ \A x \in Rule : StoredIn(w.slotted, x) = StoredIn(st.slotted, x)
<1>1. st.slotted \in [D -> Table] /\ DOMAIN st.slotted = D
  BY DEF States
<1>2. CASE target \in D
  <2>1. w = st /\ D \cup {target} = D
    BY <1>1, <1>2 DEF WithTarget, States
  <2> QED BY <1>1, <1>2, <2>1
<1>3. CASE target \notin D
  <2> DEFINE f == Made(st.slotted, target)
             E == D \cup {target}
  <2>1. w = [slotted |-> f, changed |-> st.changed] /\ st.changed \in BOOLEAN
    BY <1>1, <1>3 DEF WithTarget, States
  <2>2. /\ f \in [E -> Table] /\ f[target] = EmptyTable
        /\ \A x \in D : f[x] = st.slotted[x]
    BY <1>1, <1>3, EmptyTableExact DEF Made
  <2>3. \A x \in Rule : StoredIn(f, x) = StoredIn(st.slotted, x)
    BY <1>1, <1>3, StoredOfMade
  <2> HIDE DEF f
  <2>4. IsFiniteSet(E)
    BY FS_AddElement
  <2>5. AllExact(f)
    BY <1>1, <2>2, EmptyTableExact DEF AllExact
  <2>6. w.slotted = f /\ w.changed = st.changed /\ w \in States(E)
    BY <2>1, <2>2 DEF States
  <2> QED BY <2>2, <2>3, <2>4, <2>5, <2>6
<1> QED BY <1>2, <1>3

\* new is st with all copies of the rules that the target can take moved there.
Splits(D, st, new, m, target) ==
  /\ new \in States(D \cup {target}) /\ AllExact(new.slotted)
  /\ \A x \in D \ {m, target} : new.slotted[x] = st.slotted[x]
  /\ m # target => \A r \in Rule :
       /\ new.slotted[m].nodes[r] = IF r \in Moved(st, m, target) THEN 0 ELSE st.slotted[m].nodes[r]
       /\ r \in Moved(st, m, target) => new.slotted[target].nodes[r] > 0
       /\ target \in D => st.slotted[target].nodes[r] <= new.slotted[target].nodes[r]
       /\ r \notin Moved(st, m, target) /\ new.slotted[target].nodes[r] > 0
            => target \in D /\ st.slotted[target].nodes[r] > 0
  /\ m = target => new.slotted[m].nodes = st.slotted[m].nodes
  /\ \A x \in Rule : StoredIn(new.slotted, x) = StoredIn(st.slotted, x)
  /\ ~new.changed => (~st.changed /\ target \in D /\ SameMax(st.slotted, new.slotted))

LEMMA SplitTableSplits ==
  ASSUME NEW D, IsFiniteSet(D), NEW st \in States(D), AllExact(st.slotted), NEW m \in D, NEW target,
         Moved(st, m, target) # {}, NEW new, new = SplitTable(st, m, target)
  PROVE  Splits(D, st, new, m, target)
<1> DEFINE E == D \cup {target}
           R == Moved(st, m, target)
           n == st.slotted[m].nodes
           C == CopiesOf(n, R)
           k(r) == Cardinality(Among(C, r))
<1>1. PICK w : w = WithTarget(st, target)
  OBVIOUS
<1>2. /\ IsFiniteSet(E) /\ m \in E /\ target \in E
      /\ w \in States(E) /\ AllExact(w.slotted) /\ w.changed = st.changed
      /\ \A x \in D : w.slotted[x] = st.slotted[x]
      /\ target \notin D => w.slotted[target] = EmptyTable
      /\ \A x \in Rule : StoredIn(w.slotted, x) = StoredIn(st.slotted, x)
  BY <1>1, WithTargetIs
<1>3. /\ R \in SUBSET Rule /\ R \in SUBSET NodesIn(st.slotted[m])
      /\ n \in [Rule -> Nat] /\ w.slotted[m].nodes = n
      /\ DOMAIN st.slotted = D /\ \A r \in R : n[r] > 0
  BY <1>2 DEF Moved, NodesIn, States, Table
<1>4. IsFiniteSet(C) /\ \A c \in C : c[1] \in Rule
  <2>1. \A c \in C : c[1] \in R
    BY DEF CopiesOf
  <2> HIDE DEF n, R
  <2> QED BY <1>3, <2>1, CopiesOfFinite
<1>5. \A r \in Rule : k(r) = IF r \in R THEN n[r] ELSE 0
  <2> HIDE DEF n, R
  <2> QED BY <1>3, AmongAll
<1>6. PICK it : MoveSolves(it, w, m, target, C) /\ new = it[C]
  <2>1. \E it : MoveSolves(it, WithTarget(st, target), m, target, C)
    <3> HIDE DEF C
    <3> QED BY <1>1, <1>2, <1>4, MoveIterates
  <2> QED BY <1>1, <2>1, SplitTableIs
<1>7. MovesAll(E, w, new, m, target, C)
  <2>1. C = CopiesOf(w.slotted[m].nodes, R)
    BY <1>3
  <2> HIDE DEF C, R
  <2>2. \A T \in SUBSET C : MovesAll(E, w, it[T], m, target, T)
    BY <1>2, <1>3, <1>6, <2>1, IterationMoves
  <2> QED BY <1>6, <2>2
<1>8. ASSUME m # target, NEW r \in Rule
      PROVE  /\ new.slotted[m].nodes[r] = IF r \in R THEN 0 ELSE n[r]
             /\ r \in R => new.slotted[target].nodes[r] > 0
             /\ target \in D => st.slotted[target].nodes[r] <= new.slotted[target].nodes[r]
             /\ r \notin R /\ new.slotted[target].nodes[r] > 0
                  => target \in D /\ st.slotted[target].nodes[r] > 0
  <2>1. /\ new.slotted[m].nodes[r] + k(r) = n[r]
        /\ new.slotted[target].nodes[r] = w.slotted[target].nodes[r] + k(r)
    BY <1>3, <1>7, <1>8 DEF MovesAll
  <2>2. /\ new.slotted[m].nodes[r] \in Nat /\ n[r] \in Nat
        /\ w.slotted[target].nodes[r] \in Nat
        /\ target \notin D => w.slotted[target].nodes[r] = 0
    BY <1>2, <1>3, <1>7 DEF MovesAll, States, Table, EmptyTable
  <2>3. k(r) = IF r \in R THEN n[r] ELSE 0
    BY <1>5
  <2>4. target \in D => st.slotted[target].nodes[r] = w.slotted[target].nodes[r]
    BY <1>2
  <2>5. r \in R => n[r] > 0
    BY <1>3
  <2> HIDE DEF n, k, R
  <2> QED BY <2>1, <2>2, <2>3, <2>4, <2>5
<1>9. m = target => new.slotted[m].nodes = n
  BY <1>3, <1>7 DEF MovesAll
<1>10. \A x \in Rule : StoredIn(new.slotted, x) = StoredIn(st.slotted, x)
  BY <1>2, <1>7 DEF MovesAll
<1>11. ASSUME ~new.changed
       PROVE  ~st.changed /\ target \in D /\ SameMax(st.slotted, new.slotted)
  <2>1. ~w.changed /\ SameMax(w.slotted, new.slotted) /\ DOMAIN w.slotted = E
    BY <1>2, <1>7, <1>11 DEF MovesAll, States
  <2>2. target \in D
    <3> SUFFICES ASSUME target \notin D
                 PROVE  FALSE
      OBVIOUS
    <3>1. PICK r \in R : TRUE
      OBVIOUS
    <3>2. r \in Rule /\ new.slotted[target].nodes[r] > 0
      BY <1>3, <1>8
    <3>3. new.slotted[target] \in Table /\ Exact(new.slotted[target])
      BY <1>7 DEF MovesAll, States, AllExact
    <3>4. new.slotted[target].maxPriority # -1
      BY <3>2, <3>3, NodeIsHeld
    <3>5. w.slotted[target].maxPriority = -1
      BY <1>2, EmptyTableExact
    <3> QED BY <1>2, <2>1, <3>4, <3>5 DEF SameMax
  <2> QED BY <1>2, <1>3, <2>1, <2>2 DEF SameMax
<1>12. \A x \in D \ {m, target} : new.slotted[x] = st.slotted[x]
  BY <1>2, <1>7 DEF MovesAll
<1>13. new \in States(E) /\ AllExact(new.slotted)
  BY <1>7 DEF MovesAll
<1> QED BY <1>8, <1>9, <1>10, <1>11, <1>12, <1>13 DEF Splits

-----------------------------------------------------------------------------
(***************************************************************************)
(* Masks: a relaxed mask takes its rule, and the mask a split aims at      *)
(* takes one of the colliding rules at least.                              *)
(***************************************************************************)

Mask == [1 .. 5 -> 0 .. 255]

LEMMA MaskIs ==
  ASSUME NEW t \in Mask
  PROVE  \A d \in 1 .. 5 : t[d] \in 0 .. 255 /\ t[d] \in Int
BY DEF Mask

LEMMA LengthifyIs ==
  ASSUME NEW t \in Mask
  PROVE  /\ Lengthify(t) \in Mask /\ Lengthify(Lengthify(t)) = Lengthify(t)
         /\ \A d \in 1 .. 5 : Lengthify(t)[d] <= t[d]
<1> DEFINE u == Lengthify(t)
<1>1. /\ DOMAIN u = 1 .. 5 /\ u = [d \in 1 .. 5 |-> u[d]]
      /\ \A d \in 1 .. 5 : u[d] = IF t[d] > Unhashed[d] THEN t[d] ELSE 0
  BY DEF Lengthify, Mask
<1>2. \A d \in 1 .. 5 : Unhashed[d] \in Nat
  BY DEF Unhashed
<1>3. \A d \in 1 .. 5 : t[d] \in 0 .. 255
  BY DEF Mask
<1> HIDE DEF u
<1>4. u \in Mask /\ \A d \in 1 .. 5 : u[d] <= t[d]
  BY <1>1, <1>2, <1>3 DEF Mask
<1>5. Lengthify(u) = u
  <2>1. \A d \in 1 .. 5 : u[d] = IF u[d] > Unhashed[d] THEN u[d] ELSE 0
    BY <1>1, <1>2, <1>3
  <2> QED BY <1>1, <2>1 DEF Lengthify
<1> QED BY <1>4, <1>5 DEF u

LEMMA RelaxFits ==
  ASSUME NEW t \in Mask
  PROVE  Relax(t) \in Mask /\ CanInsert(Lengthify(Relax(t)), t)
<1> DEFINE delta == t[1] - t[2]
           u == CASE -delta > 4 -> [t EXCEPT ![1] = 0, ![3] = 16]
                  [] delta > 4  -> [t EXCEPT ![2] = 0, ![4] = 16]
                  [] OTHER      -> t
           v == [u EXCEPT ![1] = Shortened(@), ![2] = Shortened(@)]
<1>1. Relax(t) = v
  BY DEF Relax, FieldSA, FieldDA, FieldSP, FieldDP
<1>2. \A n \in 0 .. 255 : Shortened(n) \in 0 .. 255 /\ Shortened(n) <= n
  BY DEF Shortened
<1>3. \A d \in 1 .. 5 : t[d] \in 0 .. 255
  BY DEF Mask
<1>4. /\ u \in Mask /\ u[5] = t[5]
      /\ u[1] <= t[1] /\ u[2] <= t[2]
      /\ u[3] <= t[3] \/ u[3] = 16
      /\ u[4] <= t[4] \/ u[4] = 16
  <2>1. CASE -delta > 4
    <3>1. u = [t EXCEPT ![1] = 0, ![3] = 16]
      <4>1. t[1] \in Int /\ t[2] \in Int
        BY MaskIs
      <4>2. ~(delta > 4)
        BY <2>1, <4>1
      <4> QED BY <2>1, <4>2
    <3> HIDE DEF u
    <3> QED BY <1>3, <3>1 DEF Mask
  <2>2. CASE ~(-delta > 4) /\ delta > 4
    <3>1. u = [t EXCEPT ![2] = 0, ![4] = 16]
      BY <1>3, <2>2
    <3> HIDE DEF u
    <3> QED BY <1>3, <3>1 DEF Mask
  <2>3. CASE ~(-delta > 4) /\ ~(delta > 4)
    <3>1. u = t
      BY <2>3
    <3> HIDE DEF u
    <3> QED BY <1>3, <3>1 DEF Mask
  <2> QED BY <2>1, <2>2, <2>3
<1> HIDE DEF u
<1>5. \A d \in 1 .. 5 : u[d] \in 0 .. 255
  BY <1>4 DEF Mask
<1>6. /\ v \in Mask /\ v[5] = u[5] /\ v[3] = u[3] /\ v[4] = u[4]
      /\ v[1] = Shortened(u[1]) /\ v[2] = Shortened(u[2])
  <2> DEFINE a == Shortened(u[1])
             b == Shortened(u[2])
  <2>1. a \in 0 .. 255 /\ b \in 0 .. 255
    <3>1. u[1] \in 0 .. 255 /\ u[2] \in 0 .. 255
      BY <1>5
    <3> QED BY <1>2, <3>1
  <2>2. v = [u EXCEPT ![1] = a, ![2] = b]
    BY <1>4 DEF Mask
  <2> HIDE DEF a, b, v
  <2>3. v \in Mask /\ v[5] = u[5] /\ v[3] = u[3] /\ v[4] = u[4] /\ v[1] = a /\ v[2] = b
    BY <1>4, <2>1, <2>2 DEF Mask
  <2> QED BY <2>3 DEF a, b
<1>6a. v[1] <= u[1] /\ v[2] <= u[2]
  BY <1>2, <1>5, <1>6
<1> HIDE DEF v
<1>7. /\ Lengthify(v) \in Mask /\ \A d \in 1 .. 5 : Lengthify(v)[d] <= v[d]
      /\ v[3] = 16 => Lengthify(v)[3] = 0
      /\ v[4] = 16 => Lengthify(v)[4] = 0
  <2>1. DOMAIN v = 1 .. 5
    BY <1>6 DEF Mask
  <2>2. /\ v[3] = 16 => Lengthify(v)[3] = 0
        /\ v[4] = 16 => Lengthify(v)[4] = 0
    BY <2>1 DEF Lengthify, Unhashed
  <2> QED BY <1>6, <2>2, LengthifyIs
<1>8. ASSUME NEW d \in 1 .. 5
      PROVE  Lengthify(v)[d] <= t[d]
  <2> DEFINE l == Lengthify(v)
  <2>1. \A e \in 1 .. 5 : /\ l[e] \in Int /\ v[e] \in Int /\ u[e] \in Int /\ t[e] \in Int
                          /\ l[e] <= v[e]
    BY <1>4, <1>6, <1>7, MaskIs
  <2>2. (v[3] = 16 => l[3] = 0) /\ (v[4] = 16 => l[4] = 0)
    BY <1>7
  <2>0. \A e \in 1 .. 5 : 0 <= t[e]
    BY <1>3
  <2> HIDE DEF l
  <2>3. l[1] <= t[1]
    BY <1>4, <1>6a, <2>1
  <2>4. l[2] <= t[2]
    BY <1>4, <1>6a, <2>1
  <2>5. l[3] <= t[3]
    BY <1>4, <1>6, <2>0, <2>1, <2>2
  <2>6. l[4] <= t[4]
    BY <1>4, <1>6, <2>0, <2>1, <2>2
  <2>7. l[5] <= t[5]
    <3>1. l[5] <= v[5] /\ v[5] = t[5]
      BY <1>4, <1>6, <2>1
    <3> QED BY <3>1
  <2>8. d = 1 \/ d = 2 \/ d = 3 \/ d = 4 \/ d = 5
    OBVIOUS
  <2> HIDE DEF v
  <2> QED BY <2>3, <2>4, <2>5, <2>6, <2>7, <2>8 DEF l
<1> QED BY <1>1, <1>6, <1>7, <1>8 DEF CanInsert, Mask

LEMMA SplitTupleFits ==
  ASSUME NEW R \in SUBSET Rule, R # {}
  PROVE  /\ SplitTuple(R) \in Mask
         /\ \E r \in R : CanInsert(Lengthify(SplitTuple(R)), PreferedTuple(r))
<1> DEFINE L(d) == {PreferedTuple(r)[d] : r \in R}
           compat == [d \in 1 .. 5 |-> Min(L(d))]
           super == [d \in 1 .. 5 |-> Max(L(d))]
           B == {d \in 1 .. 5 : \A e \in 1 .. 5 : super[e] - compat[e] <= super[d] - compat[d]}
           bestD == Min(B)
           u == [compat EXCEPT ![bestD] = (super[bestD] + @) \div 2]
<1>1. SplitTuple(R) = u
  BY DEF SplitTuple
<1>2. ASSUME NEW d \in 1 .. 5
      PROVE  L(d) \in SUBSET (0 .. 255) /\ IsFiniteSet(L(d)) /\ L(d) # {}
  <2>1. L(d) \in SUBSET (0 .. 255) /\ L(d) # {}
    BY PrefixAssumption DEF PreferedTuple
  <2>2. IsFiniteSet(0 .. 255)
    <3>1. 0 \in Int /\ 255 \in Int
      OBVIOUS
    <3> QED BY <3>1, FS_Interval, Zenon
  <2> QED BY <2>1, <2>2, FS_Subset
<1>3. ASSUME NEW d \in 1 .. 5
      PROVE  /\ compat[d] \in L(d) /\ super[d] \in L(d)
             /\ \A x \in L(d) : compat[d] <= x /\ x <= super[d]
  <2>1. L(d) \in SUBSET Nat /\ IsFiniteSet(L(d)) /\ L(d) # {}
    <3>1. L(d) \in SUBSET (0 .. 255) /\ IsFiniteSet(L(d)) /\ L(d) # {}
      BY <1>2
    <3> HIDE DEF L
    <3> QED BY <3>1
  <2>2. Min(L(d)) \in L(d) /\ \A x \in L(d) : Min(L(d)) <= x
    <3> HIDE DEF L
    <3> QED BY <2>1, MinIs
  <2>3. Max(L(d)) \in L(d) /\ \A x \in L(d) : x <= Max(L(d))
    <3> HIDE DEF L
    <3> QED BY <2>1, MaxIs
  <2> QED BY <2>2, <2>3
<1>4. \A d \in 1 .. 5 : /\ compat[d] \in 0 .. 255 /\ super[d] \in 0 .. 255
                        /\ compat[d] <= super[d]
  <2> HIDE DEF L, compat, super
  <2> QED BY <1>2, <1>3
<1>5. compat \in Mask /\ super \in Mask
  <2>1. compat = [d \in 1 .. 5 |-> compat[d]] /\ super = [d \in 1 .. 5 |-> super[d]]
    OBVIOUS
  <2> HIDE DEF compat, super
  <2> QED BY <1>4, <2>1 DEF Mask
<1> HIDE DEF L, compat, super
<1>6. bestD \in 1 .. 5
  <2> DEFINE S == {super[d] - compat[d] : d \in 1 .. 5}
             f == [d \in 1 .. 5 |-> super[d] - compat[d]]
  <2>1. S \in SUBSET Int /\ S # {}
    <3>1. \A d \in 1 .. 5 : super[d] - compat[d] \in Int
      BY <1>5, MaskIs
    <3>2. super[1] - compat[1] \in S
      OBVIOUS
    <3> QED BY <3>1, <3>2
  <2>2. IsFiniteSet(S)
    <3>1. IsFiniteSet(1 .. 5)
      <4>1. 1 \in Int /\ 5 \in Int
        OBVIOUS
      <4> QED BY <4>1, FS_Interval, Zenon
    <3>2. f \in Surjection(1 .. 5, S)
      BY DEF Surjection
    <3> HIDE DEF S, f
    <3> QED BY <3>1, <3>2, FS_Surjection
  <2>3. \E x \in S : \A y \in S : y <= x
    <3> HIDE DEF S
    <3> QED BY <2>1, <2>2, GreatestExists
  <2>4. B # {} /\ B \in SUBSET Nat
    BY <2>3
  <2> HIDE DEF B
  <2>5. Min(B) \in B
    BY <2>4, MinIs
  <2> QED BY <2>5 DEF B
<1> HIDE DEF bestD, B
<1>7. /\ u \in Mask
      /\ \A d \in 1 .. 5 : IF d = bestD THEN u[d] <= super[d] ELSE u[d] = compat[d]
  <2> DEFINE n == (super[bestD] + compat[bestD]) \div 2
  <2>1. n \in 0 .. 255 /\ n <= super[bestD]
    <3>1. /\ compat[bestD] \in 0 .. 255 /\ super[bestD] \in 0 .. 255
          /\ compat[bestD] <= super[bestD]
      BY <1>4, <1>6
    <3>2. \A a, b \in 0 .. 255 : a <= b => (b + a) \div 2 \in 0 .. 255 /\ (b + a) \div 2 <= b
      OBVIOUS
    <3> QED BY <3>1, <3>2
  <2>2. u = [compat EXCEPT ![bestD] = n]
    BY <1>5, <1>6 DEF Mask
  <2> HIDE DEF n, u
  <2> QED BY <1>5, <1>6, <2>1, <2>2 DEF Mask
<1>8. PICK r \in R : PreferedTuple(r)[bestD] = super[bestD]
  BY <1>3, <1>6 DEF L
<1> HIDE DEF u
<1>9. \A d \in 1 .. 5 : u[d] <= PreferedTuple(r)[d]
  <2>1. \A d \in 1 .. 5 : compat[d] <= PreferedTuple(r)[d]
    BY <1>3 DEF L
  <2> QED BY <1>6, <1>7, <1>8, <2>1
<1>10. CanInsert(Lengthify(u), PreferedTuple(r))
  <2>1. /\ Lengthify(u) \in Mask /\ u \in Mask
        /\ \A d \in 1 .. 5 : Lengthify(u)[d] <= u[d]
    BY <1>7, LengthifyIs
  <2>2. r.prefix_length \in Mask
    BY PrefixAssumption DEF Mask
  <2> DEFINE l == Lengthify(u)
             t == PreferedTuple(r)
  <2>3. /\ \A d \in 1 .. 5 : l[d] <= u[d] /\ u[d] <= t[d]
        /\ \A d \in 1 .. 5 : l[d] \in Int /\ u[d] \in Int /\ t[d] \in Int
        /\ DOMAIN l = 1 .. 5
    <3>1. DOMAIN Lengthify(u) = 1 .. 5
      BY <2>1 DEF Mask
    <3> QED BY <1>9, <2>1, <2>2, <3>1, MaskIs DEF PreferedTuple
  <2> HIDE DEF l, t
  <2>4. \A d \in 1 .. 5 : l[d] <= t[d]
    BY <2>3
  <2>5. CanInsert(l, t)
    BY <2>3, <2>4 DEF CanInsert
  <2> QED BY <2>5 DEF l, t
<1> QED BY <1>1, <1>7, <1>10

-----------------------------------------------------------------------------
(***************************************************************************)
(* The list of tables: every result of the sort lists each mask once, by   *)
(* descending greatest priority.                                           *)
(***************************************************************************)

Lesser(st, x, y) == st.slotted[y].maxPriority <= st.slotted[x].maxPriority

Tops(X, st) == {x \in X : \A y \in X : Lesser(st, x, y)}

\* orders is the recursion by which Sorted(S, st) is defined.
SortSolves(orders, S, st) ==
  orders = [X \in SUBSET S |->
              IF X = {} THEN {<< >>}
              ELSE UNION {{<<m>> \o v : v \in orders[X \ {m}]} : m \in Tops(X, st)}]

Descends(v, X, st) ==
  /\ v \in Seq(X) /\ Range(v) = X
  /\ \A i, j \in DOMAIN v : i < j => v[i] # v[j] /\ Lesser(st, v[i], v[j])

LEMMA SortIterates ==
  ASSUME NEW S, IsFiniteSet(S), NEW st
  PROVE  \E orders : SortSolves(orders, S, st)
<1> DEFINE V == SUBSET Seq(S)
           o == [X \in SUBSET S |-> [g \in [X -> V] |->
                   IF X = {} THEN {<< >>}
                   ELSE UNION {{<<m>> \o v : v \in g[m]} : m \in Tops(X, st)}]]
<1>1. ASSUME NEW X \in SUBSET S, NEW g \in [X -> V]
      PROVE  o[X][g] \in V
  <2>1. ASSUME NEW m \in Tops(X, st), NEW v \in g[m]
        PROVE  <<m>> \o v \in Seq(S)
    <3>1. m \in S /\ v \in Seq(S)
      BY DEF Tops
    <3> QED BY <3>1
  <2> DEFINE C == UNION {{<<m>> \o v : v \in g[m]} : m \in Tops(X, st)}
  <2>2. C \in V
    <3>1. ASSUME NEW w \in C
          PROVE  w \in Seq(S)
      <4>1. PICK m \in Tops(X, st) : w \in {<<m>> \o v : v \in g[m]}
        OBVIOUS
      <4> QED BY <2>1, <4>1
    <3> HIDE DEF C
    <3> QED BY <3>1
  <2>3. {<< >>} \in V
    OBVIOUS
  <2>4. o[X][g] = IF X = {} THEN {<< >>} ELSE C
    OBVIOUS
  <2> HIDE DEF C, o, V
  <2> QED BY <2>2, <2>3, <2>4
<1>2. PICK it : Recurses(it, o, S, V)
  <2> HIDE DEF o, V
  <2>1. MapsInto(o, S, V)
    BY <1>1 DEF MapsInto
  <2> QED BY <2>1, RecursionExists
<1>3. ASSUME NEW X \in SUBSET S
      PROVE  it[X] = IF X = {} THEN {<< >>}
                     ELSE UNION {{<<m>> \o v : v \in it[X \ {m}]} : m \in Tops(X, st)}
  <2>1. Below(it, X) \in [X -> V]
    BY <1>2 DEF Below, Recurses
  <2>2. \A m \in Tops(X, st) : Below(it, X)[m] = it[X \ {m}]
    BY DEF Below, Tops
  <2>3. it[X] = o[X][Below(it, X)]
    BY <1>2 DEF Recurses
  <2> DEFINE g == Below(it, X)
  <2>4. o[X][g] = IF X = {} THEN {<< >>}
                  ELSE UNION {{<<m>> \o v : v \in g[m]} : m \in Tops(X, st)}
    <3> HIDE DEF V, g
    <3> QED BY <2>1 DEF g
  <2>5. {{<<m>> \o v : v \in g[m]} : m \in Tops(X, st)}
          = {{<<m>> \o v : v \in it[X \ {m}]} : m \in Tops(X, st)}
    <3> HIDE DEF g, V, o
    <3> QED BY <2>2 DEF g
  <2> HIDE DEF g, V, o
  <2> QED BY <2>3, <2>4, <2>5 DEF g
<1> DEFINE e(X) == IF X = {} THEN {<< >>}
                   ELSE UNION {{<<m>> \o v : v \in it[X \ {m}]} : m \in Tops(X, st)}
<1>4. it = [X \in SUBSET S |-> it[X]]
  BY <1>2 DEF Recurses
<1>5. it = [X \in SUBSET S |-> e(X)]
  <2>1. \A X \in SUBSET S : it[X] = e(X)
    BY <1>3
  <2> HIDE DEF e
  <2> QED BY <1>4, <2>1
<1> QED BY <1>5 DEF SortSolves

LEMMA SortedIs ==
  ASSUME NEW S, IsFiniteSet(S), NEW st
  PROVE  \E orders : SortSolves(orders, S, st) /\ Sorted(S, st) = orders[S]
<1> DEFINE it == CHOOSE i : SortSolves(i, S, st)
<1>1. SortSolves(it, S, st)
  BY SortIterates
<1>2. Sorted(S, st) = it[S]
  BY DEF Sorted, SortSolves, Tops, Lesser
<1> QED BY <1>1, <1>2

\* A greatest mask goes before the others.
LEMMA TopFirst ==
  ASSUME NEW X, NEW st, NEW m \in Tops(X, st), NEW v, Descends(v, X \ {m}, st)
  PROVE  Descends(<<m>> \o v, X, st)
<1> DEFINE w == <<m>> \o v
           n == Len(v)
<1>1. m \in X /\ v \in Seq(X \ {m}) /\ v \in Seq(X)
  BY DEF Tops, Descends
<1>2. /\ w \in Seq(X) /\ n \in Nat /\ DOMAIN v = 1 .. n /\ DOMAIN w = 1 .. n + 1
      /\ w[1] = m /\ \A i \in 2 .. n + 1 : w[i] = v[i - 1]
  BY <1>1
<1> HIDE DEF w, n
<1>3. \A i \in 2 .. n + 1 : i - 1 \in DOMAIN v /\ w[i] \in X \ {m}
  BY <1>1, <1>2
<1>4. Range(w) = X
  <2>1. Range(v) = X \ {m}
    BY DEF Descends
  <2>2. \A x \in X \ {m} : \E i \in 1 .. n : v[i] = x
    BY <1>2, <2>1 DEF Range
  <2>3. \A i \in 1 .. n : i + 1 \in 2 .. n + 1 /\ w[i + 1] = v[i]
    BY <1>2
  <2>4. \A x \in X \ {m} : \E i \in 1 .. n + 1 : w[i] = x
    BY <1>2, <2>2, <2>3
  <2>5. \A x \in X : \E i \in DOMAIN w : w[i] = x
    BY <1>2, <2>4
  <2>6. \A i \in DOMAIN w : w[i] \in X
    BY <1>2
  <2> QED BY <2>5, <2>6 DEF Range
<1>5. ASSUME NEW i \in DOMAIN w, NEW j \in DOMAIN w, i < j
      PROVE  w[i] # w[j] /\ Lesser(st, w[i], w[j])
  <2>1. j \in 2 .. n + 1
    BY <1>2, <1>5
  <2>2. CASE i = 1
    BY <1>2, <1>3, <2>1, <2>2 DEF Tops
  <2>3. CASE i # 1
    <3>1. i \in 2 .. n + 1
      BY <1>2, <2>3
    <3>2. i - 1 \in DOMAIN v /\ j - 1 \in DOMAIN v /\ i - 1 < j - 1
      BY <1>2, <1>3, <1>5, <2>1, <3>1
    <3>3. v[i - 1] # v[j - 1] /\ Lesser(st, v[i - 1], v[j - 1])
      BY <3>2 DEF Descends
    <3> QED BY <1>2, <2>1, <3>1, <3>3
  <2> QED BY <2>2, <2>3
<1> QED BY <1>2, <1>4, <1>5 DEF Descends, w

LEMMA SortedDescends ==
  ASSUME NEW S, IsFiniteSet(S), NEW st, NEW v \in Sorted(S, st)
  PROVE  Descends(v, S, st)
<1>1. PICK it : SortSolves(it, S, st) /\ Sorted(S, st) = it[S]
  BY SortedIs
<1> DEFINE P == {X \in SUBSET S : \A w \in it[X] : Descends(w, X, st)}
<1>2. ASSUME NEW X \in SUBSET S, \A x \in X : X \ {x} \in P
      PROVE  X \in P
  <2>1. it[X] = IF X = {} THEN {<< >>}
                ELSE UNION {{<<m>> \o w : w \in it[X \ {m}]} : m \in Tops(X, st)}
    BY <1>1 DEF SortSolves
  <2>2. CASE X = {}
    <3>1. Descends(<< >>, {}, st)
      BY DEF Descends, Range
    <3> QED BY <2>1, <2>2, <3>1
  <2>3. CASE X # {}
    <3>1. ASSUME NEW u \in it[X]
          PROVE  Descends(u, X, st)
      <4>1. PICK m \in Tops(X, st) : \E w \in it[X \ {m}] : u = <<m>> \o w
        <5>1. u \in UNION {{<<m>> \o w : w \in it[X \ {m}]} : m \in Tops(X, st)}
          BY <2>1, <2>3
        <5>2. PICK m \in Tops(X, st) : u \in {<<m>> \o w : w \in it[X \ {m}]}
          BY <5>1
        <5> QED BY <5>2
      <4>2. PICK w \in it[X \ {m}] : u = <<m>> \o w
        BY <4>1
      <4>3. X \ {m} \in P
        BY <1>2 DEF Tops
      <4>4. Descends(w, X \ {m}, st)
        BY <4>3
      <4>5. Descends(<<m>> \o w, X, st)
        BY <4>4, TopFirst
      <4> QED BY <4>2, <4>5
    <3> QED BY <3>1
  <2> QED BY <2>2, <2>3
<1> HIDE DEF P
<1>3. \A X \in SUBSET S : X \in P
  BY <1>2, SubsetInduct
<1>4. S \in P
  BY <1>3
<1> QED BY <1>1, <1>4 DEF P

LEMMA DescendsSame ==
  ASSUME NEW X, NEW v, NEW st, NEW new, Descends(v, X, st),
         \A x \in X : new.slotted[x].maxPriority = st.slotted[x].maxPriority
  PROVE  Descends(v, X, new)
<1>1. \A i \in DOMAIN v : v[i] \in X
  BY DEF Descends
<1> QED BY <1>1 DEF Descends, Lesser

\* The list without the first m, when it has one m only.
LEMMA RemoveFirstIs ==
  ASSUME NEW X, NEW v \in Seq(X), NEW m \in Range(v),
         \A i, j \in DOMAIN v : i < j => v[i] # v[j]
  PROVE  Range(RemoveFirst(v, m)) = Range(v) \ {m}
<1> DEFINE n == Len(v)
           I == {i \in 1 .. n : v[i] = m}
           k == Min(I)
<1>1. n \in Nat /\ DOMAIN v = 1 .. n
  OBVIOUS
<1>2. I # {} /\ I \in SUBSET Nat
  BY <1>1 DEF Range
<1>3. k \in I
  <2> HIDE DEF I
  <2> QED BY <1>2, MinIs
<1>4. SelectInSeq(v, LAMBDA e : e = m) = k
  BY <1>2 DEF SelectInSeq
<1>5. RemoveFirst(v, m) = RemoveAt(v, k)
  BY <1>2, <1>4 DEF RemoveFirst
<1>6. k \in 1 .. n /\ v[k] = m
  BY <1>3
<1> HIDE DEF k, I, n
<1> DEFINE w == RemoveAt(v, k)
<1>7. /\ DOMAIN w = 1 .. n - 1
      /\ \A i \in 1 .. n - 1 : w[i] = IF i < k THEN v[i] ELSE v[i + 1]
  BY <1>1, <1>6, RemoveAtIs DEF n
<1> HIDE DEF w
<1>8. ASSUME NEW x \in Range(w)
      PROVE  x \in Range(v) \ {m}
  <2>1. PICK i \in 1 .. n - 1 : x = w[i]
    BY <1>7 DEF Range
  <2>2. PICK j \in 1 .. n : x = v[j] /\ j # k
    <3>1. CASE i < k
      BY <1>1, <1>6, <1>7, <2>1, <3>1
    <3>2. CASE ~(i < k)
      <4>1. i + 1 \in 1 .. n /\ i + 1 # k
        BY <1>1, <1>6, <3>2
      <4> QED BY <1>7, <2>1, <3>2, <4>1
    <3> QED BY <3>1, <3>2
  <2>3. j < k \/ k < j
    BY <1>1, <1>6, <2>2
  <2>4. x # m
    BY <1>1, <1>6, <2>2, <2>3
  <2> QED BY <1>1, <2>2, <2>4 DEF Range
<1>9. ASSUME NEW x \in Range(v), x # m
      PROVE  x \in Range(w)
  <2>1. PICK j \in 1 .. n : x = v[j]
    BY <1>1 DEF Range
  <2>2. CASE j < k
    <3>1. j \in 1 .. n - 1
      BY <1>1, <1>6, <2>2
    <3>2. w[j] = x
      BY <1>7, <2>1, <2>2, <3>1
    <3> QED BY <1>7, <3>1, <3>2 DEF Range
  <2>3. CASE ~(j < k)
    <3>1. j # k
      BY <1>6, <1>9, <2>1
    <3>2. j - 1 \in 1 .. n - 1 /\ ~(j - 1 < k) /\ (j - 1) + 1 = j
      BY <1>1, <1>6, <2>3, <3>1
    <3>3. w[j - 1] = x
      BY <1>7, <2>1, <3>2
    <3> QED BY <1>7, <3>2, <3>3 DEF Range
  <2> QED BY <2>2, <2>3
<1> QED BY <1>5, <1>8, <1>9 DEF w

-----------------------------------------------------------------------------
(***************************************************************************)
(* The lookup: it answers no less than the search of any listed table, and *)
(* nothing that no table answers.                                          *)
(***************************************************************************)

Better(prior, m, p) ==
  IF slotted[m].maxPriority > prior THEN Highest({prior, Search(m, p)}) ELSE prior

\* it is the iteration by which Lookup(p) is defined.
LookSolves(it, list, p) ==
  it = [T \in SUBSET DOMAIN list |->
          IF T = {} THEN -1 ELSE Better(it[T \ {Max(T)}], list[Max(T)], p)]

SearchBounded == \A m \in DOMAIN slotted : \A p :
  /\ Search(m, p) \in Int /\ slotted[m].maxPriority \in Int
  /\ Search(m, p) \in Priority \cup {-1}
  /\ Search(m, p) <= slotted[m].maxPriority

LEMMA SearchIsBounded ==
  ASSUME AllExact(slotted), slotted \in [DOMAIN slotted -> Table]
  PROVE  SearchBounded
<1> SUFFICES ASSUME NEW m \in DOMAIN slotted, NEW p
             PROVE  /\ Search(m, p) \in Int /\ slotted[m].maxPriority \in Int
                    /\ Search(m, p) \in Priority \cup {-1}
                    /\ Search(m, p) <= slotted[m].maxPriority
  BY DEF SearchBounded
<1>1. slotted[m] \in Table /\ Exact(slotted[m])
  BY DEF AllExact
<1>2. slotted[m].maxPriority \in Int /\ -1 <= slotted[m].maxPriority
  BY <1>1, PriorityFinite DEF Table
<1> DEFINE C == Chain(m, HashPacket(m, p))
<1>3. C \in SUBSET Rule /\ \A r \in C : slotted[m].nodes[r] > 0
  BY DEF Chain, NodesIn
<1> HIDE DEF C
<1>4. /\ LinearScanPriority(C, p) \in Priority \cup {-1}
      /\ LinearScanPriority(C, p) \in Int
      /\ LinearScanPriority(C, p) # -1 =>
           \E r \in C : MatchesPacket(r, p) /\ r.priority = LinearScanPriority(C, p)
  BY <1>3, ScanIsGreatest
<1>5. LinearScanPriority(C, p) <= slotted[m].maxPriority
  <2>1. CASE LinearScanPriority(C, p) = -1
    BY <1>2, <2>1
  <2>2. CASE LinearScanPriority(C, p) # -1
    <3>1. PICK r \in C : r.priority = LinearScanPriority(C, p)
      BY <1>4, <2>2
    <3>2. r.priority <= slotted[m].maxPriority
      BY <1>1, <1>3, NodeIsHeld
    <3> QED BY <3>1, <3>2
  <2> QED BY <2>1, <2>2
<1> QED BY <1>2, <1>4, <1>5 DEF Search, C

LEMMA BetterIs ==
  ASSUME SearchBounded, NEW m \in DOMAIN slotted, NEW p, NEW prior \in Priority \cup {-1}
  PROVE  /\ Better(prior, m, p) \in Priority \cup {-1}
         /\ Better(prior, m, p) \in {prior, Search(m, p)}
         /\ prior <= Better(prior, m, p) /\ Search(m, p) <= Better(prior, m, p)
<1> DEFINE s == Search(m, p)
           S == {prior, s}
<1>1. /\ s \in Int /\ slotted[m].maxPriority \in Int /\ s \in Priority \cup {-1}
      /\ s <= slotted[m].maxPriority
  BY DEF SearchBounded
<1>2. prior \in Int /\ -1 <= prior /\ -1 <= s
  BY <1>1, PriorityFinite
<1> HIDE DEF s
<1>3. S \in SUBSET Int /\ IsFiniteSet(S)
  <2>1. IsFiniteSet({prior} \cup {s})
    BY FS_Singleton, FS_AddElement
  <2>2. {prior} \cup {s} = S
    OBVIOUS
  <2> QED BY <1>1, <1>2, <2>1, <2>2
<1> DEFINE h == Highest(S)
<1>4. h \in S \cup {-1} /\ \A y \in S \cup {-1} : y <= h
  <2> HIDE DEF S
  <2> QED BY <1>3, HighestIsGreatest
<1>5. h \in Int /\ prior <= h /\ s <= h
  BY <1>1, <1>2, <1>4
<1>6. h \in S
  <2> HIDE DEF h
  <2> QED BY <1>1, <1>2, <1>4, <1>5
<1> HIDE DEF h
<1>7. CASE slotted[m].maxPriority > prior
  <2>1. Better(prior, m, p) = h
    BY <1>7 DEF Better, h, s
  <2> QED BY <1>1, <1>5, <1>6, <2>1 DEF s
<1>8. CASE ~(slotted[m].maxPriority > prior)
  <2>1. Better(prior, m, p) = prior
    BY <1>8 DEF Better
  <2>2. s <= prior
    BY <1>1, <1>2, <1>8
  <2> QED BY <1>2, <2>1, <2>2 DEF s
<1> QED BY <1>7, <1>8

\* What a lookup has found when it has been through the places T.
Found(it, list, p, T) ==
  /\ it[T] \in Priority \cup {-1}
  /\ \A i \in T : Search(list[i], p) <= it[T]
  /\ it[T] # -1 => \E i \in T : it[T] = Search(list[i], p)

LEMMA LookIterates ==
  ASSUME SearchBounded, tables \in Seq(DOMAIN slotted), NEW p
  PROVE  \E it : LookSolves(it, tables, p)
<1> DEFINE S == DOMAIN tables
           V == Priority \cup {-1}
           o == [T \in SUBSET S |-> [g \in [T -> V] |->
                   IF T = {} THEN -1 ELSE Better(g[Max(T)], tables[Max(T)], p)]]
<1>1. IsFiniteSet(S) /\ S \in SUBSET Nat /\ \A i \in S : tables[i] \in DOMAIN slotted
  <2>1. Len(tables) \in Int /\ 1 \in Int /\ S = 1 .. Len(tables)
    OBVIOUS
  <2>2. IsFiniteSet(1 .. Len(tables))
    BY <2>1, FS_Interval
  <2> QED BY <2>1, <2>2
<1>2. ASSUME NEW T \in SUBSET S, T # {}
      PROVE  Max(T) \in T
  BY <1>1, <1>2, FS_Subset, MaxIs
<1> HIDE DEF S
<1>3. ASSUME NEW T \in SUBSET S, NEW g \in [T -> V]
      PROVE  o[T][g] \in V
  <2>1. CASE T = {}
    BY <2>1
  <2>2. CASE T # {}
    <3>1. PICK i \in T : i = Max(T)
      BY <1>2, <2>2
    <3>2. g[i] \in V /\ tables[i] \in DOMAIN slotted
      BY <1>1
    <3>3. Better(g[i], tables[i], p) \in V
      BY <3>2, BetterIs
    <3> QED BY <2>2, <3>1, <3>3
  <2> QED BY <2>1, <2>2
<1>4. PICK it : Recurses(it, o, S, V)
  <2> HIDE DEF o, V
  <2>1. MapsInto(o, S, V)
    BY <1>3 DEF MapsInto
  <2> QED BY <1>1, <2>1, RecursionExists
<1>5. ASSUME NEW T \in SUBSET S
      PROVE  it[T] = IF T = {} THEN -1 ELSE Better(it[T \ {Max(T)}], tables[Max(T)], p)
  <2>1. Below(it, T) \in [T -> V]
    BY <1>4 DEF Below, Recurses
  <2>2. T # {} => Below(it, T)[Max(T)] = it[T \ {Max(T)}]
    BY <1>2 DEF Below
  <2>3. it[T] = o[T][Below(it, T)]
    BY <1>4 DEF Recurses
  <2> HIDE DEF V
  <2> QED BY <2>1, <2>2, <2>3
<1> QED BY <1>4, <1>5 DEF LookSolves, Recurses, S

LEMMA LookFinds ==
  ASSUME SearchBounded, tables \in Seq(DOMAIN slotted), NEW p, NEW it, LookSolves(it, tables, p)
  PROVE  \A T \in SUBSET DOMAIN tables : Found(it, tables, p, T)
<1> DEFINE S == DOMAIN tables
           P == {T \in SUBSET S : Found(it, tables, p, T)}
<1>1. IsFiniteSet(S) /\ S \in SUBSET Nat /\ \A i \in S : tables[i] \in DOMAIN slotted
  <2>1. Len(tables) \in Int /\ 1 \in Int /\ S = 1 .. Len(tables)
    OBVIOUS
  <2>2. IsFiniteSet(1 .. Len(tables))
    BY <2>1, FS_Interval
  <2> QED BY <2>1, <2>2
<1>2. ASSUME NEW T \in SUBSET S, \A i \in T : T \ {i} \in P
      PROVE  T \in P
  <2>1. it[T] = IF T = {} THEN -1 ELSE Better(it[T \ {Max(T)}], tables[Max(T)], p)
    BY DEF LookSolves
  <2>2. CASE T = {}
    BY <2>1, <2>2 DEF Found
  <2>3. CASE T # {}
    <3>1. PICK k \in T : k = Max(T)
      BY <1>1, <2>3, FS_Subset, MaxIs
    <3>2. Found(it, tables, p, T \ {k}) /\ tables[k] \in DOMAIN slotted
      BY <1>1, <1>2
    <3>3. it[T] = Better(it[T \ {k}], tables[k], p)
      BY <2>1, <2>3, <3>1
    <3> DEFINE a == it[T \ {k}]
               b == it[T]
               s == Search(tables[k], p)
    <3>4. /\ a \in Priority \cup {-1} /\ b \in Priority \cup {-1}
          /\ b \in {a, s} /\ a <= b /\ s <= b
      <4>1. a \in Priority \cup {-1}
        BY <3>2 DEF Found
      <4> HIDE DEF a, b, s
      <4>2. b = Better(a, tables[k], p)
        BY <3>3 DEF a, b
      <4> QED BY <3>2, <4>1, <4>2, BetterIs DEF s
    <3>5. /\ \A i \in T \ {k} : Search(tables[i], p) <= a /\ Search(tables[i], p) \in Int
          /\ a # -1 => \E i \in T \ {k} : a = Search(tables[i], p)
      BY <1>1, <3>2 DEF Found, SearchBounded
    <3> HIDE DEF a, b, s
    <3>6. a \in Int /\ b \in Int
      BY <3>4, PriorityFinite
    <3>7. \A i \in T : Search(tables[i], p) <= b
      <4> SUFFICES ASSUME NEW i \in T
                   PROVE  Search(tables[i], p) <= b
        OBVIOUS
      <4>1. CASE i = k
        BY <3>4, <4>1 DEF s
      <4>2. CASE i # k
        BY <3>4, <3>5, <3>6, <4>2
      <4> QED BY <4>1, <4>2
    <3>8. b # -1 => \E i \in T : b = Search(tables[i], p)
      BY <3>4, <3>5 DEF s
    <3> QED BY <3>4, <3>7, <3>8 DEF Found, b
  <2> QED BY <2>2, <2>3
<1> HIDE DEF P
<1>3. \A T \in SUBSET S : T \in P
  BY <1>1, <1>2, SubsetInduct
<1> QED BY <1>3 DEF P

LEMMA LookupIs ==
  ASSUME SearchBounded, tables \in Seq(DOMAIN slotted), NEW p
  PROVE  /\ Lookup(p) \in Priority \cup {-1}
         /\ \A m \in Range(tables) : Search(m, p) <= Lookup(p)
         /\ Lookup(p) # -1 => \E m \in Range(tables) : Lookup(p) = Search(m, p)
<1> DEFINE it == CHOOSE i : LookSolves(i, tables, p)
           S == DOMAIN tables
<1>1. LookSolves(it, tables, p)
  BY LookIterates
<1>2. Lookup(p) = it[S]
  BY DEF Lookup, FoldLeft, MapThenFoldSet, LookSolves, Better
<1> HIDE DEF it
<1>3. Found(it, tables, p, S)
  BY <1>1, LookFinds
<1> QED BY <1>2, <1>3 DEF Found, Range

-----------------------------------------------------------------------------
(***************************************************************************)
(* The inductive invariant: TypeOK and TablesInv in four parts, each about *)
(* values rather than variables so that a step can be followed through the *)
(* states between its calls.                                               *)
(***************************************************************************)

\* The tables f: finitely many, exact, and with no rule shorter than a mask.
Fine(f) ==
  /\ DOMAIN f \in SUBSET Mask /\ IsFiniteSet(DOMAIN f)
  /\ f \in [DOMAIN f -> Table] /\ AllExact(f)
  /\ \A m \in DOMAIN f : /\ Lengthify(m) = m
                         /\ \A r \in NodesIn(f[m]) : CanInsert(m, PreferedTuple(r))

\* list is the list of the tables f.
Listed(list, f) == Descends(list, DOMAIN f, [slotted |-> f])

\* The assignments a name a table of f that holds the rule.
Placed(a, f) ==
  /\ DOMAIN a \in SUBSET Rule
  /\ \A r \in DOMAIN a : a[r] \in DOMAIN f /\ f[a[r]].nodes[r] > 0

\* The tables f hold what the client has inserted.
Counted(l, a, f) ==
  /\ l \in [Rule -> 0 .. MaxCopies]
  /\ \A r \in Rule : /\ StoredIn(f, r) \in Nat
                     /\ l[r] <= StoredIn(f, r) /\ StoredIn(f, r) <= MaxCopies
  /\ MaxCopies = 1 => /\ DOMAIN a = {r \in Rule : l[r] > 0}
                      /\ \A r \in Rule : StoredIn(f, r) = l[r]

Inv ==
  /\ Fine(slotted) /\ Listed(tables, slotted)
  /\ Placed(assignments, slotted) /\ Counted(live, assignments, slotted)
  /\ ret \in {Void} \cup (Packet \X (Priority \cup {-1}))

LEMMA InvTyped == Inv => TypeOK
<1> SUFFICES ASSUME Inv
             PROVE  TypeOK
  OBVIOUS
<1> DEFINE D == DOMAIN slotted
<1>1. D \in SUBSET Mask /\ IsFiniteSet(D) /\ slotted \in [D -> Table]
  BY DEF Inv, Fine
<1>2. slotted \in [D -> [nodes : [Rule -> 0 .. MaxCopies], container : [Priority -> Nat],
                         maxPriority : Priority \cup {-1}]]
  <2>1. ASSUME NEW m \in D
        PROVE  slotted[m] \in [nodes : [Rule -> 0 .. MaxCopies], container : [Priority -> Nat],
                               maxPriority : Priority \cup {-1}]
    <3>1. slotted[m] \in Table
      BY <1>1
    <3>2. ASSUME NEW r \in Rule
          PROVE  slotted[m].nodes[r] \in 0 .. MaxCopies
      <4>1. /\ slotted[m].nodes[r] \in Nat /\ slotted[m].nodes[r] <= StoredIn(slotted, r)
            /\ StoredIn(slotted, r) \in Nat
        BY <1>1, StoredBounds
      <4>2. StoredIn(slotted, r) <= MaxCopies /\ MaxCopies \in Nat
        BY TupleMergeAssumption DEF Inv, Counted
      <4> QED BY <4>1, <4>2
    <3> QED BY <3>1, <3>2 DEF Table
  <2> QED BY <1>1, <2>1
<1>3. tables \in Seq(D)
  BY DEF Inv, Listed, Descends
<1>4. DOMAIN assignments \subseteq Rule /\ Range(assignments) \subseteq D
  BY DEF Inv, Placed, Range
<1>5. live \in [Rule -> 0 .. MaxCopies] /\ ret \in {Void} \cup (Packet \X (Priority \cup {-1}))
  BY DEF Inv, Counted
<1> QED BY <1>1, <1>2, <1>3, <1>4, <1>5 DEF TypeOK, Mask

LEMMA InvTables == Inv => TablesInv
<1> SUFFICES ASSUME Inv
             PROVE  TablesInv
  OBVIOUS
<1>1. NodesFit
  BY DEF Inv, Fine, NodesFit
<1>2. PrioritiesExact
  BY DEF Inv, Fine, AllExact, Exact, Peers, PrioritiesExact
<1>3. TablesSorted
  BY DEF Inv, Listed, Descends, Lesser, TablesSorted
<1>4. AssignmentsExact
  BY StoredIsSum DEF Inv, Placed, Counted, AssignmentsExact, LiveRules
<1> QED BY <1>1, <1>2, <1>3, <1>4 DEF TablesInv

-----------------------------------------------------------------------------
(***************************************************************************)
(* What an insertion and a split preserve.                                 *)
(***************************************************************************)

Base(f) == [slotted |-> f, changed |-> FALSE]

LEMMA BaseIs ==
  ASSUME NEW f, Fine(f)
  PROVE  Base(f) \in States(DOMAIN f) /\ Base(f).slotted = f /\ ~Base(f).changed
BY DEF Base, States, Fine

LEMMA AddsFine ==
  ASSUME NEW f, Fine(f), NEW m \in DOMAIN f, NEW r \in Rule, CanInsert(m, PreferedTuple(r)),
         NEW st, Adds(DOMAIN f, Base(f), st, m, r)
  PROVE  Fine(st.slotted) /\ DOMAIN st.slotted = DOMAIN f
<1> DEFINE g == st.slotted
           D == DOMAIN f
<1>1. g \in [D -> Table] /\ AllExact(g) /\ DOMAIN g = D
  BY DEF Adds, States
<1>2. /\ \A x \in D \ {m} : g[x] = f[x]
      /\ g[m].nodes = [f[m].nodes EXCEPT ![r] = @ + 1]
  BY BaseIs DEF Adds
<1>3. f[m].nodes \in [Rule -> Nat]
  BY DEF Fine, Table
<1>4. ASSUME NEW x \in D, NEW s \in NodesIn(g[x])
      PROVE  CanInsert(x, PreferedTuple(s))
  <2>1. CASE x # m
    BY <1>2, <2>1 DEF Fine
  <2>2. CASE x = m /\ s = r
    BY <2>2
  <2>3. CASE x = m /\ s # r
    <3>1. s \in NodesIn(f[m])
      BY <1>2, <1>3, <2>3 DEF NodesIn
    <3> QED BY <2>3, <3>1 DEF Fine
  <2> QED BY <2>1, <2>2, <2>3
<1> HIDE DEF g
<1>5. Fine(g)
  BY <1>1, <1>4 DEF Fine
<1> QED BY <1>1, <1>5 DEF g

LEMMA AddsPlaced ==
  ASSUME NEW f, Fine(f), NEW m \in DOMAIN f, NEW r \in Rule,
         NEW st, Adds(DOMAIN f, Base(f), st, m, r), NEW a, Placed(a, f)
  PROVE  Placed(Assigned(a, {r}, m), st.slotted)
<1> DEFINE g == st.slotted
           b == Assigned(a, {r}, m)
<1>1. /\ DOMAIN g = DOMAIN f /\ \A x \in DOMAIN f \ {m} : g[x] = f[x]
      /\ g[m].nodes = [f[m].nodes EXCEPT ![r] = @ + 1]
      /\ f[m].nodes \in [Rule -> Nat]
  BY BaseIs DEF Adds, States, Fine, Table
<1>2. /\ DOMAIN b = DOMAIN a \cup {r} /\ b[r] = m
      /\ \A x \in DOMAIN a : x # r => b[x] = a[x]
  BY DEF Assigned
<1> HIDE DEF b, g
<1>3. g[m].nodes[r] > 0
  BY <1>1
<1>4. ASSUME NEW x \in DOMAIN a, x # r
      PROVE  a[x] \in DOMAIN g /\ g[a[x]].nodes[x] > 0
  <2>1. x \in Rule /\ a[x] \in DOMAIN f /\ f[a[x]].nodes[x] > 0
    BY DEF Placed
  <2>2. CASE a[x] = m
    BY <1>1, <1>4, <2>1, <2>2
  <2>3. CASE a[x] # m
    BY <1>1, <2>1, <2>3
  <2> QED BY <2>2, <2>3
<1>5. Placed(b, g)
  BY <1>1, <1>2, <1>3, <1>4 DEF Placed
<1> QED BY <1>5 DEF b, g

LEMMA SplitsFine ==
  ASSUME NEW st, Fine(st.slotted), NEW m \in DOMAIN st.slotted, NEW target \in Mask,
         Lengthify(target) = target, NEW new, Splits(DOMAIN st.slotted, st, new, m, target)
  PROVE  Fine(new.slotted) /\ DOMAIN new.slotted = DOMAIN st.slotted \cup {target}
<1> DEFINE f == st.slotted
           g == new.slotted
           D == DOMAIN f
           E == D \cup {target}
           R == Moved(st, m, target)
<1>1. g \in [E -> Table] /\ AllExact(g) /\ DOMAIN g = E
  BY DEF Splits, States
<1>2. E \in SUBSET Mask /\ IsFiniteSet(E) /\ \A x \in E : Lengthify(x) = x
  BY FS_AddElement DEF Fine
<1>3. \A x \in D \ {m, target} : g[x] = f[x]
  BY DEF Splits
<1>4. \A x \in E, s \in Rule : g[x].nodes[s] \in Nat /\ (x \in D => f[x].nodes[s] \in Nat)
  BY <1>1 DEF Fine, Table
<1>5. \A s \in R : CanInsert(target, PreferedTuple(s))
  BY DEF Moved
<1> HIDE DEF f, g, D, E, R
<1>6. ASSUME NEW x \in E, NEW s \in NodesIn(g[x])
      PROVE  CanInsert(x, PreferedTuple(s))
  <2>0. s \in Rule /\ g[x].nodes[s] > 0
    BY DEF NodesIn
  <2>1. \/ x \in D /\ f[x].nodes[s] > 0
        \/ x = target /\ s \in R
    <3>1. CASE x \notin {m, target}
      BY <1>3, <2>0, <3>1 DEF E
    <3>2. CASE x = m /\ m = target
      BY <2>0, <3>2 DEF Splits, f, g, D
    <3>3. CASE x = m /\ m # target
      <4>1. g[m].nodes[s] = IF s \in R THEN 0 ELSE f[m].nodes[s]
        BY <2>0, <3>3 DEF Splits, f, g, R
      <4> QED BY <2>0, <3>3, <4>1 DEF f, D
    <3>4. CASE x = target /\ m # target
      <4>1. s \notin R /\ g[target].nodes[s] > 0 => target \in D /\ f[target].nodes[s] > 0
        BY <2>0, <3>4 DEF Splits, f, g, R, D
      <4> QED BY <2>0, <3>4, <4>1
    <3> QED BY <3>1, <3>2, <3>3, <3>4
  <2>2. CASE x \in D /\ f[x].nodes[s] > 0
    <3>1. s \in NodesIn(f[x])
      BY <2>0, <2>2 DEF NodesIn
    <3> QED BY <2>2, <3>1 DEF Fine, f, D
  <2>3. CASE x = target /\ s \in R
    BY <1>5, <2>3
  <2> QED BY <2>1, <2>2, <2>3
<1>7. Fine(g)
  BY <1>1, <1>2, <1>6 DEF Fine
<1> QED BY <1>1, <1>7 DEF g, E, D, f

LEMMA SplitsPlaced ==
  ASSUME NEW st, Fine(st.slotted), NEW m \in DOMAIN st.slotted, NEW target,
         NEW new, Splits(DOMAIN st.slotted, st, new, m, target), NEW a, Placed(a, st.slotted)
  PROVE  Placed(Assigned(a, Moved(st, m, target), target), new.slotted)
<1> DEFINE f == st.slotted
           g == new.slotted
           R == Moved(st, m, target)
           b == Assigned(a, R, target)
<1>1. /\ DOMAIN g = DOMAIN f \cup {target} /\ R \in SUBSET Rule
      /\ \A s \in R : f[m].nodes[s] > 0
      /\ \A x \in DOMAIN f \ {m, target} : g[x] = f[x]
      /\ m # target => \A r \in Rule :
           /\ g[m].nodes[r] = IF r \in R THEN 0 ELSE f[m].nodes[r]
           /\ r \in R => g[target].nodes[r] > 0
           /\ target \in DOMAIN f => f[target].nodes[r] <= g[target].nodes[r]
      /\ m = target => g[m].nodes = f[m].nodes
  BY DEF Splits, States, Moved, NodesIn
<1>2. /\ DOMAIN b = DOMAIN a \cup R /\ \A s \in R : b[s] = target
      /\ \A x \in DOMAIN a : x \notin R => b[x] = a[x]
  BY DEF Assigned
<1>3. g \in [DOMAIN g -> Table] /\ f \in [DOMAIN f -> Table]
  BY <1>1 DEF Splits, States, Fine
<1>4. /\ \A x \in DOMAIN g, r \in Rule : g[x].nodes[r] \in Nat
      /\ \A x \in DOMAIN f, r \in Rule : f[x].nodes[r] \in Nat
  BY <1>3 DEF Table
<1> HIDE DEF b, g, R, f
<1>5. ASSUME NEW s \in R
      PROVE  g[target].nodes[s] > 0
  BY <1>1
<1>6. ASSUME NEW x \in DOMAIN a, x \notin R
      PROVE  a[x] \in DOMAIN g /\ g[a[x]].nodes[x] > 0
  <2>1. x \in Rule /\ a[x] \in DOMAIN f /\ f[a[x]].nodes[x] > 0
    BY DEF Placed, f
  <2>2. CASE a[x] \notin {m, target}
    BY <1>1, <2>1, <2>2
  <2>3. CASE a[x] = m
    BY <1>1, <1>6, <2>1, <2>3
  <2>4. CASE a[x] = target /\ m # target
    <3>1. f[target].nodes[x] <= g[target].nodes[x]
      BY <1>1, <2>1, <2>4
    <3>2. f[target].nodes[x] \in Nat /\ g[target].nodes[x] \in Nat
      BY <1>1, <1>4, <2>1, <2>4
    <3> QED BY <1>1, <2>1, <2>4, <3>1, <3>2
  <2> QED BY <2>2, <2>3, <2>4
<1>7. Placed(b, g)
  <2>1. DOMAIN b \in SUBSET Rule
    BY <1>1, <1>2 DEF Placed
  <2>2. \A x \in DOMAIN b : b[x] \in DOMAIN g /\ g[b[x]].nodes[x] > 0
    BY <1>1, <1>2, <1>5, <1>6
  <2> QED BY <2>1, <2>2 DEF Placed
<1> QED BY <1>7 DEF b, g, R

LEMMA Resorted ==
  ASSUME NEW E, IsFiniteSet(E), NEW st, DOMAIN st.slotted = E, NEW list, Range(list) = E,
         ~st.changed => Descends(list, E, st), ResortIf(st.changed, list, st)
  PROVE  Listed(tables', st.slotted)
<1>1. Descends(tables', E, st)
  <2>1. CASE st.changed /\ tables' \in Sorted(Range(list), st)
    BY <2>1, SortedDescends
  <2>2. CASE ~st.changed /\ tables' = list
    BY <2>2
  <2> QED BY <2>1, <2>2 DEF ResortIf
<1>2. Descends(tables', E, [slotted |-> st.slotted])
  BY <1>1, DescendsSame
<1> QED BY <1>2 DEF Listed

LEMMA AppendRange ==
  ASSUME NEW X, NEW v \in Seq(X), NEW m
  PROVE  Range(Append(v, m)) = Range(v) \cup {m}
<1> DEFINE w == Append(v, m)
           n == Len(v)
<1>1. /\ n \in Nat /\ DOMAIN v = 1 .. n /\ DOMAIN w = 1 .. n + 1
      /\ w[n + 1] = m /\ \A i \in 1 .. n : w[i] = v[i]
  <2>1. v \in Seq(X \cup {m}) /\ m \in X \cup {m}
    OBVIOUS
  <2> QED BY <2>1
<1> HIDE DEF w, n
<1>2. ASSUME NEW x \in Range(w)
      PROVE  x \in Range(v) \cup {m}
  <2>1. PICK i \in 1 .. n + 1 : x = w[i]
    BY <1>1 DEF Range
  <2>2. CASE i = n + 1
    BY <1>1, <2>1, <2>2
  <2>3. CASE i # n + 1
    <3>1. i \in 1 .. n
      BY <1>1, <2>3
    <3> QED BY <1>1, <2>1, <3>1 DEF Range
  <2> QED BY <2>2, <2>3
<1>3. ASSUME NEW x \in Range(v)
      PROVE  x \in Range(w)
  <2>1. PICK i \in 1 .. n : x = v[i]
    BY <1>1 DEF Range
  <2>2. i \in 1 .. n + 1
    BY <1>1
  <2> QED BY <1>1, <2>1, <2>2 DEF Range
<1>4. m \in Range(w)
  <2>1. n + 1 \in 1 .. n + 1
    BY <1>1
  <2> QED BY <1>1, <2>1 DEF Range
<1> QED BY <1>2, <1>3, <1>4 DEF w

\* The tables g with the assignments b are f with a, and one more copy of r.
Inserts(f, a, g, b, r) ==
  /\ Fine(g) /\ Placed(b, g)
  /\ \A x \in Rule : StoredIn(g, x) = StoredIn(f, x) + (IF x = r THEN 1 ELSE 0)
  /\ DOMAIN a \cup {r} \in SUBSET DOMAIN b
  /\ \A x \in DOMAIN b : x \in DOMAIN a \cup {r} \/ StoredIn(f, x) > 0

\* k is l with the count of r changed by n.
Counts(l, k, r, n) == k = [l EXCEPT ![r] = @ + n]

LEMMA InsertsCounted ==
  ASSUME NEW f, NEW a, NEW g, NEW b, NEW l, NEW r \in Rule, NEW k, Counts(l, k, r, 1),
         Inserts(f, a, g, b, r), Counted(l, a, f), l[r] < MaxCopies, StoredIn(f, r) < MaxCopies
  PROVE  Counted(k, b, g)
<1>1. /\ MaxCopies \in Int /\ l \in [Rule -> 0 .. MaxCopies]
      /\ \A x \in Rule : /\ StoredIn(f, x) \in Nat /\ l[x] \in Int /\ 0 <= l[x]
                         /\ l[x] <= StoredIn(f, x) /\ StoredIn(f, x) <= MaxCopies
                         /\ StoredIn(g, x) = StoredIn(f, x) + (IF x = r THEN 1 ELSE 0)
  BY TupleMergeAssumption DEF Counted, Inserts
<1>2. \A x \in Rule : k[x] = l[x] + (IF x = r THEN 1 ELSE 0)
  BY <1>1 DEF Counts
<1>3. ASSUME NEW x \in Rule
      PROVE  /\ StoredIn(g, x) \in Nat /\ k[x] \in Int /\ 0 <= k[x]
             /\ k[x] <= StoredIn(g, x) /\ StoredIn(g, x) <= MaxCopies
  BY <1>1, <1>2
<1>4. k \in [Rule -> 0 .. MaxCopies]
  <2>1. \A x \in Rule : k[x] <= MaxCopies
    BY <1>1, <1>3
  <2>2. \A x \in Rule : k[x] \in 0 .. MaxCopies
    BY <1>1, <1>3, <2>1
  <2> QED BY <1>1, <2>2 DEF Counts
<1>5. ASSUME MaxCopies = 1
      PROVE  /\ DOMAIN b = {x \in Rule : k[x] > 0}
             /\ \A x \in Rule : StoredIn(g, x) = k[x]
  <2>1. /\ DOMAIN a = {x \in Rule : l[x] > 0}
        /\ \A x \in Rule : StoredIn(f, x) = l[x]
    BY <1>5 DEF Counted
  <2>2. \A x \in Rule : StoredIn(g, x) = k[x]
    BY <1>1, <1>2, <2>1
  <2>3. DOMAIN b \in SUBSET Rule
    BY DEF Inserts, Placed
  <2>4. \A x \in DOMAIN b : k[x] > 0
    <3> SUFFICES ASSUME NEW x \in DOMAIN b
                 PROVE  k[x] > 0
      OBVIOUS
    <3>1. x \in Rule
      BY <2>3
    <3>2. x = r \/ l[x] > 0
      BY <2>1, <3>1 DEF Inserts
    <3> QED BY <1>1, <1>2, <3>1, <3>2
  <2>5. \A x \in Rule : k[x] > 0 => x \in DOMAIN b
    <3> SUFFICES ASSUME NEW x \in Rule, k[x] > 0
                 PROVE  x \in DOMAIN b
      OBVIOUS
    <3>1. x = r \/ l[x] > 0
      BY <1>1, <1>2
    <3> QED BY <2>1, <3>1 DEF Inserts
  <2> QED BY <2>2, <2>3, <2>4, <2>5
<1> QED BY <1>3, <1>4, <1>5 DEF Counted

\* The rules of m that collide with r.
Colliding(st, m, r) == {s \in NodesIn(st.slotted[m]) : HashRule(m, s) = HashRule(m, r)}

\* The mask at which a split after r aims, and the rules that it moves.
Aim(st, m, r) == Lengthify(SplitTuple(Colliding(st, m, r)))

LEMMA AimTakes ==
  ASSUME NEW st, NEW m, NEW r \in Rule, st.slotted[m].nodes[r] > 0
  PROVE  /\ Aim(st, m, r) \in Mask /\ Lengthify(Aim(st, m, r)) = Aim(st, m, r)
         /\ \E s \in Colliding(st, m, r) : s \in Moved(st, m, Aim(st, m, r))
<1> DEFINE C == Colliding(st, m, r)
<1>1. C \in SUBSET Rule /\ C \in SUBSET NodesIn(st.slotted[m]) /\ r \in C
  BY DEF Colliding, NodesIn
<1> HIDE DEF C
<1>2. SplitTuple(C) \in Mask /\ \E s \in C : CanInsert(Lengthify(SplitTuple(C)), PreferedTuple(s))
  BY <1>1, SplitTupleFits
<1>3. Lengthify(SplitTuple(C)) \in Mask
      /\ Lengthify(Lengthify(SplitTuple(C))) = Lengthify(SplitTuple(C))
  BY <1>2, LengthifyIs
<1> QED BY <1>1, <1>2, <1>3 DEF Aim, Moved, C

\* Whether an insertion of r into m is followed by a split, and its outcome.
Overfull(st, m, r) == SumFunctionOnSet(st.slotted[m].nodes, Colliding(st, m, r)) > collideLimit

LEMMA InsertIntoIs ==
  ASSUME NEW m, NEW r, InsertInto(m, r)
  PROVE  \E st0, st, list :
           /\ st0 = Insertion(Base(slotted), m, r)
           /\ slotted' = st.slotted /\ ResortIf(st.changed, list, st)
           /\ \/ /\ ~Overfull(st0, m, r)
                 /\ st = st0 /\ list = tables
                 /\ assignments' = Assigned(assignments, {r}, m)
              \/ /\ Overfull(st0, m, r)
                 /\ st = SplitTable(st0, m, Aim(st0, m, r))
                 /\ list = IF Aim(st0, m, r) \in Range(tables) THEN tables
                                                              ELSE Append(tables, Aim(st0, m, r))
                 /\ assignments' = Assigned(Assigned(assignments, {r}, m),
                                            Moved(st0, m, Aim(st0, m, r)), Aim(st0, m, r))
<1> DEFINE st0 == Insertion(Base(slotted), m, r)
           target == Aim(st0, m, r)
           split == Overfull(st0, m, r)
           st == IF split THEN SplitTable(st0, m, target) ELSE st0
           list == IF split /\ target \notin Range(tables) THEN Append(tables, target) ELSE tables
<1>1. /\ slotted' = st.slotted /\ ResortIf(st.changed, list, st)
      /\ assignments' = IF split THEN Assigned(Assigned(assignments, {r}, m),
                                               Moved(st0, m, target), target)
                                 ELSE Assigned(assignments, {r}, m)
  BY DEF InsertInto, Base, Colliding, Aim, Overfull
<1> HIDE DEF st0, target, split
<1>2. CASE split
  <2>1. st = SplitTable(st0, m, target)
    BY <1>2
  <2>2. list = IF target \in Range(tables) THEN tables ELSE Append(tables, target)
    BY <1>2
  <2> HIDE DEF st, list
  <2> QED BY <1>1, <1>2, <2>1, <2>2 DEF st0, target, split
<1>3. CASE ~split
  <2>1. st = st0 /\ list = tables
    BY <1>3
  <2> HIDE DEF st, list
  <2> QED BY <1>1, <1>3, <2>1 DEF st0, split
<1> QED BY <1>2, <1>3

LEMMA InsertIntoInserts ==
  ASSUME Inv, NEW m \in DOMAIN slotted, NEW r \in Rule, CanInsert(m, PreferedTuple(r)), InsertInto(m, r)
  PROVE  Inserts(slotted, assignments, slotted', assignments', r) /\ Listed(tables', slotted')
<1> DEFINE D == DOMAIN slotted
<1>1. PICK st0, st, list :
           /\ st0 = Insertion(Base(slotted), m, r)
           /\ slotted' = st.slotted /\ ResortIf(st.changed, list, st)
           /\ \/ /\ ~Overfull(st0, m, r)
                 /\ st = st0 /\ list = tables
                 /\ assignments' = Assigned(assignments, {r}, m)
              \/ /\ Overfull(st0, m, r)
                 /\ st = SplitTable(st0, m, Aim(st0, m, r))
                 /\ list = IF Aim(st0, m, r) \in Range(tables) THEN tables
                                                              ELSE Append(tables, Aim(st0, m, r))
                 /\ assignments' = Assigned(Assigned(assignments, {r}, m),
                                            Moved(st0, m, Aim(st0, m, r)), Aim(st0, m, r))
  BY InsertIntoIs
<1>2. /\ Fine(slotted) /\ Placed(assignments, slotted) /\ Listed(tables, slotted)
      /\ IsFiniteSet(D) /\ AllExact(slotted) /\ slotted \in [D -> Table]
      /\ Base(slotted) \in States(D) /\ Base(slotted).slotted = slotted
  BY BaseIs DEF Inv, Fine
<1>3. Adds(D, Base(slotted), st0, m, r)
  BY <1>1, <1>2, InsertionAdds
<1>4. Fine(st0.slotted) /\ DOMAIN st0.slotted = D
  BY <1>2, <1>3, AddsFine
<1>5. Placed(Assigned(assignments, {r}, m), st0.slotted)
  BY <1>2, <1>3, AddsPlaced
<1>6. \A x \in Rule : StoredIn(st0.slotted, x)
                         = StoredIn(slotted, x) + (IF x = r THEN 1 ELSE 0)
  BY <1>2, <1>3 DEF Adds
<1>7. ~st0.changed => SameMax(slotted, st0.slotted)
  BY <1>2, <1>3 DEF Adds
<1>8. Range(tables) = D /\ tables \in Seq(D) /\ Descends(tables, D, [slotted |-> slotted])
  BY <1>2 DEF Listed, Descends
<1>9. CASE /\ st = st0 /\ list = tables
           /\ assignments' = Assigned(assignments, {r}, m)
  <2>1. ~st.changed => Descends(list, D, st)
    BY <1>7, <1>8, <1>9, DescendsSame DEF SameMax
  <2>2. Listed(tables', slotted')
    BY <1>1, <1>2, <1>4, <1>8, <1>9, <2>1, Resorted
  <2>3. DOMAIN Assigned(assignments, {r}, m) = DOMAIN assignments \cup {r}
    BY DEF Assigned
  <2>4. Inserts(slotted, assignments, slotted', assignments', r)
    BY <1>1, <1>4, <1>5, <1>6, <1>9, <2>3 DEF Inserts
  <2> QED BY <2>2, <2>4
<1>10. ASSUME NEW target, target = Aim(st0, m, r), st = SplitTable(st0, m, target),
              list = IF target \in Range(tables) THEN tables ELSE Append(tables, target),
              assignments' = Assigned(Assigned(assignments, {r}, m), Moved(st0, m, target), target)
       PROVE  Inserts(slotted, assignments, slotted', assignments', r) /\ Listed(tables', slotted')
  <2>1. st0.slotted[m].nodes[r] > 0
    <3>1. st0.slotted[m].nodes = [slotted[m].nodes EXCEPT ![r] = @ + 1]
      BY <1>2, <1>3 DEF Adds
    <3>2. slotted[m].nodes \in [Rule -> Nat]
      BY <1>2 DEF Table
    <3> QED BY <3>1, <3>2
  <2>2. target \in Mask /\ Lengthify(target) = target /\ Moved(st0, m, target) # {}
    BY <1>10, <2>1, AimTakes
  <2>3. st0 \in States(D) /\ AllExact(st0.slotted)
    BY <1>3 DEF Adds
  <2>4. Splits(D, st0, st, m, target)
    BY <1>2, <1>10, <2>2, <2>3, SplitTableSplits
  <2> DEFINE E == D \cup {target}
             a == Assigned(assignments, {r}, m)
             R == Moved(st0, m, target)
  <2>5. Fine(st.slotted) /\ DOMAIN st.slotted = E
    BY <1>4, <2>2, <2>4, SplitsFine
  <2>6. Placed(Assigned(a, R, target), st.slotted)
    BY <1>4, <1>5, <2>4, SplitsPlaced
  <2>7. \A x \in Rule : StoredIn(st.slotted, x) = StoredIn(st0.slotted, x)
    BY <2>4 DEF Splits
  <2>8. DOMAIN Assigned(a, R, target) = DOMAIN assignments \cup {r} \cup R
    BY DEF Assigned
  <2>9. ASSUME NEW x \in R
        PROVE  x = r \/ StoredIn(slotted, x) > 0
    <3>1. x \in Rule /\ st0.slotted[m].nodes[x] > 0
      BY DEF Moved, NodesIn
    <3>2. /\ st0.slotted[m].nodes = [slotted[m].nodes EXCEPT ![r] = @ + 1]
          /\ slotted[m].nodes \in [Rule -> Nat]
      BY <1>2, <1>3 DEF Adds, Table
    <3>3. x # r => slotted[m].nodes[x] > 0
      BY <3>1, <3>2
    <3> QED BY <1>2, <3>1, <3>3, StoredBounds
  <2>10. Inserts(slotted, assignments, slotted', assignments', r)
    <3> HIDE DEF a, R
    <3>1. \A x \in Rule : StoredIn(st.slotted, x)
                             = StoredIn(slotted, x) + (IF x = r THEN 1 ELSE 0)
      BY <1>6, <2>7
    <3>2. assignments' = Assigned(a, R, target)
      BY <1>10 DEF a, R
    <3> QED BY <1>1, <2>5, <2>6, <2>8, <2>9, <3>1, <3>2 DEF Inserts
  <2>11. Range(list) = E
    BY <1>8, <1>10, AppendRange
  <2>12. ~st.changed => Descends(list, E, st)
    <3> SUFFICES ASSUME ~st.changed
                 PROVE  Descends(list, E, st)
      OBVIOUS
    <3>1. ~st0.changed /\ target \in D /\ SameMax(st0.slotted, st.slotted)
      BY <2>4 DEF Splits
    <3>2. list = tables /\ E = D
      BY <1>8, <1>10, <3>1
    <3>3. \A x \in D : st.slotted[x].maxPriority = slotted[x].maxPriority
      BY <1>4, <1>7, <3>1 DEF SameMax
    <3>4. Descends(tables, D, st)
      BY <1>8, <3>3, DescendsSame
    <3> QED BY <3>2, <3>4
  <2>13. IsFiniteSet(E)
    BY <2>5 DEF Fine
  <2>14. Listed(tables', slotted')
    <3> HIDE DEF E
    <3> QED BY <1>1, <2>5, <2>11, <2>12, <2>13, Resorted
  <2> QED BY <2>10, <2>14
<1> QED BY <1>1, <1>9, <1>10

LEMMA MadeFine ==
  ASSUME NEW f, Fine(f), NEW m \in Mask, m \notin DOMAIN f, Lengthify(m) = m
  PROVE  /\ Fine(Made(f, m)) /\ DOMAIN Made(f, m) = DOMAIN f \cup {m}
         /\ \A x \in DOMAIN f : Made(f, m)[x] = f[x]
         /\ \A x \in Rule : StoredIn(Made(f, m), x) = StoredIn(f, x)
<1> DEFINE g == Made(f, m)
           D == DOMAIN f
           E == D \cup {m}
<1>1. f \in [D -> Table] /\ IsFiniteSet(D) /\ AllExact(f) /\ E \in SUBSET Mask
  BY DEF Fine
<1>2. g \in [E -> Table] /\ g[m] = EmptyTable /\ \A x \in D : g[x] = f[x]
  BY <1>1, EmptyTableExact DEF Made
<1>3. \A x \in Rule : StoredIn(g, x) = StoredIn(f, x)
  BY <1>1, StoredOfMade
<1> HIDE DEF g
<1>4. AllExact(g)
  BY <1>1, <1>2, EmptyTableExact DEF AllExact
<1>5. IsFiniteSet(E) /\ DOMAIN g = E
  BY <1>1, <1>2, FS_AddElement
<1>6. ASSUME NEW x \in E
      PROVE  Lengthify(x) = x /\ \A r \in NodesIn(g[x]) : CanInsert(x, PreferedTuple(r))
  <2>1. CASE x = m
    <3>1. NodesIn(g[m]) = {}
      BY <1>2 DEF NodesIn, EmptyTable
    <3> QED BY <2>1, <3>1
  <2>2. CASE x \in D
    BY <1>2, <2>2 DEF Fine
  <2> QED BY <2>1, <2>2
<1> HIDE DEF E
<1>7. Fine(g)
  BY <1>1, <1>2, <1>4, <1>5, <1>6 DEF Fine
<1> QED BY <1>2, <1>3, <1>5, <1>7 DEF g, E

LEMMA InsertIntoNewTableInserts ==
  ASSUME Inv, NEW r \in Rule, Takers(r) = {}, InsertIntoNewTable(r)
  PROVE  Inserts(slotted, assignments, slotted', assignments', r) /\ Listed(tables', slotted')
<1> DEFINE m == Lengthify(Relax(PreferedTuple(r)))
           f == Made(slotted, m)
           st == Insertion(Base(f), m, r)
           D == DOMAIN slotted
           E == D \cup {m}
<1>1. /\ slotted' = st.slotted /\ assignments' = Assigned(assignments, {r}, m)
      /\ ResortIf(TRUE, Append(tables, m), st)
  BY DEF InsertIntoNewTable, Base
<1>2. m \in Mask /\ Lengthify(m) = m /\ CanInsert(m, PreferedTuple(r))
  <2>1. PreferedTuple(r) \in Mask
    BY PrefixAssumption DEF PreferedTuple, Mask
  <2>2. Relax(PreferedTuple(r)) \in Mask /\ CanInsert(m, PreferedTuple(r))
    BY <2>1, RelaxFits
  <2> QED BY <2>2, LengthifyIs
<1> HIDE DEF m
<1>3. /\ Fine(slotted) /\ Placed(assignments, slotted) /\ tables \in Seq(D)
      /\ Range(tables) = D
  BY DEF Inv, Listed, Descends
<1>4. m \notin D
  <2> SUFFICES ASSUME m \in D
               PROVE  FALSE
    OBVIOUS
  <2>1. PICK i \in DOMAIN tables : tables[i] = m
    BY <1>3 DEF Range
  <2>2. i \in Takers(r)
    BY <1>2, <2>1 DEF Takers
  <2> QED BY <2>2
<1>5. /\ Fine(f) /\ DOMAIN f = E /\ \A x \in D : f[x] = slotted[x]
      /\ \A x \in Rule : StoredIn(f, x) = StoredIn(slotted, x)
  BY <1>2, <1>3, <1>4, MadeFine
<1> HIDE DEF f, st
<1>6. m \in DOMAIN f /\ Base(f) \in States(DOMAIN f) /\ Base(f).slotted = f
  BY <1>5, BaseIs
<1>7. Adds(DOMAIN f, Base(f), st, m, r)
  BY <1>5, <1>6, InsertionAdds DEF Fine, st
<1>8. Fine(st.slotted) /\ DOMAIN st.slotted = E
  BY <1>2, <1>5, <1>6, <1>7, AddsFine
<1>9. Placed(assignments, f)
  BY <1>3, <1>5 DEF Placed
<1>10. Placed(Assigned(assignments, {r}, m), st.slotted)
  BY <1>5, <1>6, <1>7, <1>9, AddsPlaced
<1>11. \A x \in Rule : StoredIn(st.slotted, x)
                          = StoredIn(slotted, x) + (IF x = r THEN 1 ELSE 0)
  BY <1>5, <1>6, <1>7 DEF Adds
<1>12. Inserts(slotted, assignments, slotted', assignments', r)
  <2>1. DOMAIN Assigned(assignments, {r}, m) = DOMAIN assignments \cup {r}
    BY DEF Assigned
  <2> QED BY <1>1, <1>8, <1>10, <1>11, <2>1 DEF Inserts
<1>13. Listed(tables', slotted')
  <2>1. tables' \in Sorted(Range(Append(tables, m)), st)
    BY <1>1 DEF ResortIf
  <2>2. Range(Append(tables, m)) = E
    BY <1>3, AppendRange
  <2>3. IsFiniteSet(E)
    BY <1>8 DEF Fine
  <2>4. Descends(tables', E, st)
    BY <2>1, <2>2, <2>3, SortedDescends
  <2>5. Descends(tables', E, [slotted |-> st.slotted])
    BY <2>4, DescendsSame
  <2> QED BY <1>1, <1>8, <2>5 DEF Listed
<1> QED BY <1>12, <1>13

-----------------------------------------------------------------------------
(***************************************************************************)
(* What a deletion preserves, with the table that it may empty.            *)
(***************************************************************************)

\* f without its table m.
Without(f, m) == [x \in DOMAIN f \ {m} |-> f[x]]

LEMMA WithoutFine ==
  ASSUME NEW f, Fine(f), NEW m \in DOMAIN f, NodesIn(f[m]) = {}
  PROVE  /\ Fine(Without(f, m)) /\ DOMAIN Without(f, m) = DOMAIN f \ {m}
         /\ \A x \in DOMAIN f \ {m} : Without(f, m)[x] = f[x]
         /\ \A r \in Rule : StoredIn(Without(f, m), r) = StoredIn(f, r)
<1> DEFINE g == Without(f, m)
           D == DOMAIN f
           E == D \ {m}
<1>1. /\ D \in SUBSET Mask /\ IsFiniteSet(D) /\ f \in [D -> Table] /\ AllExact(f)
      /\ IsFiniteSet(E)
  BY FS_RemoveElement DEF Fine
<1>2. g \in [E -> Table] /\ DOMAIN g = E /\ \A x \in E : g[x] = f[x]
  BY <1>1 DEF Without
<1> HIDE DEF g
<1>3. Fine(g)
  <2>1. AllExact(g)
    BY <1>1, <1>2 DEF AllExact
  <2>2. \A x \in E : /\ Lengthify(x) = x
                     /\ \A r \in NodesIn(g[x]) : CanInsert(x, PreferedTuple(r))
    BY <1>2 DEF Fine
  <2>3. E \in SUBSET Mask
    BY <1>1
  <2> HIDE DEF E
  <2> QED BY <1>1, <1>2, <2>1, <2>2, <2>3 DEF Fine
<1>4. ASSUME NEW r \in Rule
      PROVE  StoredIn(g, r) = StoredIn(f, r)
  <2> DEFINE a == [x \in D |-> f[x].nodes[r]]
             b == [x \in E |-> g[x].nodes[r]]
  <2>1. /\ \A x \in D : a[x] = f[x].nodes[r] /\ a[x] \in Nat
        /\ \A x \in E : b[x] = a[x]
    BY <1>1, <1>2 DEF Table
  <2>2. a[m] = 0
    BY <2>1 DEF NodesIn
  <2>3. StoredIn(f, r) = SumFunctionOnSet(a, D) /\ StoredIn(g, r) = SumFunctionOnSet(b, E)
    BY <1>1, <1>2 DEF StoredIn
  <2> HIDE DEF a, b
  <2>4. SumFunctionOnSet(a, D) = a[m] + SumFunctionOnSet(a, E)
    BY <1>1, <2>1, SumSplit
  <2>5. SumFunctionOnSet(b, E) = SumFunctionOnSet(a, E) /\ SumFunctionOnSet(a, E) \in Nat
    BY <1>1, <2>1, SumSame, SumStep
  <2> QED BY <2>2, <2>3, <2>4, <2>5
<1> QED BY <1>2, <1>3, <1>4 DEF g

\* The tables g with the assignments b are f with a, and one copy of r less.
Deletes(f, a, g, b, r) ==
  /\ Fine(g) /\ Placed(b, g)
  /\ \A x \in Rule : StoredIn(f, x) = StoredIn(g, x) + (IF x = r THEN 1 ELSE 0)
  /\ DOMAIN b = DOMAIN a \ {r}

LEMMA DeletesCounted ==
  ASSUME NEW f, NEW a, NEW g, NEW b, NEW l, NEW r \in Rule, NEW k, Counts(l, k, r, -1),
         Deletes(f, a, g, b, r), Counted(l, a, f), l[r] > 0
  PROVE  Counted(k, b, g)
<1>1. /\ MaxCopies \in Int /\ l \in [Rule -> 0 .. MaxCopies]
      /\ \A x \in Rule : /\ StoredIn(f, x) \in Nat /\ l[x] \in Int /\ 0 <= l[x]
                         /\ l[x] <= StoredIn(f, x) /\ StoredIn(f, x) <= MaxCopies
                         /\ StoredIn(f, x) = StoredIn(g, x) + (IF x = r THEN 1 ELSE 0)
  BY TupleMergeAssumption DEF Counted, Deletes
<1>2. \A x \in Rule : StoredIn(g, x) \in Nat
  <2>1. IsFiniteSet(DOMAIN g) /\ g \in [DOMAIN g -> Table]
    BY DEF Deletes, Fine
  <2> QED BY <2>1, StoredBounds
<1>3. \A x \in Rule : k[x] = l[x] - (IF x = r THEN 1 ELSE 0)
  BY <1>1 DEF Counts
<1>4. ASSUME NEW x \in Rule
      PROVE  /\ StoredIn(g, x) \in Nat /\ k[x] \in Int /\ 0 <= k[x]
             /\ k[x] <= StoredIn(g, x) /\ StoredIn(g, x) <= MaxCopies
  BY <1>1, <1>2, <1>3
<1>5. k \in [Rule -> 0 .. MaxCopies]
  <2>1. \A x \in Rule : k[x] <= MaxCopies
    BY <1>1, <1>4
  <2>2. \A x \in Rule : k[x] \in 0 .. MaxCopies
    BY <1>1, <1>4, <2>1
  <2> QED BY <1>1, <2>2 DEF Counts
<1>6. ASSUME MaxCopies = 1
      PROVE  /\ DOMAIN b = {x \in Rule : k[x] > 0}
             /\ \A x \in Rule : StoredIn(g, x) = k[x]
  <2>1. /\ DOMAIN a = {x \in Rule : l[x] > 0}
        /\ \A x \in Rule : StoredIn(f, x) = l[x]
    BY <1>6 DEF Counted
  <2>2. \A x \in Rule : StoredIn(g, x) = k[x]
    BY <1>1, <1>2, <1>3, <2>1
  <2>3. l[r] = 1
    BY <1>1, <1>6
  <2>4. \A x \in Rule : k[x] > 0 <=> (l[x] > 0 /\ x # r)
    BY <1>1, <1>3, <2>3
  <2> QED BY <2>1, <2>2, <2>4 DEF Deletes
<1> QED BY <1>4, <1>5, <1>6 DEF Counted

LEMMA DeleteDeletes ==
  ASSUME Inv, NEW r \in Rule, r \in DOMAIN assignments, DeleteRule(r)
  PROVE  Deletes(slotted, assignments, slotted', assignments', r) /\ Listed(tables', slotted')
<1> DEFINE D == DOMAIN slotted
           m == assignments[r]
           st == Deletion(Base(slotted), m, r)
           gone == IF NodesIn(st.slotted[m]) = {} THEN {m} ELSE {}
           list == IF gone = {} THEN tables ELSE RemoveFirst(tables, m)
           a == assignments
           b == assignments'
<1>1. /\ slotted' = [x \in D \ gone |-> st.slotted[x]]
      /\ b = [s \in DOMAIN a \ {r} |-> a[s]]
      /\ ResortIf(st.changed, list, st)
  BY DEF DeleteRule, Base
<1>2. /\ Fine(slotted) /\ Placed(a, slotted) /\ Listed(tables, slotted)
      /\ IsFiniteSet(D) /\ AllExact(slotted) /\ slotted \in [D -> Table]
      /\ Base(slotted) \in States(D) /\ Base(slotted).slotted = slotted
  BY BaseIs DEF Inv, Fine
<1>3. m \in D /\ slotted[m].nodes[r] > 0
  BY <1>2 DEF Placed
<1>4. Takes(D, Base(slotted), st, m, r)
  <2> HIDE DEF m
  <2> QED BY <1>2, <1>3, DeletionTakes
<1> HIDE DEF m, st
<1> DEFINE f == st.slotted
<1>5. /\ f \in [D -> Table] /\ AllExact(f) /\ DOMAIN f = D
      /\ \A x \in D \ {m} : f[x] = slotted[x]
      /\ f[m].nodes = [slotted[m].nodes EXCEPT ![r] = @ - 1]
      /\ slotted[m].nodes \in [Rule -> Nat]
      /\ \A x \in Rule : StoredIn(slotted, x) = StoredIn(f, x) + (IF x = r THEN 1 ELSE 0)
      /\ ~st.changed => SameMax(slotted, f) /\ NodesIn(f[m]) # {}
  BY <1>2, <1>3, <1>4 DEF Takes, States, Table
<1>6. Fine(f)
  <2>1. ASSUME NEW x \in D, NEW s \in NodesIn(f[x])
        PROVE  CanInsert(x, PreferedTuple(s))
    <3>1. s \in NodesIn(slotted[x])
      BY <1>2, <1>3, <1>5 DEF NodesIn, Table
    <3> QED BY <1>2, <3>1 DEF Fine
  <2> HIDE DEF f
  <2> QED BY <1>2, <1>5, <2>1 DEF Fine
<1> HIDE DEF f
<1>7. ASSUME NEW s \in DOMAIN b
      PROVE  s \in Rule /\ b[s] \in D /\ f[b[s]].nodes[s] > 0
  <2>1. s \in DOMAIN a /\ s # r /\ b[s] = a[s]
    BY <1>1
  <2>2. s \in Rule /\ a[s] \in D /\ slotted[a[s]].nodes[s] > 0
    BY <1>2, <2>1 DEF Placed
  <2>3. CASE a[s] = m
    BY <1>5, <2>1, <2>2, <2>3
  <2>4. CASE a[s] # m
    BY <1>5, <2>1, <2>2, <2>4
  <2> QED BY <2>1, <2>2, <2>3, <2>4
<1>8. DOMAIN b = DOMAIN a \ {r} /\ DOMAIN a \in SUBSET Rule
  BY <1>1, <1>2 DEF Placed
<1>9. /\ Range(tables) = D /\ tables \in Seq(D) /\ Descends(tables, D, [slotted |-> slotted])
      /\ \A i, j \in DOMAIN tables : i < j => tables[i] # tables[j]
  BY <1>2 DEF Listed, Descends
<1>10. CASE NodesIn(f[m]) # {}
  <2>1. slotted' = f /\ list = tables
    <3>1. gone = {}
      BY <1>10 DEF f
    <3> HIDE DEF gone
    <3>2. slotted' = [x \in D |-> f[x]]
      BY <1>1, <3>1 DEF f
    <3> QED BY <1>5, <3>1, <3>2
  <2>2. Deletes(slotted, a, slotted', b, r)
    BY <1>5, <1>6, <1>7, <1>8, <2>1 DEF Deletes, Placed
  <2>3. ASSUME ~st.changed
        PROVE  Descends(tables, D, st)
    <3>1. \A x \in D : st.slotted[x].maxPriority = slotted[x].maxPriority
      <4>1. SameMax(slotted, f)
        BY <1>5, <2>3
      <4> QED BY <4>1 DEF SameMax, f
    <3> QED BY <1>9, <3>1, DescendsSame
  <2>4. ResortIf(st.changed, tables, st)
    BY <1>1, <2>1
  <2>5. Listed(tables', slotted')
    BY <1>2, <1>5, <1>9, <2>1, <2>3, <2>4, Resorted DEF f
  <2> QED BY <2>2, <2>5
<1>11. CASE NodesIn(f[m]) = {}
  <2> DEFINE g == Without(f, m)
             rest == RemoveFirst(tables, m)
  <2>1. slotted' = g /\ list = rest
    <3>1. gone = {m}
      BY <1>11 DEF f
    <3> HIDE DEF gone
    <3>2. slotted' = [x \in D \ {m} |-> f[x]]
      BY <1>1, <3>1 DEF f
    <3> QED BY <1>5, <3>1, <3>2 DEF Without
  <2>2. /\ Fine(g) /\ DOMAIN g = D \ {m} /\ \A x \in D \ {m} : g[x] = f[x]
        /\ \A x \in Rule : StoredIn(g, x) = StoredIn(f, x)
    <3> HIDE DEF D
    <3>1. m \in DOMAIN f /\ DOMAIN f = D
      BY <1>3, <1>5
    <3>2. /\ Fine(Without(f, m)) /\ DOMAIN Without(f, m) = DOMAIN f \ {m}
          /\ \A x \in DOMAIN f \ {m} : Without(f, m)[x] = f[x]
          /\ \A x \in Rule : StoredIn(Without(f, m), x) = StoredIn(f, x)
      BY <1>6, <1>11, <3>1, WithoutFine
    <3> QED BY <3>1, <3>2
  <2> HIDE DEF g, rest, list, gone
  <2>3. Placed(b, g)
    <3>1. \A s \in DOMAIN b : b[s] # m
      BY <1>7, <1>11 DEF NodesIn
    <3> QED BY <1>7, <1>8, <2>2, <3>1 DEF Placed
  <2>4. Deletes(slotted, a, slotted', b, r)
    BY <1>5, <1>8, <2>1, <2>2, <2>3 DEF Deletes
  <2>5. tables' \in Sorted(Range(rest), st)
    BY <1>1, <1>5, <1>11, <2>1 DEF ResortIf
  <2>6. Range(rest) = D \ {m}
    BY <1>3, <1>9, RemoveFirstIs DEF rest
  <2>7. IsFiniteSet(D \ {m})
    BY <1>2, <1>3, FS_RemoveElement
  <2>8. Descends(tables', D \ {m}, st)
    BY <2>5, <2>6, <2>7, SortedDescends
  <2>9. Descends(tables', D \ {m}, [slotted |-> g])
    BY <2>2, <2>8, DescendsSame DEF f
  <2> QED BY <2>1, <2>2, <2>4, <2>9 DEF Listed
<1> QED BY <1>10, <1>11

-----------------------------------------------------------------------------
(***************************************************************************)
(* The invariant holds.                                                    *)
(***************************************************************************)

LEMMA InvInit == Init => Inv
<1> SUFFICES ASSUME Init
             PROVE  Inv
  OBVIOUS
<1>1. DOMAIN slotted = {} /\ slotted = << >> /\ tables = << >> /\ assignments = << >>
  BY DEF Init
<1>2. IsFiniteSet({})
  BY FS_EmptySet
<1>3. Fine(slotted)
  BY <1>1, <1>2 DEF Fine, AllExact
<1>4. Listed(tables, slotted) /\ Placed(assignments, slotted)
  BY <1>1 DEF Listed, Descends, Range, Placed
<1>5. ASSUME NEW r \in Rule
      PROVE  StoredIn(slotted, r) \in Nat /\ ~(StoredIn(slotted, r) > 0)
  <2>1. slotted \in [{} -> Table]
    BY <1>1
  <2> QED BY <1>2, <2>1, StoredBounds
<1>6. Counted(live, assignments, slotted)
  <2>1. MaxCopies \in Nat
    BY TupleMergeAssumption
  <2>2. \A r \in Rule : StoredIn(slotted, r) = 0 /\ live[r] = 0
    BY <1>5 DEF Init
  <2>3. live \in [Rule -> 0 .. MaxCopies]
    BY <2>1 DEF Init
  <2>4. DOMAIN assignments = {}
    BY <1>1
  <2> QED BY <2>1, <2>2, <2>3, <2>4 DEF Counted
<1> QED BY <1>3, <1>4, <1>6 DEF Inv, Init

\* An insertion adds one copy of its rule, whichever table takes it.
LEMMA InsertRuleInserts ==
  ASSUME Inv, NEW r \in Rule, InsertRule(r)
  PROVE  Inserts(slotted, assignments, slotted', assignments', r) /\ Listed(tables', slotted')
<1>1. CASE Takers(r) # {}
  <2>1. Takers(r) \in SUBSET Nat
    BY DEF Takers, Inv, Listed, Descends
  <2>2. PICK i \in Takers(r) : i = Min(Takers(r))
    BY <1>1, <2>1, MinIs
  <2>3. tables[i] \in DOMAIN slotted /\ CanInsert(tables[i], PreferedTuple(r))
    BY DEF Takers, Inv, Listed, Descends
  <2>4. InsertInto(tables[i], r)
    BY <1>1, <2>2 DEF InsertRule
  <2> QED BY <2>3, <2>4, InsertIntoInserts
<1>2. CASE Takers(r) = {}
  <2>1. InsertIntoNewTable(r)
    BY <1>2 DEF InsertRule
  <2> QED BY <1>2, <2>1, InsertIntoNewTableInserts
<1> QED BY <1>1, <1>2

LEMMA InvInsertRule ==
  ASSUME Inv, NEW r \in Rule, InsertRule(r)
  PROVE  Inv'
<1>1. Inserts(slotted, assignments, slotted', assignments', r) /\ Listed(tables', slotted')
  BY InsertRuleInserts
<1>2. Counted(live', assignments', slotted')
  <2>1. live' = [live EXCEPT ![r] = @ + 1] /\ live[r] < MaxCopies /\ Stored(r) < MaxCopies
    BY DEF InsertRule
  <2>2. StoredIn(slotted, r) < MaxCopies
    BY <2>1, StoredIsSum
  <2>3. Counted(live, assignments, slotted)
    BY DEF Inv
  <2>4. PICK g, b, k : g = slotted' /\ b = assignments' /\ k = live'
    OBVIOUS
  <2>5. Inserts(slotted, assignments, g, b, r) /\ Counts(live, k, r, 1)
    BY <1>1, <2>1, <2>4 DEF Counts
  <2>6. Counted(k, b, g)
    BY <2>1, <2>2, <2>3, <2>5, InsertsCounted
  <2> QED BY <2>4, <2>6
<1>3. Fine(slotted') /\ Placed(assignments', slotted')
  BY <1>1 DEF Inserts
<1>4. ret' = Void
  BY DEF InsertRule
<1> QED BY <1>1, <1>2, <1>3, <1>4 DEF Inv

LEMMA InvDeleteRule ==
  ASSUME Inv, NEW r \in Rule, DeleteRule(r)
  PROVE  Inv'
<1>1. ret' = Void /\ live' = [live EXCEPT ![r] = @ - 1] /\ live[r] > 0
  BY DEF DeleteRule
<1>2. CASE r \in DOMAIN assignments
  <2>1. Deletes(slotted, assignments, slotted', assignments', r) /\ Listed(tables', slotted')
    BY <1>2, DeleteDeletes
  <2>2. Counted(live', assignments', slotted')
    <3>1. Counted(live, assignments, slotted)
      BY DEF Inv
    <3>2. PICK g, b, k : g = slotted' /\ b = assignments' /\ k = live'
      OBVIOUS
    <3>3. Deletes(slotted, assignments, g, b, r) /\ Counts(live, k, r, -1)
      <4>1. k = [live EXCEPT ![r] = @ - 1] /\ live \in [Rule -> 0 .. MaxCopies]
        BY <1>1, <3>1, <3>2 DEF Counted
      <4>2. \A n \in Int : n - 1 = n + (-1)
        OBVIOUS
      <4>3. k = [live EXCEPT ![r] = @ + (-1)]
        BY <4>1, <4>2
      <4> QED BY <2>1, <3>2, <4>3 DEF Counts
    <3>4. Counted(k, b, g)
      BY <1>1, <3>1, <3>3, DeletesCounted
    <3> QED BY <3>2, <3>4
  <2>3. Fine(slotted') /\ Placed(assignments', slotted')
    BY <2>1 DEF Deletes
  <2> QED BY <1>1, <2>1, <2>2, <2>3 DEF Inv
<1>3. CASE r \notin DOMAIN assignments
  <2>1. UNCHANGED <<tables, slotted, assignments>>
    BY <1>3 DEF DeleteRule
  <2>2. /\ MaxCopies \in Int /\ live \in [Rule -> 0 .. MaxCopies]
        /\ \A x \in Rule : /\ StoredIn(slotted, x) \in Nat /\ live[x] \in Int /\ 0 <= live[x]
                           /\ live[x] <= MaxCopies
                           /\ live[x] <= StoredIn(slotted, x) /\ StoredIn(slotted, x) <= MaxCopies
    BY TupleMergeAssumption DEF Inv, Counted
  <2>3. \A x \in Rule : /\ live'[x] = live[x] - (IF x = r THEN 1 ELSE 0)
                        /\ 0 <= live'[x] /\ live'[x] <= live[x] /\ live'[x] \in Int
    BY <1>1, <2>2
  <2>4. live' \in [Rule -> 0 .. MaxCopies]
    <3>1. \A x \in Rule : live'[x] \in 0 .. MaxCopies
      BY <2>2, <2>3
    <3> QED BY <1>1, <2>2, <3>1
  <2>5. \A x \in Rule : live'[x] <= StoredIn(slotted, x)
    BY <2>2, <2>3
  <2>6. MaxCopies # 1
    BY <1>1, <1>3 DEF Inv, Counted
  <2>7. Counted(live', assignments, slotted)
    BY <2>2, <2>4, <2>5, <2>6 DEF Counted
  <2> QED BY <1>1, <2>1, <2>7 DEF Inv
<1> QED BY <1>2, <1>3

\* Whatever is inside the tables is bounded by their cached greatest priority.
LEMMA InvSearches ==
  ASSUME Inv
  PROVE  SearchBounded /\ tables \in Seq(DOMAIN slotted) /\ Range(tables) = DOMAIN slotted
<1>1. AllExact(slotted) /\ slotted \in [DOMAIN slotted -> Table]
  BY DEF Inv, Fine
<1> QED BY <1>1, SearchIsBounded DEF Inv, Listed, Descends

LEMMA InvNext == Inv /\ [Next]_vars => Inv'
<1> SUFFICES ASSUME Inv, [Next]_vars
             PROVE  Inv'
  OBVIOUS
<1>1. ASSUME NEW r \in Rule, InsertRule(r)
      PROVE  Inv'
  BY <1>1, InvInsertRule
<1>2. ASSUME NEW r \in Rule, DeleteRule(r)
      PROVE  Inv'
  BY <1>2, InvDeleteRule
<1>3. ASSUME NEW p \in Packet, ClassifyAPacket(p)
      PROVE  Inv'
  <2>1. Lookup(p) \in Priority \cup {-1}
    BY InvSearches, LookupIs
  <2>2. ret' \in {Void} \cup (Packet \X (Priority \cup {-1}))
    BY <1>3, <2>1 DEF ClassifyAPacket
  <2> QED BY <1>3, <2>2 DEF ClassifyAPacket, Inv
<1>4. CASE UNCHANGED vars
  BY <1>4 DEF vars, Inv
<1> QED BY <1>1, <1>2, <1>3, <1>4 DEF Next

LEMMA InvHolds == Spec => []Inv
BY InvInit, InvNext, PTL DEF Spec

\* Every variable keeps its type; in particular no table's node or multiset
\* counts below zero, and no rule is stored more than MaxCopies times.
THEOREM TypeCorrect == Spec => []TypeOK
BY InvHolds, InvTyped, PTL

\* TupleMergeOnline's tables, their sorted list and the assignments agree:
\* every rule sits in a table that hashes no field past its prefix, multisets
\* and cached greatest priorities are exact, every table is listed once, in
\* descending order, and each rule assigned is in its table.
THEOREM TablesCorrect == Spec => []TablesInv
BY InvHolds, InvTables, PTL

-----------------------------------------------------------------------------
(***************************************************************************)
(* What a lookup answers.                                                  *)
(***************************************************************************)

\* In a table that can hold the rule, a packet the rule matches is looked for
\* in the rule's chain.
LEMMA SameChain ==
  ASSUME NEW m \in Mask, Lengthify(m) = m, NEW r \in Rule, CanInsert(m, PreferedTuple(r)),
         NEW p \in Packet, MatchesPacket(r, p)
  PROVE  HashRule(m, r) = HashPacket(m, p)
<1>1. ASSUME NEW d \in 1 .. 5
      PROVE  Cut(d, r.range[d][1], m[d]) = Cut(d, p[d], m[d])
  <2> DEFINE len == m[d]
             low == r.range[d][1]
             x == p[d]
  <2>1. /\ m[d] \in Int /\ 0 <= m[d] /\ DOMAIN m = 1 .. 5
        /\ r.prefix_length[d] \in Int
    <3>1. m[d] \in 0 .. 255 /\ DOMAIN m = 1 .. 5
      BY DEF Mask
    <3>2. r.prefix_length \in Mask
      BY PrefixAssumption DEF Mask
    <3> QED BY <3>1, <3>2, MaskIs
  <2>2. CASE len = 0
    BY <2>2 DEF Cut
  <2>3. CASE len # 0
    <3>1. m[d] > Unhashed[d] /\ m[d] <= r.prefix_length[d]
      BY <2>1, <2>3 DEF Lengthify, CanInsert, PreferedTuple
    <3>2. Unhashed[d] \in Int
      BY DEF Unhashed
    <3>3. len \in Unhashed[d] + 1 .. r.prefix_length[d]
      BY <2>1, <3>1, <3>2
    <3>4. x \in r.range[d][1] .. r.range[d][2]
      <4>1. x \in Int /\ DOMAIN r.range = 1 .. 5
        BY PrefixAssumption
      <4>2. r.range[d][1] <= x /\ x <= r.range[d][2]
        BY <4>1 DEF MatchesPacket
      <4> QED BY <4>1, <4>2
    <3> HIDE DEF len, x
    <3>5. Cut(d, x, len) = Cut(d, low, len)
      BY <3>3, <3>4, PrefixAssumption
    <3> QED BY <3>5 DEF len, x
  <2> QED BY <2>2, <2>3
<1>2. DOMAIN m = 1 .. 5
  BY DEF Mask
<1>3. [d \in DOMAIN m |-> Cut(d, r.range[d][1], m[d])] = [d \in DOMAIN m |-> Cut(d, p[d], m[d])]
  BY <1>1, <1>2
<1> QED BY <1>3 DEF HashRule, HashPacket

LEMMA LookupMissesNone ==
  ASSUME Inv, NEW p \in Packet, NEW r \in Rule, live[r] > 0, MatchesPacket(r, p)
  PROVE  r.priority <= Lookup(p)
<1>1. /\ IsFiniteSet(DOMAIN slotted) /\ slotted \in [DOMAIN slotted -> Table]
      /\ DOMAIN slotted \in SUBSET Mask
  BY DEF Inv, Fine
<1>2. StoredIn(slotted, r) > 0
  <2>1. /\ StoredIn(slotted, r) \in Int /\ live[r] \in Int /\ live[r] <= StoredIn(slotted, r)
    BY TupleMergeAssumption DEF Inv, Counted
  <2> QED BY <2>1
<1>3. PICK m \in DOMAIN slotted : slotted[m].nodes[r] > 0
  BY <1>1, <1>2, StoredBounds
<1>4. r \in NodesIn(slotted[m]) /\ Lengthify(m) = m /\ CanInsert(m, PreferedTuple(r))
  BY <1>3 DEF NodesIn, Inv, Fine
<1>5. HashRule(m, r) = HashPacket(m, p)
  BY <1>1, <1>4, SameChain
<1> DEFINE C == Chain(m, HashPacket(m, p))
<1>6. r \in C /\ C \in SUBSET Rule
  BY <1>4, <1>5 DEF Chain, NodesIn
<1> HIDE DEF C
<1>7. r.priority <= LinearScanPriority(C, p) /\ LinearScanPriority(C, p) \in Int
  BY <1>6, ScanIsGreatest
<1>8. Search(m, p) <= Lookup(p) /\ Lookup(p) \in Int
  BY InvSearches, LookupIs, PriorityFinite
<1>9. r.priority \in Int
  BY PriorityFinite DEF Priority
<1> QED BY <1>7, <1>8, <1>9 DEF Search, C

LEMMA NothingLostStep == Inv => NothingLost
<1> SUFFICES ASSUME Inv, NEW p \in Packet
             PROVE  LinearScanPriority(LiveRules, p) <= Lookup(p)
  BY DEF NothingLost
<1> DEFINE x == LinearScanPriority(LiveRules, p)
<1>1. /\ x \in Int
      /\ x # -1 => \E r \in LiveRules : MatchesPacket(r, p) /\ r.priority = x
  <2>1. LiveRules \in SUBSET Rule
    BY DEF LiveRules
  <2> QED BY <2>1, ScanIsGreatest
<1>2. Lookup(p) \in Int /\ -1 <= Lookup(p)
  BY InvSearches, LookupIs, PriorityFinite
<1> HIDE DEF x
<1>3. CASE x = -1
  BY <1>2, <1>3 DEF x
<1>4. CASE x # -1
  <2>1. PICK r \in LiveRules : MatchesPacket(r, p) /\ r.priority = x
    BY <1>1, <1>4
  <2>2. r.priority <= Lookup(p)
    BY <2>1, LookupMissesNone DEF LiveRules
  <2> QED BY <2>1, <2>2 DEF x
<1> QED BY <1>3, <1>4

\* Whatever the client inserts and deletes, copies of a rule included, and
\* whatever tables are made, split, emptied and sorted on the way, a lookup
\* answers no less than the greatest priority still inserted that matches.
THEOREM NothingLostAlways == Spec => []NothingLost
BY InvHolds, NothingLostStep, PTL

-----------------------------------------------------------------------------
(***************************************************************************)
(* What a split does: it loses and doubles nothing, and shortens the chain *)
(* that caused it.                                                         *)
(***************************************************************************)

Conserves ==
  \A r \in Rule : live'[r] > live[r] =>
    \A s \in Rule : Stored(s)' = Stored(s) + (IF s = r THEN 1 ELSE 0)

LEMMA OnlyInsertRaises ==
  ASSUME Inv, [Next]_vars, NEW r \in Rule, live'[r] > live[r]
  PROVE  InsertRule(r)
<1>1. live \in [Rule -> 0 .. MaxCopies] /\ live[r] \in Int
  BY DEF Inv, Counted
<1>2. ASSUME NEW q \in Rule, InsertRule(q)
      PROVE  InsertRule(r)
  <2>1. live' = [live EXCEPT ![q] = @ + 1]
    BY <1>2 DEF InsertRule
  <2>2. q = r
    BY <1>1, <2>1
  <2> QED BY <1>2, <2>2
<1>3. ASSUME NEW q \in Rule, DeleteRule(q)
      PROVE  InsertRule(r)
  <2>1. live' = [live EXCEPT ![q] = @ - 1]
    BY <1>3 DEF DeleteRule
  <2>2. FALSE
    BY <1>1, <2>1
  <2> QED BY <2>2
<1>4. ASSUME NEW p \in Packet, ClassifyAPacket(p)
      PROVE  InsertRule(r)
  BY <1>1, <1>4 DEF ClassifyAPacket
<1>5. CASE UNCHANGED vars
  BY <1>1, <1>5 DEF vars
<1> QED BY <1>2, <1>3, <1>4, <1>5 DEF Next

\* TupleMergeOnline::InsertRule: however many nodes SplitTable moves, of
\* copies or not, each rule has as many nodes afterwards, the new one aside.
THEOREM SplitConservesAlways == Spec => SplitConserves
<1>1. Inv /\ [Next]_vars => [Conserves]_vars
  <2> SUFFICES ASSUME Inv, [Next]_vars
               PROVE  Conserves
    OBVIOUS
  <2> SUFFICES ASSUME NEW r \in Rule, live'[r] > live[r], NEW s \in Rule
               PROVE  Stored(s)' = Stored(s) + (IF s = r THEN 1 ELSE 0)
    BY DEF Conserves
  <2>1. InsertRule(r)
    BY OnlyInsertRaises
  <2>2. Inserts(slotted, assignments, slotted', assignments', r)
    BY <2>1, InsertRuleInserts
  <2>3. Stored(s)' = StoredIn(slotted', s) /\ Stored(s) = StoredIn(slotted, s)
    <3>1. Stored(s)' = SumFunction([m \in DOMAIN slotted' |-> slotted'[m].nodes[s]])
      BY DEF Stored
    <3>2. \A f : SumFunction([m \in DOMAIN f |-> f[m].nodes[s]]) = StoredIn(f, s)
      BY DEF StoredIn, SumFunction, SumFunctionOnSet, FoldFunction
    <3> QED BY <3>1, <3>2, StoredIsSum
  <2> QED BY <2>2, <2>3 DEF Inserts
<1> QED BY <1>1, InvHolds, PTL DEF Spec, SplitConserves, Conserves

\* The rules of the counts n that hash to h in a table of mask m.
Hashed(n, m, h) == {r \in Rule : n[r] > 0 /\ HashRule(m, r) = h}

\* What remains of a chain when one copy of r has come and the rules R, one of
\* the chain among them, have gone.
LEMMA ChainShortens ==
  ASSUME NEW n \in [Rule -> Nat], NEW k \in [Rule -> Nat], NEW j \in [Rule -> Nat], NEW m, NEW h,
         NEW r \in Rule, HashRule(m, r) = h, NEW R \in SUBSET Rule, NEW s \in Hashed(k, m, h), s \in R,
         \A x \in Rule : k[x] = n[x] + (IF x = r THEN 1 ELSE 0),
         \A x \in Rule : j[x] = (IF x \in R THEN 0 ELSE k[x])
  PROVE  SumFunctionOnSet(j, Hashed(j, m, h)) <= SumFunctionOnSet(n, Hashed(n, m, h))
<1> DEFINE X == Hashed(k, m, h)
           C == Hashed(n, m, h)
           Y == Hashed(j, m, h)
<1>1. /\ X \in SUBSET Rule /\ IsFiniteSet(X) /\ r \in X /\ s \in X
      /\ X = C \cup {r} /\ Y \in SUBSET (X \ {s}) /\ IsFiniteSet(X \ {s})
  <2>1. X \in SUBSET Rule /\ r \in X /\ X = C \cup {r} /\ Y \in SUBSET (X \ {s})
    BY DEF Hashed
  <2>2. IsFiniteSet(X) /\ IsFiniteSet(X \ {s})
    BY <2>1, RuleAssumption, FS_Subset
  <2> QED BY <2>1, <2>2
<1>2. r \notin C => n[r] = 0
  BY DEF Hashed
<1>3. k[s] > 0
  BY DEF Hashed
<1>4. \A x \in Rule : n[x] \in Nat /\ k[x] \in Nat /\ j[x] \in Nat /\ j[x] <= k[x]
  OBVIOUS
<1> HIDE DEF X, C, Y
<1>5. SumFunctionOnSet(n, X) = SumFunctionOnSet(n, C) /\ SumFunctionOnSet(n, X) \in Nat
  <2>1. SumFunctionOnSet(n, X) \in Nat
    BY <1>1, <1>4, SumStep
  <2>2. CASE r \in C
    <3>1. X = C
      BY <1>1, <2>2
    <3> QED BY <2>1, <3>1
  <2>3. CASE r \notin C
    <3>1. X \ {r} = C
      BY <1>1, <2>3
    <3>2. SumFunctionOnSet(n, X) = n[r] + SumFunctionOnSet(n, X \ {r})
      BY <1>1, <1>4, SumSplit
    <3>3. IsFiniteSet(C) /\ C \in SUBSET Rule
      BY <1>1, FS_Subset
    <3>4. SumFunctionOnSet(n, C) \in Nat
      BY <1>4, <3>3, SumStep
    <3>5. SumFunctionOnSet(n, X) = n[r] + SumFunctionOnSet(n, C)
      BY <3>1, <3>2
    <3> QED BY <1>2, <2>1, <2>3, <3>4, <3>5
  <2> QED BY <2>2, <2>3
<1>6. SumFunctionOnSet(k, X) = SumFunctionOnSet(n, X) + 1
  <2>1. \A x \in X : n[x] \in Nat /\ (x # r => k[x] = n[x])
    BY <1>1, <1>4
  <2>2. k[r] = n[r] + 1 /\ k[r] \in Nat /\ n[r] \in Nat
    BY <1>4
  <2>3. SumFunctionOnSet(k, X) + n[r] = SumFunctionOnSet(n, X) + k[r]
    BY <1>1, <2>1, <2>2, SumUpdate
  <2>4. SumFunctionOnSet(k, X) \in Nat
    BY <1>1, <1>4, SumStep
  <2> QED BY <1>5, <2>2, <2>3, <2>4
<1>7. SumFunctionOnSet(k, X) = k[s] + SumFunctionOnSet(k, X \ {s})
  BY <1>1, <1>4, SumSplit
<1>8. SumFunctionOnSet(j, Y) <= SumFunctionOnSet(k, X \ {s})
  BY <1>1, <1>4, SumMonotone
<1>9. SumFunctionOnSet(j, Y) \in Nat /\ SumFunctionOnSet(k, X \ {s}) \in Nat /\ k[s] \in Nat
  <2>1. IsFiniteSet(Y) /\ Y \in SUBSET Rule
    BY <1>1, FS_Subset
  <2> QED BY <1>1, <1>4, <2>1, SumStep
<1>10. SumFunctionOnSet(n, C) \in Nat /\ SumFunctionOnSet(k, X) = SumFunctionOnSet(n, C) + 1
  BY <1>5, <1>6
<1>11. SumFunctionOnSet(j, Y) <= SumFunctionOnSet(n, C)
  <2> DEFINE a == SumFunctionOnSet(j, Y)
             b == SumFunctionOnSet(k, X \ {s})
             c == SumFunctionOnSet(n, C)
             d == SumFunctionOnSet(k, X)
             e == k[s]
  <2>1. /\ a \in Nat /\ b \in Nat /\ c \in Nat /\ e \in Nat /\ e > 0
        /\ d = c + 1 /\ d = e + b /\ a <= b
    BY <1>3, <1>7, <1>8, <1>9, <1>10
  <2> HIDE DEF a, b, c, d, e
  <2>2. a <= c
    BY <2>1
  <2> QED BY <2>2 DEF a, c
<1> QED BY <1>11 DEF Y, C

\* The outcome for the chain of r in m of an insertion into m.
LEMMA InsertIntoShortens ==
  ASSUME Inv, NEW m \in DOMAIN slotted, NEW r \in Rule, InsertInto(m, r), NEW h, h = HashRule(m, r),
         NEW n, n = slotted[m].nodes, NEW j, j = slotted'[m].nodes
  PROVE  \/ SumFunctionOnSet(j, Hashed(j, m, h)) <= collideLimit
         \/ SumFunctionOnSet(j, Hashed(j, m, h)) <= SumFunctionOnSet(n, Hashed(n, m, h))
         \/ Lengthify(SplitTuple(Hashed(j, m, h))) = m
<1> DEFINE D == DOMAIN slotted
<1>1. PICK st0, st :
           /\ st0 = Insertion(Base(slotted), m, r)
           /\ slotted' = st.slotted
           /\ \/ ~Overfull(st0, m, r) /\ st = st0
              \/ st = SplitTable(st0, m, Aim(st0, m, r))
  BY InsertIntoIs
<1>2. /\ Fine(slotted)
      /\ IsFiniteSet(D) /\ AllExact(slotted) /\ slotted \in [D -> Table]
      /\ Base(slotted) \in States(D) /\ Base(slotted).slotted = slotted
  BY BaseIs DEF Inv, Fine
<1>3. Adds(D, Base(slotted), st0, m, r)
  BY <1>1, <1>2, InsertionAdds
<1> DEFINE k == st0.slotted[m].nodes
<1>4. /\ n \in [Rule -> Nat] /\ k \in [Rule -> Nat]
      /\ \A x \in Rule : k[x] = n[x] + (IF x = r THEN 1 ELSE 0)
  <2>1. n \in [Rule -> Nat]
    BY <1>2 DEF Table
  <2>2. k = [n EXCEPT ![r] = @ + 1]
    BY <1>2, <1>3 DEF Adds
  <2> QED BY <2>1, <2>2
<1>5. Hashed(k, m, h) = Colliding(st0, m, r)
  BY DEF Hashed, Colliding, NodesIn
<1>6. CASE ~Overfull(st0, m, r) /\ st = st0
  <2>1. j = k
    BY <1>1, <1>6
  <2>2. SumFunctionOnSet(k, Hashed(k, m, h)) \in Nat
    <3>1. Hashed(k, m, h) \in SUBSET Rule
      BY DEF Hashed
    <3>2. IsFiniteSet(Hashed(k, m, h))
      BY <3>1, RuleAssumption, FS_Subset
    <3> HIDE DEF k
    <3>3. \A x \in Hashed(k, m, h) : k[x] \in Nat
      BY <1>4, <3>1
    <3> QED BY <3>2, <3>3, SumStep
  <2>3. ~(SumFunctionOnSet(k, Hashed(k, m, h)) > collideLimit)
    BY <1>5, <1>6 DEF Overfull
  <2>4. collideLimit \in Nat
    BY TupleMergeAssumption
  <2> DEFINE c == SumFunctionOnSet(k, Hashed(k, m, h))
  <2> HIDE DEF c
  <2>5. c <= collideLimit
    BY <2>2, <2>3, <2>4 DEF c
  <2> QED BY <2>1, <2>5 DEF c
<1>7. ASSUME NEW target, target = Aim(st0, m, r), st = SplitTable(st0, m, target)
      PROVE  \/ SumFunctionOnSet(j, Hashed(j, m, h)) <= SumFunctionOnSet(n, Hashed(n, m, h))
             \/ Lengthify(SplitTuple(Hashed(j, m, h))) = m
  <2> DEFINE R == Moved(st0, m, target)
  <2>1. k[r] > 0
    BY <1>4
  <2>2. PICK s \in Colliding(st0, m, r) : s \in R
    BY <1>7, <2>1, AimTakes
  <2>3. st0 \in States(D) /\ AllExact(st0.slotted)
    BY <1>3 DEF Adds
  <2>4. Splits(D, st0, st, m, target)
    BY <1>2, <1>7, <2>2, <2>3, SplitTableSplits
  <2>5. CASE m = target
    <3>1. j = k
      BY <1>1, <2>4, <2>5 DEF Splits
    <3>2. Lengthify(SplitTuple(Hashed(j, m, h))) = Aim(st0, m, r)
      BY <1>5, <3>1 DEF Aim
    <3> QED BY <1>7, <2>5, <3>2
  <2>6. CASE m # target
    <3>1. \A x \in Rule : j[x] = IF x \in R THEN 0 ELSE k[x]
      BY <1>1, <2>4, <2>6 DEF Splits
    <3>2. j \in [Rule -> Nat]
      <4>1. st.slotted[m] \in Table
        BY <2>4 DEF Splits, States
      <4> QED BY <1>1, <4>1 DEF Table
    <3>3. R \in SUBSET Rule /\ s \in Hashed(k, m, h)
      BY <1>5, <2>2 DEF Moved, NodesIn
    <3> HIDE DEF R, k
    <3> QED BY <1>4, <2>2, <3>1, <3>2, <3>3, ChainShortens
  <2> QED BY <2>5, <2>6
<1> QED BY <1>1, <1>6, <1>7

Shortens ==
  \A r \in {x \in Rule : live'[x] > live[x] /\ Takers(x) # {}} :
    \A m \in {tables[Min(Takers(r))]} : \A h \in {HashRule(m, r)} :
      \/ ChainSize(m, h)' <= collideLimit
      \/ ChainSize(m, h)' <= ChainSize(m, h)
      \/ Lengthify(SplitTuple(Chain(m, h)')) = m

\* TupleMergeOnline::InsertRule: after an insertion into a table the chain of
\* the rule is within the collide limit, or no longer than before, or the mask
\* the split aims at is the table's own and nothing can move.
THEOREM SplitShortensChainAlways == Spec => SplitShortensChain
<1>1. Inv /\ [Next]_vars => [Shortens]_vars
  <2> SUFFICES ASSUME Inv, [Next]_vars,
                      NEW r \in Rule, live'[r] > live[r], Takers(r) # {},
                      NEW m, m = tables[Min(Takers(r))], NEW h, h = HashRule(m, r)
               PROVE  \/ ChainSize(m, h)' <= collideLimit
                      \/ ChainSize(m, h)' <= ChainSize(m, h)
                      \/ Lengthify(SplitTuple(Chain(m, h)')) = m
    BY DEF Shortens
  <2>1. InsertRule(r)
    BY OnlyInsertRaises
  <2>2. InsertInto(m, r)
    BY <2>1 DEF InsertRule
  <2>3. m \in DOMAIN slotted
    <3>1. Takers(r) \in SUBSET Nat /\ \A i \in Takers(r) : tables[i] \in DOMAIN slotted
      BY DEF Takers, Inv, Listed, Descends
    <3> QED BY <3>1, MinIs
  <2> DEFINE n == slotted[m].nodes
             j == slotted'[m].nodes
  <2>4. /\ Chain(m, h) = Hashed(n, m, h) /\ ChainSize(m, h) = SumFunctionOnSet(n, Hashed(n, m, h))
        /\ Chain(m, h)' = Hashed(j, m, h)
        /\ ChainSize(m, h)' = SumFunctionOnSet(j, Hashed(j, m, h))
    BY DEF Chain, ChainSize, Hashed, NodesIn
  <2>5. PICK a, b : a = n /\ b = j
    OBVIOUS
  <2>6. \/ SumFunctionOnSet(b, Hashed(b, m, h)) <= collideLimit
        \/ SumFunctionOnSet(b, Hashed(b, m, h)) <= SumFunctionOnSet(a, Hashed(a, m, h))
        \/ Lengthify(SplitTuple(Hashed(b, m, h))) = m
    BY <2>2, <2>3, <2>5, InsertIntoShortens
  <2> QED BY <2>4, <2>5, <2>6
<1> QED BY <1>1, InvHolds, PTL DEF Spec, SplitShortensChain, Shortens

-----------------------------------------------------------------------------
(***************************************************************************)
(* With single copies TupleMerge is a classifier.                          *)
(***************************************************************************)

LEMMA LookupIsScan ==
  ASSUME MaxCopies = 1, Inv, NEW p \in Packet
  PROVE  Lookup(p) = LinearScanPriority(LiveRules, p)
<1> DEFINE x == Lookup(p)
<1>1. x \in Int /\ -1 <= x
  BY InvSearches, LookupIs, PriorityFinite
<1>2. LiveRules \in SUBSET Rule
  BY DEF LiveRules
<1>3. \A r \in LiveRules : MatchesPacket(r, p) => r.priority <= x
  BY LookupMissesNone DEF LiveRules
<1>4. ASSUME x # -1
      PROVE  \E r \in LiveRules : MatchesPacket(r, p) /\ r.priority = x
  <2>1. PICK m \in DOMAIN slotted : x = Search(m, p)
    BY <1>4, InvSearches, LookupIs
  <2> DEFINE C == Chain(m, HashPacket(m, p))
  <2>2. C \in SUBSET Rule /\ \A r \in C : slotted[m].nodes[r] > 0
    BY DEF Chain, NodesIn
  <2> HIDE DEF C, x
  <2>3. x = LinearScanPriority(C, p)
    BY <2>1 DEF Search, C
  <2>4. PICK r \in C : MatchesPacket(r, p) /\ r.priority = x
    BY <1>4, <2>2, <2>3, ScanIsGreatest
  <2>5. r \in LiveRules
    <3>1. IsFiniteSet(DOMAIN slotted) /\ slotted \in [DOMAIN slotted -> Table]
      BY DEF Inv, Fine
    <3>2. r \in Rule /\ StoredIn(slotted, r) > 0
      BY <2>2, <3>1, StoredBounds
    <3>3. StoredIn(slotted, r) = live[r]
      BY <3>2 DEF Inv, Counted
    <3> QED BY <3>2, <3>3 DEF LiveRules
  <2> QED BY <2>4, <2>5
<1> HIDE DEF x
<1>5. LinearScanPriority(LiveRules, p) = x
  BY <1>1, <1>2, <1>3, <1>4, ScanIs
<1> QED BY <1>5 DEF x

\* With no rule inserted twice, every behaviour of TupleMergeOnline is one of
\* the abstract classifier: its lookups are linear scans.
THEOREM Refinement ==
  ASSUME MaxCopies = 1
  PROVE  Spec => ImplementsClassifier
<1>1. Init => Abstract!Init
  BY DEF Init, Abstract!Init
<1>2. Inv /\ [Next]_vars => [Abstract!Next]_<<live, ret>>
  <2> SUFFICES ASSUME Inv, [Next]_vars
               PROVE  [Abstract!Next]_<<live, ret>>
    OBVIOUS
  <2>1. ASSUME NEW r \in Rule, InsertRule(r)
        PROVE  Abstract!InsertRule(r)
    BY <2>1 DEF InsertRule, Abstract!InsertRule
  <2>2. ASSUME NEW r \in Rule, DeleteRule(r)
        PROVE  Abstract!DeleteRule(r)
    BY <2>2 DEF DeleteRule, Abstract!DeleteRule
  <2>3. ASSUME NEW p \in Packet, ClassifyAPacket(p)
        PROVE  Abstract!ClassifyAPacket(p)
    <3>1. Lookup(p) = LinearScanPriority(LiveRules, p)
      BY LookupIsScan
    <3>2. LinearScanPriority(LiveRules, p) = Abstract!LinearScanPriority(Abstract!LiveRules, p)
      BY DEF LinearScanPriority, Abstract!LinearScanPriority, MatchesPacket, Abstract!MatchesPacket,
         Highest, Abstract!Highest, LiveRules, Abstract!LiveRules
    <3> QED BY <2>3, <3>1, <3>2 DEF ClassifyAPacket, Abstract!ClassifyAPacket
  <2>4. CASE UNCHANGED vars
    BY <2>4 DEF vars
  <2> QED BY <2>1, <2>2, <2>3, <2>4 DEF Next, Abstract!Next
<1> QED BY <1>1, <1>2, InvHolds, PTL DEF Spec, ImplementsClassifier, Abstract!Spec
=============================================================================
