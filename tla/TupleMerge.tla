----------------------------- MODULE TupleMerge -----------------------------
(***************************************************************************)
(* The online TupleMerge classifier (TupleMerge/TupleMergeOnline.cpp) and  *)
(* its slotted tables (TupleMerge/SlottedTable.cpp).                       *)
(*                                                                         *)
(* A rule goes into the first table, in lookup order, whose mask is no     *)
(* longer than the rule's prefixes; if none takes it, a table with a       *)
(* relaxed mask is made.  A table whose chain grows past the collide limit *)
(* is split: the rules a longer mask can take move to a second table.      *)
(* assignments remembers, by priority and id, the table of every rule.     *)
(*                                                                         *)
(* A table is identified here by its mask, which holds a length per field  *)
(* and 0 for a field the table does not hash (dims and lengths in the      *)
(* code).  FindOrMake keeps the masks of two tables different.  The        *)
(* nodes of a table are kept as a bag: the order within a chain decides    *)
(* nothing, because a node is found by its priority and id.                *)
(***************************************************************************)
EXTENDS Rules, Sequences, FiniteSetsExt, SequencesExt

CONSTANTS
  MaxCopies, Void,   (* As in Classifier.                                  *)
  collideLimit,      (* The longest chain that does not split its table.   *)
  hash(_),           (* The Bernstein hash of a mask's masked points.      *)
  ProtoGrain         (* Protocol lengths, 255 and 127, exceed the word, so *)
                     (* Mask shifts by more than 32 bits: the builds keep  *)
                     (* all bits (1) or all but the lowest (2).            *)

ASSUME TupleMergeAssumption ==
  /\ MaxCopies \in Nat \ {0} /\ collideLimit \in Nat
  /\ ProtoGrain \in {1, 2}
  /\ \A r, s \in Rule : r.priority = s.priority /\ r.id = s.id => r = s

VARIABLES
  live,         \* the client's view: copies of each rule inserted
  ret,          \* what the last call returned
  tables,       \* the masks of the tables, in the order of a lookup
  slotted,      \* per mask, the table
  assignments   \* the table of each rule assigned, a partial function

vars == <<live, ret, tables, slotted, assignments>>

LiveRules == {r \in Rule : live[r] > 0}

-----------------------------------------------------------------------------
(***************************************************************************)
(* Masks.                                                                  *)
(***************************************************************************)

PreferedTuple(r) == r.prefix_length

\* Dimify and Lengthify: a field is hashed only if it is longer than this.
Unhashed == <<0, 0, 16, 16, 24>>
Lengthify(t) == [d \in DOMAIN t |-> IF t[d] > Unhashed[d] THEN t[d] ELSE 0]

\* A slip: fewer bits than the mask are enough.
CanInsertOneShort(mask, t) == \A d \in DOMAIN mask : mask[d] <= t[d] + 1

CanInsert(mask, t) == \A d \in DOMAIN mask : mask[d] <= t[d]

\* The steps by which Relax shortens a length.
Shortened(n) ==
  n - CASE n = 32 -> 4 [] n > 24 /\ n # 32 -> 3 [] n \in 17 .. 24 -> 2
        [] n \in 9 .. 16 -> 1 [] n <= 8 -> 0

Relax(t) ==
  LET delta == t[FieldSA] - t[FieldDA]
      u == CASE -delta > 4 -> [t EXCEPT ![FieldSA] = 0, ![FieldSP] = 16]
             [] delta > 4  -> [t EXCEPT ![FieldDA] = 0, ![FieldDP] = 16]
             [] OTHER      -> t
  IN  [u EXCEPT ![FieldSA] = Shortened(@), ![FieldDA] = Shortened(@)]

\* A slip: lengthened by one bit more than halfway.
SplitTupleOneLonger(collisions) ==
  LET Field  == 1 .. 5
      compat == [d \in Field |-> Min({PreferedTuple(r)[d] : r \in collisions})]
      super  == [d \in Field |-> Max({PreferedTuple(r)[d] : r \in collisions})]
      bestD  == Min({d \in Field : \A e \in Field :
                       super[e] - compat[e] <= super[d] - compat[d]})
  IN  [compat EXCEPT ![bestD] = (super[bestD] + @) \div 2 + 1]

\* The mask a split aims at: what all colliding rules share (BestTuple),
\* lengthened halfway in the first field in which they differ most.
SplitTuple(collisions) ==
  LET Field  == 1 .. 5
      compat == [d \in Field |-> Min({PreferedTuple(r)[d] : r \in collisions})]
      super  == [d \in Field |-> Max({PreferedTuple(r)[d] : r \in collisions})]
      delta(d) == super[d] - compat[d]
      bestD  == Min({d \in Field : \A e \in Field : delta(e) <= delta(d)})
  IN  [compat EXCEPT ![bestD] = (super[bestD] + @) \div 2]

-----------------------------------------------------------------------------
(***************************************************************************)
(* One table.                                                              *)
(***************************************************************************)

\* The point of field d cut to len bits; a field of length 0 is not hashed.
Cut(d, x, len) ==
  CASE len = 0              -> 0
    [] len > 0 /\ d <= FieldDA -> Masked(x, len)
    [] len > 0 /\ d > FieldDA  -> x - (x % ProtoGrain)

\* loadrule makes a range of an address and its prefix length (the bits past
\* the prefix are zero in a rule file) or of a protocol given in full; ports
\* are never hashed, for their prefixes have 16 bits at most.  So every point of
\* a range agrees with its low end in each length that a table may hash.
ASSUME PrefixAssumption ==
  /\ \A p \in Packet : p \in [1 .. 5 -> Nat]
  /\ \A r \in Rule :
       /\ r.prefix_length \in [1 .. 5 -> 0 .. 255] /\ DOMAIN r.range = 1 .. 5
       /\ \A d \in 1 .. 5 : \A len \in Unhashed[d] + 1 .. r.prefix_length[d] :
            \A x \in r.range[d][1] .. r.range[d][2] : Cut(d, x, len) = Cut(d, r.range[d][1], len)

HashRule(mask, r)   == hash([d \in DOMAIN mask |-> Cut(d, r.range[d][1], mask[d])])
HashPacket(mask, p) == hash([d \in DOMAIN mask |-> Cut(d, p[d], mask[d])])

EmptyTable == [nodes     |-> [r \in Rule |-> 0],
               container |-> [q \in Priority |-> 0],
               maxPriority |-> -1]

\* The tables f and a new one, with the mask m.
Made(f, m) == [x \in DOMAIN f \cup {m} |-> IF x = m THEN EmptyTable ELSE f[x]]

NodesIn(table)  == {r \in Rule : table.nodes[r] > 0}
Held(container) == {q \in Priority : container[q] > 0}

Chain(mask, h) == {r \in NodesIn(slotted[mask]) : HashRule(mask, r) = h}

ChainSize(mask, h) == SumFunctionOnSet(slotted[mask].nodes, Chain(mask, h))

Search(mask, p) == LinearScanPriority(Chain(mask, HashPacket(mask, p)), p)

\* The two updates of a table work on a pair: the tables by mask, and
\* whether the greatest priority of one has changed so far (priority_change,
\* which the code never resets).
Insertion(st, mask, r) ==
  LET raised == r.priority > st.slotted[mask].maxPriority
  IN  [slotted |-> [st.slotted EXCEPT
                      ![mask].nodes[r] = @ + 1,
                      ![mask].container[r.priority] = @ + 1,
                      ![mask].maxPriority = IF raised THEN r.priority ELSE @],
       changed |-> st.changed \/ raised]

\* A slip: the greatest priority is recomputed only when the table empties.
DeletionKeepsGreatest(st, mask, r) ==
  LET table == st.slotted[mask]
      rest  == [table.container EXCEPT ![r.priority] = @ - 1]
      falls == Held(rest) = {}
  IN  IF table.container[r.priority] = 0
        THEN st
        ELSE [slotted |-> [st.slotted EXCEPT
                             ![mask].nodes[r] = IF @ > 0 THEN @ - 1 ELSE 0,
                             ![mask].container = rest,
                             ![mask].maxPriority = IF falls THEN -1 ELSE @],
              changed |-> st.changed \/ falls]

\* Another: all copies of a rule go at once.
DeletionOfCopies(st, mask, r) ==
  LET rest == [st.slotted[mask].container EXCEPT ![r.priority] = 0]
  IN  [slotted |-> [st.slotted EXCEPT ![mask].nodes[r] = 0,
                                      ![mask].container = rest,
                                      ![mask].maxPriority = Highest(Held(rest))],
       changed |-> TRUE]

\* Deletion does nothing unless the multiset holds the priority; then the
\* priority goes, and the node too if the chain has it.
Deletion(st, mask, r) ==
  LET table == st.slotted[mask]
      rest  == [table.container EXCEPT ![r.priority] = @ - 1]
      falls == Held(rest) = {} \/ r.priority = table.maxPriority
  IN  IF table.container[r.priority] = 0
        THEN st
        ELSE [slotted |-> [st.slotted EXCEPT
                             ![mask].nodes[r] = IF @ > 0 THEN @ - 1 ELSE 0,
                             ![mask].container = rest,
                             ![mask].maxPriority =
                                IF falls THEN Highest(Held(rest)) ELSE @],
              changed |-> st.changed \/ falls]

-----------------------------------------------------------------------------
(***************************************************************************)
(* The list of tables.                                                     *)
(***************************************************************************)

\* Every order of the masks in S by descending greatest priority: std::sort
\* leaves ties in any order.
Sorted(S, st) ==
  LET orders[X \in SUBSET S] ==
        IF X = {} THEN {<< >>}
        ELSE UNION {{<<m>> \o v : v \in orders[X \ {m}]} :
                     m \in {x \in X : \A y \in X : st.slotted[y].maxPriority
                                                     <= st.slotted[x].maxPriority}}
  IN  orders[S]

\* Resort, if some greatest priority changed.
ResortIf(changed, list, st) ==
  \/ changed /\ tables' \in Sorted(Range(list), st)
  \/ ~changed /\ tables' = list

\* ClassifyAPacket: a table is searched if it could beat the answer so far.
Lookup(p) ==
  FoldLeft(LAMBDA prior, m : IF slotted[m].maxPriority > prior
                               THEN Highest({prior, Search(m, p)})
                               ELSE prior,
           -1, tables)

-----------------------------------------------------------------------------
Init ==
  /\ live = [r \in Rule |-> 0]
  /\ ret = Void
  /\ tables = << >>
  /\ slotted = << >>
  /\ assignments = << >>

\* assigned[RuleAssignmentKey(r)] = mask for every r of R.
Assigned(assigned, R, mask) ==
  [r \in DOMAIN assigned \cup R |-> IF r \in R THEN mask ELSE assigned[r]]

\* The rules of table m that the split moves: all that target can take.
Moved(st, m, target) ==
  {r \in NodesIn(st.slotted[m]) : CanInsert(target, PreferedTuple(r))}

\* A slip: the target is made even if there is such a table.
SplitTableRemakes(st, m, target) ==
  LET made == [st EXCEPT !.slotted = Made(@, target)]
      copies == UNION {{r} \X (1 .. st.slotted[m].nodes[r]) : r \in Moved(st, m, target)}
  IN  FoldSet(LAMBDA c, s : Insertion(Deletion(s, m, c[1]), target, c[1]), made, copies)

\* The split of table m: FindOrMake the target, then delete from m and
\* insert into the target, one after the other, every node of a moved rule.
\* The order in which the map yields them does not matter to the outcome.
SplitTable(st, m, target) ==
  LET made == [st EXCEPT !.slotted =
                 IF target \in DOMAIN @ THEN @ ELSE Made(@, target)]
      copies == UNION {{r} \X (1 .. st.slotted[m].nodes[r]) : r \in Moved(st, m, target)}
  IN  FoldSet(LAMBDA c, s : Insertion(Deletion(s, m, c[1]), target, c[1]), made, copies)

\* InsertRule, when table m is the first that can take the rule.
InsertInto(m, r) ==
  LET st0    == Insertion([slotted |-> slotted, changed |-> FALSE], m, r)
      chain  == {s \in NodesIn(st0.slotted[m]) : HashRule(m, s) = HashRule(m, r)}
      target == Lengthify(SplitTuple(chain))
      split  == SumFunctionOnSet(st0.slotted[m].nodes, chain) > collideLimit
      st     == IF split THEN SplitTable(st0, m, target) ELSE st0
      list   == IF split /\ target \notin Range(tables) THEN Append(tables, target)
                                                        ELSE tables
  IN
  /\ slotted' = st.slotted
  /\ assignments' = LET assigned == Assigned(assignments, {r}, m)
                    IN  IF split THEN Assigned(assigned, Moved(st0, m, target), target)
                                 ELSE assigned
  /\ ResortIf(st.changed, list, st)

\* InsertRule, when no table can take the rule.
InsertIntoNewTable(r) ==
  LET mask == Lengthify(Relax(PreferedTuple(r)))
      st   == Insertion([slotted |-> Made(slotted, mask), changed |-> FALSE], mask, r)
  IN
  /\ slotted' = st.slotted
  /\ assignments' = Assigned(assignments, {r}, mask)
  /\ ResortIf(TRUE, Append(tables, mask), st)

\* The copies of r in all tables.
Stored(r) == SumFunction([m \in DOMAIN slotted |-> slotted[m].nodes[r]])

\* The places of the tables that can take r.
Takers(r) == {i \in DOMAIN tables : CanInsert(tables[i], PreferedTuple(r))}

\* Bound: a rule is not inserted while MaxCopies nodes hold it.
InsertRule(r) ==
  /\ live[r] < MaxCopies /\ Stored(r) < MaxCopies
  /\ live' = [live EXCEPT ![r] = @ + 1]
  /\ ret' = Void
  /\ IF Takers(r) # {} THEN InsertInto(tables[Min(Takers(r))], r) ELSE InsertIntoNewTable(r)

\* DeleteRule does nothing for a rule that has no table.
DeleteRule(r) ==
  /\ live[r] > 0
  /\ live' = [live EXCEPT ![r] = @ - 1]
  /\ ret' = Void
  /\ IF r \in DOMAIN assignments
       THEN LET m  == assignments[r]
                st == Deletion([slotted |-> slotted, changed |-> FALSE], m, r)
                gone == IF NodesIn(st.slotted[m]) = {} THEN {m} ELSE {}
                list == IF gone = {} THEN tables ELSE RemoveFirst(tables, m)
            IN  /\ slotted' = [x \in DOMAIN slotted \ gone |-> st.slotted[x]]
                /\ assignments' = [s \in DOMAIN assignments \ {r} |-> assignments[s]]
                /\ ResortIf(st.changed, list, st)
       ELSE UNCHANGED <<tables, slotted, assignments>>

ClassifyAPacket(p) ==
  /\ ret' = <<p, Lookup(p)>>
  /\ UNCHANGED <<live, tables, slotted, assignments>>

Next ==
  \/ \E r \in Rule : InsertRule(r) \/ DeleteRule(r)
  \/ \E p \in Packet : ClassifyAPacket(p)

Spec == Init /\ [][Next]_vars

-----------------------------------------------------------------------------
\* Each variable has its type.
TypeOK ==
  /\ live \in [Rule -> 0 .. MaxCopies]
  /\ ret \in {Void} \cup (Packet \X (Priority \cup {-1}))
  /\ tables \in Seq(DOMAIN slotted)
  /\ DOMAIN slotted \subseteq [1 .. 5 -> 0 .. 255]
  /\ slotted \in [DOMAIN slotted -> [nodes       : [Rule -> 0 .. MaxCopies],
                                     container   : [Priority -> Nat],
                                     maxPriority : Priority \cup {-1}]]
  /\ DOMAIN assignments \subseteq Rule /\ Range(assignments) \subseteq DOMAIN slotted

\* A rule is only where a packet it matches is looked for: in a table that
\* hashes no field past the rule's prefix, and no field but by a long length.
NodesFit ==
  \A m \in DOMAIN slotted :
    /\ Lengthify(m) = m
    /\ \A r \in NodesIn(slotted[m]) : CanInsert(m, PreferedTuple(r))

\* The multiset of a table counts its nodes, and the cached greatest priority
\* is that of the multiset.
PrioritiesExact ==
  \A m \in DOMAIN slotted :
    /\ \A q \in Priority :
         slotted[m].container[q]
           = SumFunctionOnSet(slotted[m].nodes, {r \in Rule : r.priority = q})
    /\ slotted[m].maxPriority = Highest(Held(slotted[m].container))

\* Every table is listed once, in descending order of greatest priority.
TablesSorted ==
  /\ Range(tables) = DOMAIN slotted
  /\ \A i, j \in DOMAIN tables :
       i < j => /\ tables[i] # tables[j]
                /\ slotted[tables[j]].maxPriority <= slotted[tables[i]].maxPriority

\* A rule is assigned to a table that holds it; with single copies the rules
\* assigned are those inserted, and each is stored once.
AssignmentsExact ==
  /\ \A r \in DOMAIN assignments : slotted[assignments[r]].nodes[r] > 0
  /\ \A r \in Rule : live[r] <= Stored(r) /\ Stored(r) <= MaxCopies
  /\ MaxCopies = 1 => /\ DOMAIN assignments = LiveRules
                      /\ \A r \in Rule : Stored(r) = live[r]

\* Together: every table, the list of tables and the assignments agree with
\* each other and with the client, whatever splits have moved.
TablesInv == NodesFit /\ PrioritiesExact /\ TablesSorted /\ AssignmentsExact

\* A split helps the chain that caused it: an insertion into a table does not
\* make the rule's chain grow past the limit, unless the mask the split aims
\* at is the table's own.
SplitShortensChain ==
  [][\A r \in {x \in Rule : live'[x] > live[x] /\ Takers(x) # {}} :
       \A m \in {tables[Min(Takers(r))]} : \A h \in {HashRule(m, r)} :
         \/ ChainSize(m, h)' <= collideLimit
         \/ ChainSize(m, h)' <= ChainSize(m, h)
         \/ Lengthify(SplitTuple(Chain(m, h)')) = m]_vars

\* Whatever the client inserts and deletes, copies included, no lookup misses
\* a rule that is still inserted.
NothingLost ==
  \A p \in Packet : LinearScanPriority(LiveRules, p) <= Lookup(p)

\* An insertion, with the split it may cause, adds one node and loses and
\* doubles none of the others.
SplitConserves ==
  [][\A r \in Rule :
       live'[r] > live[r] =>
         \A s \in Rule : Stored(s)' = Stored(s) + (IF s = r THEN 1 ELSE 0)]_vars

\* Every behaviour of TupleMerge with single copies of rules, of equal
\* priorities or not, is one of the abstract classifier.
Abstract == INSTANCE Classifier
ImplementsClassifier == Abstract!Spec

=============================================================================
