------------------------------- MODULE CutTSS -------------------------------
(***************************************************************************)
(* CutTSS (CutTSS/CutTSS.{h,cpp}): the rules are dealt out by the lengths  *)
(* of their address prefixes to four subsets.  Subsets 0 to 2 have a tree  *)
(* that cuts both addresses, the source or the destination into equal      *)
(* slots; subset 3 has a tuple space search, PSbig.                        *)
(*                                                                         *)
(* All nodes of a tree cut alike, so the way to a node is that of the      *)
(* points in it.  A node is named <<tree, depth, slot of each cut field>>, *)
(* and a null pointer is a name without a node.  PSbig is the root of tree *)
(* 3, which cuts no field.  A tuple space search is kept as the list of    *)
(* its rules: that it answers like that list is what module PSTSS shows.   *)
(***************************************************************************)
EXTENDS RuleLists

CONSTANTS
  threshold,      (* The shortest prefix by which a tree may cut.            *)
  cutBits,        (* <<log2 of the slots of a node that cuts one field, and  *)
                  (* per field of one that cuts two>>: <<6, 3>>.             *)
  binth,          (* A node with at most so many rules is a list.            *)
  rtssleaf,       (* A leaf with more rules per tuple than this is a tuple   *)
                  (* space search.                                           *)
  MaxCopies       (* Bound: the copies of rules a client holds in excess of  *)
                  (* one each.  The benchmark driver inserts rules anew.     *)

ASSUME CutTSSAssumption ==
  /\ W \in Nat /\ threshold \in 0 .. W /\ cutBits \in Seq(1 .. W) /\ Len(cutBits) = 2
  /\ binth \in Nat /\ rtssleaf \in Nat /\ MaxCopies \in Nat
  /\ \A r, s \in Rule : r.priority = s.priority /\ r.id = s.id => r = s

Address == 0 .. 2^W - 1

(***************************************************************************)
(* Packets have addresses of W bits, and rules have a range of them in     *)
(* either address field, as loadrule makes it of a prefix.                 *)
(***************************************************************************)
ASSUME AddressAssumption ==
  \A d \in {FieldSA, FieldDA} :
    /\ \A p \in Packet : p[d] \in Address
    /\ \A r \in Rule : /\ d \in DOMAIN r.range /\ r.prefix_length[d] \in 0 .. W
                       /\ r.range[d][1] \in Address /\ r.range[d][2] \in Address
                       /\ r.range[d][1] <= r.range[d][2]

\* Of powers the proofs know no more than this, which TLC works out.
ASSUME PowersAssumption ==
  2^0 = 1 /\ \A n \in 0 .. W - 1 : 2^n \in Nat /\ 2^(n + 1) = 2 * 2^n

VARIABLES
  subset,   \* the rules of each subset, by descending priority
  maxPri,   \* the greatest priority of each subset, or -1
  nodes,    \* the node of each name that has one
  built,    \* the rules the trees are constructed from
  live      \* the client's view: copies of each rule built or inserted

vars == <<subset, maxPri, nodes, built, live>>

LiveRules == {r \in Rule : live[r] > 0}

Tree == 0 .. 3
PSbig == 3

-----------------------------------------------------------------------------
(***************************************************************************)
(* Subsets.                                                                *)
(***************************************************************************)

\* The fields whose prefixes have to reach the threshold, those the tree cuts.
CutTSSPartitionThresholds(k) ==
  CASE k = 0 -> {FieldSA, FieldDA} [] k = 1 -> {FieldSA} [] k = 2 -> {FieldDA} [] k = 3 -> {}

\* ConstructClassifier deals a rule to the first subset that admits it...
partition(rules) ==
  LET First(r) == Min({k \in Tree : \A d \in CutTSSPartitionThresholds(k) :
                                      r.prefix_length[d] >= threshold})
  IN  [k \in Tree |-> Only(rules, {r \in Rule : First(r) = k})]

\* A slip: the threshold itself is too short.
SubsetIndexStrict(r) ==
  LET Long == {d \in {FieldSA, FieldDA} : r.prefix_length[d] > threshold}
  IN  CHOOSE k \in Tree : CutTSSPartitionThresholds(k) = Long

\* ...and the updates find it there by comparisons of their own.
CutTSSSubsetIndex(r) ==
  LET Long == {d \in {FieldSA, FieldDA} : r.prefix_length[d] >= threshold}
  IN  CHOOSE k \in Tree : CutTSSPartitionThresholds(k) = Long

MaxPriorityOrMinusOne(rules) == Highest({r.priority : r \in Range(rules)})

RemoveMatchingRule(rules, r) ==
  RemoveFirstOf(rules, {s \in Rule : s.priority = r.priority /\ s.id = r.id})

-----------------------------------------------------------------------------
(***************************************************************************)
(* The shape of a tree.                                                    *)
(***************************************************************************)

Bits(k) == IF k = 0 THEN cutBits[2] ELSE cutBits[1]

\* The points of a cut field that fall into one node of tree k at this depth.
Size(k, depth) == 2^(W - depth * Bits(k))

\* The name of the node at this depth that point x falls into.
Name(k, depth, x) ==
  <<k, depth, [d \in CutTSSPartitionThresholds(k) |-> x[d] \div Size(k, depth)]>>

Root(k) == <<k, 0, [d \in CutTSSPartitionThresholds(k) |-> 0]>>

\* The rules of a list whose ranges meet the field of node n.
RulesMeeting(n, rules) ==
  LET size == Size(n[1], n[2])
  IN  Only(rules, {r \in Rule : \A d \in DOMAIN n[3] :
             r.range[d][1] < (n[3][d] + 1) * size /\ r.range[d][2] >= n[3][d] * size})

\* A slip: rules that lie in two slots are not noticed.
CalcCutsnAnyway(n, rules, d) ==
  Max({c \in {2^i : i \in 0 .. Bits(n[1])} :
         c = 1 \/ c \div 2 < (Size(n[1], n[2]) - 1) \div 2})

\* The slots that CalcCutsn cuts field d of node n into: twice as many as long
\* as no rule lies in two of them, unless the field gets too small.
CalcCutsn(n, rules, d) ==
  LET size == Size(n[1], n[2]) IN
  Max({c \in {2^i : i \in 0 .. Bits(n[1])} :
         \/ c = 1
         \/ /\ c \div 2 < (size - 1) \div 2
            /\ \A r \in Range(rules) :
                 r.range[d][1] \div (size \div c) = r.range[d][2] \div (size \div c)})

\* The tuples that a search over the rules has.
NumTables(rules) ==
  Cardinality({<<r.prefix_length[FieldSA], r.prefix_length[FieldDA]>> : r \in Range(rules)})

\* What ConstructCutTSSTrie makes of the node with these rules.
NodeType(n, rules) ==
  IF Len(rules) <= binth THEN "Linear"
  ELSE IF \A d \in DOMAIN n[3] : CalcCutsn(n, rules, d) = 2^Bits(n[1]) THEN "Cuts"
  ELSE IF Len(rules) <= rtssleaf * NumTables(rules) THEN "Linear"
  ELSE "TSS"

\* A node that cuts has a child in each slot that a rule meets.
Children(n, rules) ==
  LET Slot(d) == n[3][d] * 2^Bits(n[1]) .. (n[3][d] + 1) * 2^Bits(n[1]) - 1
  IN  {m \in {<<n[1], n[2] + 1, s>> :
                s \in {t \in [DOMAIN n[3] -> 0 .. 2^W] : \A d \in DOMAIN t : t[d] \in Slot(d)}} :
         RulesMeeting(m, rules) # << >>}

\* The tree that is constructed from a list, level by level.
ConstructCutTSSTrie(k, rules) ==
  LET Cut(n) == NodeType(n, RulesMeeting(n, rules)) = "Cuts"
      level[i \in 0 .. W] ==
        IF i = 0 THEN {Root(k)}
                 ELSE UNION {Children(n, rules) : n \in {m \in level[i - 1] : Cut(m)}}
  IN  [n \in UNION {level[i] : i \in 0 .. W} |->
         [type  |-> NodeType(n, RulesMeeting(n, rules)),
          rules |-> IF Cut(n) THEN << >> ELSE RulesMeeting(n, rules)]]

\* What a subset is searched by: nothing while it is empty.
Constructed(k, rules) ==
  CASE rules = << >>               -> << >>
    [] rules # << >> /\ k = PSbig  -> [n \in {Root(k)} |-> [type |-> "TSS", rules |-> rules]]
    [] rules # << >> /\ k # PSbig  -> ConstructCutTSSTrie(k, rules)

\* Where the way of point x through tree k ends: at a leaf, or at no node.
Reached(k, x) ==
  LET Cuts(n) == n \in DOMAIN nodes /\ nodes[n].type = "Cuts"
  IN  Name(k, Max({i \in 0 .. W \div Bits(k) : \A j \in 0 .. i - 1 : Cuts(Name(k, j, x))}), x)

\* The updates follow the low ends of a rule's ranges.
Place(r) == Reached(CutTSSSubsetIndex(r), [d \in DOMAIN r.range |-> r.range[d][1]])

-----------------------------------------------------------------------------
(***************************************************************************)
(* Lookups.                                                                *)
(***************************************************************************)

trieLookup(k, p) ==
  LET n == Reached(k, p) IN
  CASE n \notin DOMAIN nodes                              -> -1
    [] n \in DOMAIN nodes /\ nodes[n].type = "TSS"    -> LinearScanPriority(Range(nodes[n].rules), p)
    [] n \in DOMAIN nodes /\ nodes[n].type = "Linear" -> FirstMatch(nodes[n].rules, p)

\* PSbig is passed over for the subset's list when it has few rules per tuple.
Search(k, p) ==
  IF k = PSbig /\ Root(k) \in DOMAIN nodes
       /\ Len(subset[k]) <= rtssleaf * NumTables(nodes[Root(k)].rules)
    THEN FirstMatch(subset[k], p)
    ELSE trieLookup(k, p)

\* A tree after the first is asked if its rules could still win.
Asked(k, p, match) ==
  IF k = 0 \/ maxPri[k] > match THEN Highest({match, Search(k, p)}) ELSE match

\* The trees are asked in turn.
ClassifyAPacket(p) == Asked(3, p, Asked(2, p, Asked(1, p, Asked(0, p, -1))))

-----------------------------------------------------------------------------
\* A classifier is constructed from at least one rule, listed by priority as
\* loadrule numbers them; rules of equal priority are in any order.
Init ==
  \E S \in (SUBSET Rule) \ {{}} :
    \E list \in {v \in SetToSeqs(S) : InDescendingOrder(v)} :
      /\ subset = partition(list)
      /\ maxPri = [k \in Tree |-> IF subset[k] = << >> THEN -1 ELSE subset[k][1].priority]
      /\ LET tree == [k \in Tree |-> Constructed(k, subset[k])]
         IN  nodes = [n \in UNION {DOMAIN tree[k] : k \in Tree} |-> tree[n[1]][n]]
      /\ built = S
      /\ live = [r \in Rule |-> IF r \in S THEN 1 ELSE 0]

\* A subset's tree is constructed when its first rule comes; then a rule goes
\* to the leaf its low ends lead to, or, where that is missing, to none.
InsertRule(r) ==
  LET k    == CutTSSSubsetIndex(r)
      n    == Place(r)
      list == InsertSortedByPriority(subset[k], r)
  IN
  /\ live[r] > 0 => SumFunction(live) < Cardinality(LiveRules) + MaxCopies
  /\ live' = [live EXCEPT ![r] = @ + 1]
  /\ subset' = [subset EXCEPT ![k] = list]
  /\ maxPri' = [maxPri EXCEPT ![k] = MaxPriorityOrMinusOne(list)]
  /\ \/ /\ Root(k) \notin DOMAIN nodes
        /\ LET tree == Constructed(k, list)
           IN  nodes' = [m \in DOMAIN nodes \cup DOMAIN tree |->
                           IF m \in DOMAIN nodes THEN nodes[m] ELSE tree[m]]
        /\ built' = built \cup {r}
     \/ /\ Root(k) \in DOMAIN nodes /\ n \in DOMAIN nodes
        /\ nodes' = [nodes EXCEPT ![n].rules = InsertSortedByPriority(@, r)]
        /\ UNCHANGED built
     \/ /\ Root(k) \in DOMAIN nodes /\ n \notin DOMAIN nodes
        /\ UNCHANGED <<nodes, built>>

\* The rules that a search does not tell from rule r.
SameEntry(r) ==
  {s \in Rule : /\ s.priority = r.priority
                /\ \A d \in {FieldSA, FieldDA} : /\ s.prefix_length[d] = r.prefix_length[d]
                                                 /\ s.range[d][1] = r.range[d][1]}

\* A search deletes a rule with the same tuple, low ends and priority.
PSTSSWithout(rules, r) == RemoveFirstOf(rules, SameEntry(r))

\* A slip: upper_bound.
LinearWithoutAfter(rules, r) == RemoveFirstOf(rules, {s \in Rule : s.priority < r.priority})

\* A list deletes what lower_bound finds: whatever rule comes first among
\* those whose priority is not greater.
LinearWithout(rules, r) == RemoveFirstOf(rules, {s \in Rule : s.priority <= r.priority})

DeleteRule(r) ==
  LET k    == CutTSSSubsetIndex(r)
      n    == Place(r)
      list == RemoveMatchingRule(subset[k], r)
  IN
  /\ live[r] > 0
  /\ live' = [live EXCEPT ![r] = @ - 1]
  /\ subset' = [subset EXCEPT ![k] = list]
  /\ maxPri' = [maxPri EXCEPT ![k] = MaxPriorityOrMinusOne(list)]
  /\ \/ /\ n \in DOMAIN nodes /\ nodes[n].type = "TSS"
        /\ nodes' = [nodes EXCEPT ![n].rules = PSTSSWithout(@, r)]
     \/ /\ n \in DOMAIN nodes /\ nodes[n].type = "Linear"
        /\ nodes' = [nodes EXCEPT ![n].rules = LinearWithout(@, r)]
     \/ /\ n \notin DOMAIN nodes
        /\ UNCHANGED nodes
  /\ UNCHANGED built

Next == \E r \in Rule : InsertRule(r) \/ DeleteRule(r)

Spec == Init /\ [][Next]_vars

-----------------------------------------------------------------------------
\* Each variable has its type.
TypeOK ==
  /\ subset \in [Tree -> Seq(Rule)]
  /\ maxPri \in [Tree -> Priority \cup {-1}]
  /\ \A n \in DOMAIN nodes :
       /\ n[1] \in Tree /\ n[2] \in 0 .. W
       /\ n[3] \in [CutTSSPartitionThresholds(n[1]) -> 0 .. 2^W - 1]
       /\ nodes[n] \in [type : {"Cuts", "Linear", "TSS"}, rules : Seq(Rule)]
  /\ built \in SUBSET Rule /\ live \in [Rule -> Nat]

\* However a rule came to its subset, by partition or by an update: a subset
\* lists the inserted rules that belong to it, every copy and by priority, and
\* maxPri is the priority of the first.
SubsetsExact ==
  \A k \in Tree :
    /\ \A r \in Rule :
         Count(subset[k], {r}) = IF CutTSSSubsetIndex(r) = k THEN live[r] ELSE 0
    /\ InDescendingOrder(subset[k])
    /\ maxPri[k] = MaxPriorityOrMinusOne(subset[k])

\* The rules that a leaf of this type does not tell from rule r.
Confused(type, r) ==
  IF type = "TSS" THEN SameEntry(r) ELSE {s \in Rule : s.priority = r.priority}

\* A node hangs from one that cuts; an update reaches a rule wherever the
\* construction put it.  A leaf holds as many rules of those it does not tell
\* from each other as were inserted and come to it, a list in order; but of
\* two such rules it may have lost the other one.
TreeInv ==
  LET place == [r \in Rule |-> Place(r)] IN
  \A n \in DOMAIN nodes :
    LET node == nodes[n]
        held == [r \in Rule |-> IF place[r] = n THEN live[r] ELSE 0]
    IN
    /\ n[2] > 0 => \E m \in DOMAIN nodes :
         /\ m[1] = n[1] /\ m[2] = n[2] - 1 /\ nodes[m].type = "Cuts"
         /\ \A d \in DOMAIN m[3] : n[3][d] \div 2^Bits(n[1]) = m[3][d]
    /\ node.type = "Cuts" => node.rules = << >> /\ \A r \in Rule : held[r] = 0
    /\ node.type # "Cuts" => \A r \in Rule :
         LET Same == Confused(node.type, r)
         IN  Count(node.rules, Same) = SumFunctionOnSet(held, Same)
    /\ node.type = "Linear" => InDescendingOrder(node.rules)

\* A packet is led to the leaf that the updates of rule r use.
Served(r, p) ==
  Reached(CutTSSSubsetIndex(r), p) = Place(r) /\ Place(r) \in DOMAIN nodes

\* No cut divides a rule the tree is constructed from: it is found by every
\* packet it matches, so it may be deleted and inserted again.
BuiltServed ==
  \A r \in built, p \in Packet : MatchesPacket(r, p) => Served(r, p)

\* Priorities that more than one rule has.
Shared == {q \in Priority : \E r, s \in Rule : r # s /\ r.priority = q /\ s.priority = q}

\* The answer is that of a scan of the inserted rules the packet is led to;
\* where it is not, a priority that rules share is the reason.
LookupServes ==
  \A p \in Packet :
    LET scan == LinearScanPriority({r \in LiveRules : MatchesPacket(r, p) /\ Served(r, p)}, p)
    IN  ClassifyAPacket(p) = scan \/ {ClassifyAPacket(p), scan} \cap Shared # {}

=============================================================================
