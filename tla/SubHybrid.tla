----------------------------- MODULE SubHybrid -----------------------------
(***************************************************************************)
(* The tree of a HybridTSS classifier: the nodes (SubHybridTSS.cpp) and    *)
(* the loop that builds them (buildTreeFromQTable, ConstructBaseline and   *)
(* getAction of HybridTSS.cpp), then the updates and the lookups.          *)
(*                                                                         *)
(* A Hash node looks at the first bits of one field: a rule whose prefix   *)
(* is shorter than that goes to the node's bigClassifier, any other to the *)
(* child of its key.  A lookup asks the bigClassifier after the child, and *)
(* only if the greatest priority it was built with could still win.        *)
(*                                                                         *)
(* A node is named by its path, the sequence of keys, or Big, from the     *)
(* root; a null pointer is a path without a node.  A TupleMerge leaf is    *)
(* kept as the list of its rules: that it answers like that list is what   *)
(* module TupleMerge shows.                                                *)
(***************************************************************************)
EXTENDS RuleLists

CONSTANTS
  Width,          (* Bits of each field a node may hash: <<32, 32, 16, 16>>.  *)
  LeastBit,       (* The fewest bits it may look at: <<12, 12, 9, 9>>.        *)
  Op,             (* What may be added to them: 0..15, or 0..7 for a port.    *)
  binth,          (* A node with fewer rules is a list.                       *)
  rtssleaf,       (* <<n, d>>: a node with at most n/d rules per tuple is     *)
                  (* a TupleMerge leaf.                                       *)
  inflation       (* hash_inflation: slots of a hash table per rule.          *)

Dim == DOMAIN Width

ASSUME SubHybridAssumption ==
  /\ Width \in Seq(1 .. 32) /\ Width # << >>
  /\ \A d \in Dim :
       /\ LeastBit[d] \in Nat \ {0} /\ Op[d] \subseteq 0 .. 15
       /\ \A o \in Op[d] : LeastBit[d] + o <= Width[d]
  /\ binth \in Nat /\ inflation \in Nat \ {0}
  /\ \A r, s \in Rule : r.priority = s.priority /\ r.id = s.id => r = s

(***************************************************************************)
(* The prefix length of a field is that of the longest prefix its range    *)
(* has in common, or less: the points agree in that prefix and in every    *)
(* shorter one.                                                            *)
(***************************************************************************)
ASSUME PrefixAssumption ==
  /\ \A p \in Packet : \A d \in Dim : p[d] \in Nat
  /\ \A r \in Rule : Dim \subseteq DOMAIN r.range /\ \A d \in Dim :
       /\ r.range[d][1] \in Nat /\ r.range[d][2] \in Nat
       /\ r.prefix_length[d] \in 0 .. Width[d]
       /\ \A len \in 0 .. r.prefix_length[d], x \in r.range[d][1] .. r.range[d][2] :
            x \div 2^(Width[d] - len) = r.range[d][1] \div 2^(Width[d] - len)

\* Of powers the proofs know no more than this, which TLC works out.
ASSUME PowersAssumption ==
  2^0 = 1 /\ 2^30 \in Nat /\ \A n \in 0 .. 29 : 2^n \in Nat /\ 2^(n + 1) = 2 * 2^n

VARIABLES
  nodes,    \* the node at each path that has one
  queue,    \* the paths of the nodes that are still to be built
  policy,   \* the greedy action of each Q-table row looked at so far
  built,    \* the rules the tree is built from
  live      \* the client's view: the rules built or inserted, not deleted

vars == <<nodes, queue, policy, built, live>>

Big == -1
Ready == queue = << >>

-----------------------------------------------------------------------------
(***************************************************************************)
(* Hashing.                                                                *)
(***************************************************************************)

\* A slip: the table is not kept larger than the rules.
HashBitsOfRules(count, bit) == Min({n \in 0 .. 30 : n > bit \/ n = 30 \/ 2^n >= count})

\* nHashBit: the table has 2^nHashBit slots.
HashBits(count, bit) ==
  Min({n \in 0 .. 30 : n > bit \/ n = 30 \/ 2^n - 1 >= count * inflation})

\* getKey folds the first bits of the point x: chunks of nHashBit bits that
\* overlap by one are combined by exclusive or.  With one bit the loop of the
\* code shifts by nothing and does not end, see KeysTerminate.
getKey(node, x) ==
  LET t      == x \div 2^(Width[node.dim] - node.bit)
      One(i) == {k \in 0 .. node.bit : (t \div 2^(i + k * (node.nHashBit - 1))) % 2 = 1}
  IN  SumFunction([i \in 0 .. node.nHashBit - 1 |-> 2^i * (Cardinality(One(i)) % 2)])

\* A slip: a prefix one bit too short is hashed too.
StepOneShort(node, r) ==
  IF r.prefix_length[node.dim] + 1 < node.bit THEN Big
                                              ELSE getKey(node, r.range[node.dim][1])

\* Where a Hash node sends a rule.
Step(node, r) ==
  IF r.prefix_length[node.dim] < node.bit THEN Big
                                          ELSE getKey(node, r.range[node.dim][1])

\* The path the updates follow for rule r.  It may end without a node.
Place(r) ==
  FoldSet(LAMBDA d, n : IF n \in DOMAIN nodes /\ nodes[n].fun = "Hash"
                          THEN Append(n, Step(nodes[n], r))
                          ELSE n,
          << >>, Dim)

-----------------------------------------------------------------------------
(***************************************************************************)
(* Nodes.                                                                  *)
(***************************************************************************)

\* The state holds, per field, the op it has been hashed with, or -1.
Unhashed == [d \in Dim |-> -1]

NewNode(state, rules) ==
  [fun |-> "new", state |-> state, rules |-> rules,
   dim |-> 1, bit |-> 0, nHashBit |-> 0, maxBigPriority |-> -1, reward |-> 0]

\* A slip: the field is not marked as hashed.
ChildStateUnmarked(node, x) == node.state

\* The field is marked as hashed; a bigClassifier has op 0.
ChildState(node, x) ==
  [node.state EXCEPT ![node.dim] = IF x = Big THEN 0 ELSE node.bit - LeastBit[node.dim]]

RulesFor(node, x) == Only(node.rules, {r \in Rule : Step(node, r) = x})

\* The node that ConstructClassifier makes of a new node by an action.
Constructed(node, op) ==
  IF op[1] # "Hash"
    THEN [node EXCEPT !.fun = op[1]]
    ELSE LET bit  == LeastBit[op[2]] + op[3]
             hash == [node EXCEPT !.fun = "Hash", !.dim = op[2], !.bit = bit,
                                  !.nHashBit = HashBits(Len(node.rules), bit)]
         IN  [hash EXCEPT !.maxBigPriority =
                Highest({r.priority : r \in Range(RulesFor(hash, Big))})]

\* A slip: a leaf's cost is not passed on beyond the node above it.
addRewardToParent(n, m, rew) == IF m \in {n, Front(n)} THEN rew ELSE 0

\* What the construction of node n adds to the reward of node m: the cost of a
\* TupleMerge leaf goes to the leaf and to all nodes above it.
addReward(n, m, rew) == IF IsPrefix(m, n) THEN rew ELSE 0

\* The slots of the table that a Hash node has, and then its bigClassifier.
Steps(node) == [i \in 1 .. 2^node.nHashBit + 1 |-> IF i <= 2^node.nHashBit THEN i - 1 ELSE Big]

\* The steps to its children, in the order they are queued.
ChildSteps(node) ==
  IF node.fun = "Hash" THEN Only(Steps(node), {Step(node, r) : r \in Range(node.rules)}) ELSE << >>

\* The actions getAction may choose when it builds: the greedy one of the
\* node's row of the Q-table, which is any, but the same for equal states.
getAction(node) ==
  LET keys == {<<r.prefix_length[1], r.prefix_length[2]>> : r \in Range(node.rules)}
      free == {d \in Dim : node.state[d] = -1}
  IN  CASE Len(node.rules) < binth -> {<<"linear", -1, -1>>}
        [] Len(node.rules) >= binth
             /\ \/ rtssleaf[2] * Len(node.rules) <= rtssleaf[1] * Cardinality(keys)
                \/ free = {} -> {<<"TM", -1, -1>>}
        [] OTHER -> IF node.state \in DOMAIN policy
                      THEN {policy[node.state]}
                      ELSE UNION {{<<"Hash", d, o>> : o \in Op[d]} : d \in free}

-----------------------------------------------------------------------------
(***************************************************************************)
(* The rule list of a leaf.                                                *)
(***************************************************************************)

\* Among the rules of equal priority, the first with the id; none, if absent.
ListWithout(list, r) ==
  RemoveFirstOf(list, {s \in Rule : s.priority = r.priority /\ s.id = r.id})

\* ClassifyAPacket, from the root down.
Lookup(p) ==
  LET answer[n \in DOMAIN nodes] ==
        LET node  == nodes[n]
            child == Append(n, getKey(node, p[node.dim]))
            match == CASE node.fun = "linear" -> FirstMatch(node.rules, p)
                       [] node.fun = "TM"     -> LinearScanPriority(Range(node.rules), p)
                       [] node.fun = "Hash"   -> IF child \in DOMAIN nodes
                                                   THEN answer[child] ELSE -1
            big   == Append(n, Big)
        IN  IF big \in DOMAIN nodes /\ match < node.maxBigPriority
              THEN Highest({match, answer[big]})
              ELSE match
  IN  answer[<< >>]

-----------------------------------------------------------------------------
\* A classifier is built from at least one rule, listed by priority as
\* loadrule numbers them; rules of equal priority are in any order.
Init ==
  \E S \in (SUBSET Rule) \ {{}} :
    \E list \in {v \in SetToSeqs(S) : InDescendingOrder(v)} :
      /\ nodes = [n \in {<< >>} |-> NewNode(Unhashed, list)]
      /\ queue = << << >> >>
      /\ policy = << >>
      /\ built = S
      /\ live = S

\* One turn of the loop that builds the tree: the node at the head of the
\* queue is constructed and its children are queued.
BuildNode ==
  /\ ~Ready
  /\ \E op \in getAction(nodes[Head(queue)]) :
       LET n     == Head(queue)
           node  == Constructed(nodes[n], op)
           steps == ChildSteps(node)
           Child == {Append(n, x) : x \in Range(steps)}
           cost  == IF op[1] = "TM" THEN -Len(node.rules) ELSE 0
       IN
       /\ nodes' = [m \in DOMAIN nodes \cup Child |->
                      IF m \in Child
                        THEN NewNode(ChildState(node, Last(m)), RulesFor(node, Last(m)))
                        ELSE [(CASE m # n                     -> nodes[m]
                                 [] m = n /\ op[1] = "Hash"  -> [node EXCEPT !.rules = << >>]
                                 [] m = n /\ op[1] # "Hash"  -> node)
                                EXCEPT !.reward = @ + addReward(n, m, cost)]]
       /\ queue' = Tail(queue) \o [i \in DOMAIN steps |-> Append(n, steps[i])]
       /\ policy' = IF op[1] = "Hash"
                      THEN [s \in DOMAIN policy \cup {node.state} |->
                              IF s = node.state THEN op ELSE policy[s]]
                      ELSE policy
  /\ UNCHANGED <<built, live>>

\* InsertRule: into the leaf the rule comes to; where there is none, into a
\* new list, or nowhere if it is a bigClassifier that is missing.
InsertRule(r) ==
  LET n == Place(r) IN
  /\ Ready
  /\ r \notin live
  /\ live' = live \cup {r}
  /\ \/ /\ n \in DOMAIN nodes
        /\ nodes' = [nodes EXCEPT ![n].rules = InsertSortedByPriority(@, r)]
     \/ /\ n \notin DOMAIN nodes /\ Last(n) # Big
        /\ LET child == NewNode(ChildState(nodes[Front(n)], Last(n)), <<r>>)
           IN  nodes' = [m \in DOMAIN nodes \cup {n} |->
                           IF m = n THEN [child EXCEPT !.fun = "linear"] ELSE nodes[m]]
     \/ /\ n \notin DOMAIN nodes /\ Last(n) = Big
        /\ UNCHANGED nodes
  /\ UNCHANGED <<queue, policy, built>>

DeleteRule(r) ==
  LET n == Place(r) IN
  /\ Ready
  /\ r \in live
  /\ live' = live \ {r}
  /\ \/ /\ n \in DOMAIN nodes
        /\ nodes' = [nodes EXCEPT ![n].rules = ListWithout(@, r)]
     \/ /\ n \notin DOMAIN nodes
        /\ UNCHANGED nodes
  /\ UNCHANGED <<queue, policy, built>>

Next == BuildNode \/ \E r \in Rule : InsertRule(r) \/ DeleteRule(r)

Spec == Init /\ [][Next]_vars

-----------------------------------------------------------------------------
\* Each variable has its type.
TypeOK ==
  /\ \A n \in DOMAIN nodes :
       /\ n \in Seq(Nat \cup {Big})
       /\ nodes[n] \in [fun : {"new", "linear", "TM", "Hash"}, state : [Dim -> -1 .. 15],
                        rules : Seq(Rule), dim : Dim, bit : 0 .. 32, nHashBit : 0 .. 30,
                        maxBigPriority : Priority \cup {-1}, reward : Int]
  /\ queue \in Seq(DOMAIN nodes)
  /\ DOMAIN policy \subseteq [Dim -> -1 .. 15]
  /\ built \in SUBSET Rule /\ live \in SUBSET Rule

\* A node hangs from a Hash node, within its table, and its state tells which
\* fields the nodes above it hash and how; no field is hashed twice.
NodesHang ==
  \A n \in DOMAIN nodes \ {<< >>} :
    /\ Front(n) \in DOMAIN nodes /\ nodes[Front(n)].fun = "Hash"
    /\ Last(n) \in -1 .. 2^nodes[Front(n)].nHashBit - 1
    /\ nodes[n].state = ChildState(nodes[Front(n)], Last(n))
    /\ Len(n) = Cardinality({d \in Dim : nodes[n].state[d] # -1})

\* The nodes still to be built are queued, each once.
QueueExact ==
  /\ Range(queue) = {n \in DOMAIN nodes : nodes[n].fun = "new"}
  /\ IsInjective(queue)

\* A leaf holds, in order and once each, the inserted rules that come to it.
LeavesHoldLive ==
  \A n \in DOMAIN nodes :
    /\ InDescendingOrder(nodes[n].rules) /\ IsInjective(nodes[n].rules)
    /\ nodes[n].fun # "Hash" => Range(nodes[n].rules) = {r \in live : Place(r) = n}
    /\ nodes[n].fun = "Hash" => nodes[n].rules = << >>

\* A lookup finds r: on its way, every bigClassifier exists and its node was
\* built with a rule of no lower priority in it.
Served(r) ==
  \A i \in DOMAIN Place(r) :
    LET above == SubSeq(Place(r), 1, i - 1) IN
    Place(r)[i] = Big => /\ Append(above, Big) \in DOMAIN nodes
                         /\ r.priority <= nodes[above].maxBigPriority

\* The reward of a node, from which the Q-table learns, is what lies below it:
\* minus the rules the tree is built from that end in a TupleMerge leaf there.
RewardIsCostBelow ==
  \A n \in DOMAIN nodes :
    nodes[n].reward = -Cardinality({r \in built : /\ Place(r) \in DOMAIN nodes
                                                  /\ nodes[Place(r)].fun = "TM"
                                                  /\ IsPrefix(n, Place(r))})

\* The tree is well formed, the updates find their leaves, and the rules it
\* is built from stay served, so they may be deleted and inserted again.
TreeInv ==
  /\ NodesHang
  /\ QueueExact
  /\ LeavesHoldLive
  /\ \A r \in built : Served(r)

\* Whatever is built, deleted and inserted, a lookup answers the priority of an
\* inserted rule that matches, and no inserted rule that it serves and that
\* matches has a greater one.
LookupServes ==
  Ready => \A p \in Packet :
    /\ Lookup(p) \in {-1} \cup {r.priority : r \in {s \in live : MatchesPacket(s, p)}}
    /\ LinearScanPriority({r \in live : Served(r)}, p) <= Lookup(p)

\* The loop of getKey shifts by at least one bit.
KeysTerminate == \A n \in DOMAIN nodes : nodes[n].fun = "Hash" => nodes[n].nHashBit >= 2

\* What the regression tests of updates expect: an inserted rule is in the tree.
InsertedIsStored == \A r \in live : Place(r) \in DOMAIN nodes

\* And: the answer is that of a scan of the rules in the tree.
LookupIsScanOfTree ==
  Ready => \A p \in Packet :
    Lookup(p) = LinearScanPriority(UNION {Range(nodes[n].rules) : n \in DOMAIN nodes}, p)

=============================================================================
