------------------------------- MODULE PSTSS -------------------------------
(***************************************************************************)
(* The priority-sorted tuple space search of OVS/TupleSpaceSearch.{h,cpp}: *)
(* PriorityTuple and PriorityTupleSpaceSearch.  Rules with the same prefix *)
(* lengths form a tuple; a tuple keeps its rules in a hash map, the        *)
(* multiset of their priorities and the greatest of them; a lookup visits  *)
(* the tuples by descending greatest priority and stops early.             *)
(*                                                                         *)
(* The hash map is used here as its interface offers it: a chain of nodes  *)
(* per hash.  A chain is in insertion order; the map links a new node in   *)
(* front, so a traversal meets the newest node first.                      *)
(*                                                                         *)
(* ConstructClassifier is a loop of InsertRule on an empty classifier, so  *)
(* the initial state is the empty classifier.                              *)
(***************************************************************************)
EXTENDS Rules, Sequences

CONSTANTS
  MaxCopies, Void,      (* As in Classifier.                                *)
  hash,                 (* The 32-bit hash of a pair of points: any         *)
                        (* function, so that two pairs may collide.         *)
  DistinctPriorities    (* Whether the client keeps the priorities of the   *)
                        (* rules it has inserted distinct, as loadrule      *)
                        (* assigns them; copies of a rule are allowed.      *)

ASSUME CopiesAssumption == MaxCopies \in Nat \ {0} /\ DistinctPriorities \in BOOLEAN

(***************************************************************************)
(* The key of a tuple: the prefix lengths of the address fields, 6 bits    *)
(* each, so that different lengths never share a key.                      *)
(***************************************************************************)
KeyRulePrefix(r) == <<r.prefix_length[FieldSA], r.prefix_length[FieldDA]>>

\* A rule hashes its low end as it stands; a packet is masked first.
HashRule(r) == hash[<<r.range[FieldSA][1], r.range[FieldDA][1]>>]

HashPacket(lengths, p) ==
  hash[<<Masked(p[FieldSA], lengths[1]), Masked(p[FieldDA], lengths[2])>>]

Key  == {KeyRulePrefix(r) : r \in Rule}
Hash == {hash[x] : x \in DOMAIN hash}

(***************************************************************************)
(* What a client owes: the low end of an address range is a prefix without *)
(* host bits, so that a packet the rule matches hashes, masked by the      *)
(* rule's lengths, like the rule itself.  loadrule keeps the host bits a   *)
(* file may carry, so this is a contract on the rule file.                 *)
(***************************************************************************)
ASSUME HashAssumption ==
  /\ \A r \in Rule : HashRule(r) \in Hash
  /\ \A r \in Rule, p \in Packet :
       /\ HashPacket(KeyRulePrefix(r), p) \in Hash
       /\ MatchesPacket(r, p) => HashPacket(KeyRulePrefix(r), p) = HashRule(r)

VARIABLES
  live,                    \* the client's view: copies of each rule inserted
  ret,                     \* what the last call returned
  running,                 \* FALSE once DeleteRule has called exit(0)
  all_priority_tuples,     \* the keys that have a tuple
  map_in_tuple,            \* per key and hash, the chain of rules
  priority_container,      \* per key, the multiset of priorities
  maxPriority,             \* per key, the greatest priority, or -1
  priority_tuples_vector   \* the tuples (by key) in the order of a lookup

tupleVars == <<all_priority_tuples, map_in_tuple, priority_container,
               maxPriority, priority_tuples_vector>>
vars == <<live, ret, running, tupleVars>>

LiveRules == {r \in Rule : live[r] > 0}

EmptyMap       == [h \in Hash |-> << >>]
EmptyContainer == [q \in Priority |-> 0]

-----------------------------------------------------------------------------
(***************************************************************************)
(* One tuple.                                                              *)
(***************************************************************************)

\* The rules of a chain, of a tuple's map, and of the whole classifier.
RulesOf(chain)  == {chain[i] : i \in DOMAIN chain}
RulesIn(map)    == UNION {RulesOf(map[h]) : h \in Hash}
StoredRules     == UNION {RulesIn(map_in_tuple[k]) : k \in Key}

\* The priorities a multiset holds.
Held(container) == {q \in Priority : container[q] > 0}

\* A slip to check the properties against: only the first node is looked at.
FindMatchPacketFirstOnly(k, p) ==
  LET chain == map_in_tuple[k][HashPacket(k, p)]
  IN  LinearScanPriority({r \in RulesOf(chain) : r = chain[Len(chain)]}, p)

\* Tuple::FindMatchPacket: the chain of the packet's hash, every node.
FindMatchPacket(k, p) ==
  LinearScanPriority(RulesOf(map_in_tuple[k][HashPacket(k, p)]), p)

\* The chain s without its i-th node.
Unlinked(s, i) == [j \in 1 .. Len(s) - 1 |-> IF j < i THEN s[j] ELSE s[j + 1]]

\* A slip: the whole chain goes with the node.
DeletionOfChain(map, r) == [map EXCEPT ![HashRule(r)] = << >>]

\* Tuple::Deletion: unlinks the first node met that has the rule's priority,
\* whichever rule that node holds, and does nothing if there is none.
Deletion(map, r) ==
  LET chain == map[HashRule(r)]
      hits  == {i \in DOMAIN chain : chain[i].priority = r.priority}
  IN  IF hits = {}
        THEN map
        ELSE LET newest == CHOOSE i \in hits : \A j \in hits : j <= i
             IN  [map EXCEPT ![HashRule(r)] = Unlinked(chain, newest)]

-----------------------------------------------------------------------------
(***************************************************************************)
(* The vector of tuples.                                                   *)
(***************************************************************************)

\* Every listing of the elements of S, each once.
Listings(S) ==
  {v \in [1 .. Cardinality(S) -> S] :
     /\ \A k \in S : \E i \in DOMAIN v : v[i] = k
     /\ \A i, j \in DOMAIN v : v[i] = v[j] => i = j}

\* RetainInvaraintOfPriorityVector: std::sort leaves tuples of equal
\* greatest priority in any order.
RetainInvaraintOfPriorityVector(keys, pri) ==
  \E v \in Listings(keys) :
    /\ \A i, j \in DOMAIN v : i < j => pri[v[j]] <= pri[v[i]]
    /\ priority_tuples_vector' = v

(***************************************************************************)
(* The loop of ClassifyAPacket.  The i-th tuple of v is reached unless the *)
(* loop has broken at it or before it: at a tuple whose greatest priority  *)
(* is below the best answer of the tuples already searched.                *)
(***************************************************************************)
BestOfFirst(n, p) ==
  Highest({FindMatchPacket(priority_tuples_vector[i], p) : i \in 1 .. n})

\* A slip: the first tuple with a match ends the lookup.
ReachedFirstMatch(i, p) == BestOfFirst(i - 1, p) = -1

Reached(i, p) ==
  \A j \in 1 .. i :
    BestOfFirst(j - 1, p) <= maxPriority[priority_tuples_vector[j]]

Lookup(p) ==
  Highest({FindMatchPacket(priority_tuples_vector[i], p) :
             i \in {j \in DOMAIN priority_tuples_vector : Reached(j, p)}})

-----------------------------------------------------------------------------
Init ==
  /\ live = [r \in Rule |-> 0]
  /\ ret = Void
  /\ running = TRUE
  /\ all_priority_tuples = {}
  /\ map_in_tuple = [k \in Key |-> EmptyMap]
  /\ priority_container = [k \in Key |-> EmptyContainer]
  /\ maxPriority = [k \in Key |-> -1]
  /\ priority_tuples_vector = << >>

\* A slip: the greatest priority of an existing tuple is not maintained.
RaisesNewOnly(k, r) == k \notin all_priority_tuples

\* Whether inserting r raises the greatest priority of tuple k.
Raises(k, r) == k \notin all_priority_tuples \/ r.priority > maxPriority[k]

\* InsertRule, both branches: PriorityTuple::Insertion into an existing tuple
\* re-sorts only when the greatest priority grows; a new tuple always does.
InsertRule(r) ==
  LET k == KeyRulePrefix(r) IN
  /\ running
  /\ live[r] < MaxCopies
  /\ DistinctPriorities => \A s \in LiveRules : s.priority = r.priority => s = r
  /\ live' = [live EXCEPT ![r] = @ + 1]
  /\ ret' = Void
  /\ all_priority_tuples' = all_priority_tuples \cup {k}
  /\ map_in_tuple' = [map_in_tuple EXCEPT ![k][HashRule(r)] = Append(@, r)]
  /\ priority_container' = [priority_container EXCEPT ![k][r.priority] = @ + 1]
  /\ \/ /\ Raises(k, r)
        /\ maxPriority' = [maxPriority EXCEPT ![k] = r.priority]
        /\ RetainInvaraintOfPriorityVector(all_priority_tuples', maxPriority')
     \/ /\ ~Raises(k, r)
        /\ UNCHANGED <<maxPriority, priority_tuples_vector>>
  /\ UNCHANGED running

\* A slip: every equal priority is erased from the multiset.
ErasedAllEqual(container, q) == [container EXCEPT ![q] = 0]

\* One occurrence of q is erased from the multiset.
Erased(container, q) == [container EXCEPT ![q] = @ - 1]

\* PriorityTuple::Deletion on the tuple k, which keeps other rules.
DeleteFromTuple(k, r, map) ==
  LET rest   == Erased(priority_container[k], r.priority)
      change == Held(rest) = {} \/ r.priority = maxPriority[k]
  IN
  /\ map_in_tuple' = [map_in_tuple EXCEPT ![k] = map]
  /\ priority_container' = [priority_container EXCEPT ![k] = rest]
  /\ \/ /\ change
        /\ maxPriority' = [maxPriority EXCEPT ![k] = Highest(Held(rest))]
        /\ RetainInvaraintOfPriorityVector(all_priority_tuples, maxPriority')
     \/ /\ ~change
        /\ UNCHANGED <<maxPriority, priority_tuples_vector>>
  /\ UNCHANGED all_priority_tuples

\* The deletion left the tuple k empty: it leaves the map and the vector and
\* is destroyed with its container, and the vector is sorted again.
DropTuple(k) ==
  /\ all_priority_tuples' = all_priority_tuples \ {k}
  /\ map_in_tuple' = [map_in_tuple EXCEPT ![k] = EmptyMap]
  /\ priority_container' = [priority_container EXCEPT ![k] = EmptyContainer]
  /\ maxPriority' = [maxPriority EXCEPT ![k] = -1]
  /\ RetainInvaraintOfPriorityVector(all_priority_tuples', maxPriority')

\* A client deletes only what it has inserted.
DeleteRule(r) ==
  LET k   == KeyRulePrefix(r)
      map == Deletion(map_in_tuple[k], r)
  IN
  /\ running
  /\ live[r] > 0
  /\ live' = [live EXCEPT ![r] = @ - 1]
  /\ ret' = Void
  /\ IF k \in all_priority_tuples
       THEN /\ IF map # EmptyMap THEN DeleteFromTuple(k, r, map) ELSE DropTuple(k)
            /\ UNCHANGED running
       ELSE /\ running' = FALSE    \* a warning and exit(0)
            /\ UNCHANGED tupleVars

ClassifyAPacket(p) ==
  /\ running
  /\ ret' = <<p, Lookup(p)>>
  /\ UNCHANGED <<live, running, tupleVars>>

Next ==
  \/ \E r \in Rule : InsertRule(r) \/ DeleteRule(r)
  \/ \E p \in Packet : ClassifyAPacket(p)

Spec == Init /\ [][Next]_vars

-----------------------------------------------------------------------------
\* Each variable has its type.
TypeOK ==
  /\ live \in [Rule -> 0 .. MaxCopies]
  /\ ret \in {Void} \cup (Packet \X (Priority \cup {-1}))
  /\ running \in BOOLEAN
  /\ all_priority_tuples \in SUBSET Key
  /\ map_in_tuple \in [Key -> [Hash -> Seq(Rule)]]
  /\ priority_container \in [Key -> [Priority -> Nat]]
  /\ maxPriority \in [Key -> Priority \cup {-1}]
  /\ priority_tuples_vector \in Seq(Key)

(***************************************************************************)
(* The invariants the lookup relies on.                                    *)
(***************************************************************************)

\* The places of a chain that hold a rule of X, and the copies of the rules
\* of X where n says how many there are of each.
Places(chain, X) == {i \in DOMAIN chain : chain[i] \in X}
Copies(n, X)         == {c \in X \X (1 .. MaxCopies) : c[2] <= n[c[1]]}

\* The rules of one tuple with one priority, and those that share a chain.
Peers(k, q)         == {r \in Rule : KeyRulePrefix(r) = k /\ r.priority = q}
ChainPeers(k, h, q) == {r \in Peers(k, q) : HashRule(r) = h}

\* A node sits in the tuple of its prefix lengths and the chain of its hash.
NodesPlaced ==
  \A k \in Key, h \in Hash :
    \A r \in RulesOf(map_in_tuple[k][h]) : KeyRulePrefix(r) = k /\ HashRule(r) = h

\* Of every priority, a chain holds as many nodes as the client has copies of
\* the rules that belong there.  A delete by priority may take the wrong node,
\* but never more or less than one.
ChainsCountCopies ==
  \A k \in Key, h \in Hash, q \in Priority :
    Cardinality(Places(map_in_tuple[k][h], ChainPeers(k, h, q)))
      = Cardinality(Copies(live, ChainPeers(k, h, q)))

\* The multiset of a tuple counts those copies too.
ContainerCountsCopies ==
  \A k \in Key, q \in Priority :
    priority_container[k][q] = Cardinality(Copies(live, Peers(k, q)))

\* The cached greatest priority of a tuple is that of its multiset.
MaxPriorityExact == \A k \in Key : maxPriority[k] = Highest(Held(priority_container[k]))

\* The vector lists exactly the tuples of the map, and those are not empty.
VectorListsTuples ==
  /\ all_priority_tuples = {k \in Key : Held(priority_container[k]) # {}}
  /\ RulesOf(priority_tuples_vector) = all_priority_tuples
  /\ \A i, j \in DOMAIN priority_tuples_vector :
       priority_tuples_vector[i] = priority_tuples_vector[j] => i = j

\* The vector is in descending order of the cached greatest priorities.
VectorSorted ==
  \A i, j \in DOMAIN priority_tuples_vector :
    i < j => maxPriority[priority_tuples_vector[j]]
               <= maxPriority[priority_tuples_vector[i]]

\* While the client keeps priorities distinct, the chains hold exactly the
\* rules it has inserted, each as often as it has.
ChainsHoldLive ==
  /\ \A r, s \in LiveRules : r.priority = s.priority => r = s
  /\ \A r \in Rule :
       Cardinality(Places(map_in_tuple[KeyRulePrefix(r)][HashRule(r)], {r})) = live[r]

\* The inductive invariant.
IndexInv ==
  /\ NodesPlaced
  /\ ChainsCountCopies
  /\ ContainerCountsCopies
  /\ MaxPriorityExact
  /\ VectorListsTuples
  /\ VectorSorted
  /\ DistinctPriorities => ChainsHoldLive

(***************************************************************************)
(* Properties.                                                             *)
(***************************************************************************)

\* The early exit of the lookup and the hashing lose nothing: for every
\* packet the answer is that of a scan of all rules stored in any tuple.
PruningLosesNothing ==
  \A p \in Packet : Lookup(p) = LinearScanPriority(StoredRules, p)

\* While the client keeps priorities distinct, the answer is that of a scan of
\* the rules it has inserted and not deleted.
LookupIsLinearScan ==
  DistinctPriorities => \A p \in Packet : Lookup(p) = LinearScanPriority(LiveRules, p)

\* The process never stops in the exit(0) of a delete.
NeverExits == running

\* Every behaviour of the tuple space search is one of the abstract classifier.
Abstract == INSTANCE Classifier
ImplementsClassifier == Abstract!Spec

\* A delete takes out the rule it was given: no packet that the deleted rule
\* does not match gets another answer.
DeleteKeepsNeighbours ==
  [][\A r \in Rule :
       live'[r] < live[r] =>
         \A p \in Packet : ~MatchesPacket(r, p) => Lookup(p)' = Lookup(p)]_vars

=============================================================================
