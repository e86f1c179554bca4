-------------------------------- MODULE Cmap --------------------------------
(***************************************************************************)
(* The cuckoo hash map of OVS/cmap.cpp as its one writer sees it: every    *)
(* hash may sit in two buckets of CMAP_K slots; nodes of equal hash are    *)
(* chained in one slot; an insertion may move slots along a path to make   *)
(* room, or draw a new basis and build all buckets again.                  *)
(*                                                                         *)
(* A hash is a pair of halves, the upper and the lower 16 bits; a mask has *)
(* at most 16 bits, so a bucket is chosen by the lower half.  A slot is    *)
(* empty when its chain is; an emptied slot keeps its hash, and the slots  *)
(* of a new bucket have hash zero, which a client may use as well.         *)
(*                                                                         *)
(* Insertion and removal loop over rehashes with random bases, so a call   *)
(* is several steps: call is the node being inserted, goal the mask of the *)
(* rehash that must succeed first.                                         *)
(***************************************************************************)
EXTENDS Integers, Sequences, FiniteSetsExt, SequencesExt

CONSTANTS
  Node, hashOf,      (* As in NodeMap.                                     *)
  None,              (* No node.                                           *)
  CMAP_K,            (* Slots per bucket: 5.                               *)
  MAX_DEPTH,         (* Limit of the search for a path: 4.                 *)
  MAX_QUEUE,         (* Limit of its queue: 500.                           *)
  MaxLoad, MinLoad,  (* Load limits in percent: 85 and 20.                 *)
  Basis,             (* What random_uint32 may return.                     *)
  hash_finish(_, _)  (* The hash of a basis and a hash: any function.      *)

(***************************************************************************)
(* The limits are such that the smallest map is never too empty and one    *)
(* that has doubled has room for a node more.                              *)
(***************************************************************************)
ASSUME CmapAssumption ==
  /\ None \notin Node
  /\ CMAP_K \in Nat \ {0} /\ MAX_DEPTH \in Nat /\ MAX_QUEUE \in Nat
  /\ MinLoad \in Nat /\ 2 * MinLoad < MaxLoad /\ MaxLoad \in 1 .. 100
  /\ CMAP_K * MinLoad <= 100 /\ 100 <= CMAP_K * MaxLoad

Zero == <<0, 0>>
Hash == {hashOf[x] : x \in Node}
Slot == 1 .. CMAP_K

ASSUME HashAssumption == \A b \in Basis : \A h \in Hash : hash_finish(b, h) \in Nat \X Nat

VARIABLES
  impl,   \* cmap_impl: mask, basis, n and buckets
  call,   \* the node cmap_insert is at work on, or None
  goal    \* the mask of the rehash to be done, or -1

vars == <<impl, call, goal>>

Idle == call = None /\ goal = -1

-----------------------------------------------------------------------------
(***************************************************************************)
(* Where a hash may be.                                                    *)
(***************************************************************************)

\* A slip: the limit is in percent of a slot.
calc_max_n_of_percent(mask) == (mask + 1) * CMAP_K * MaxLoad

\* The limits are fractions of 2^32 rounded down, so that a product that
\* would be whole stays one below.
calc_max_n(mask) == ((mask + 1) * CMAP_K * MaxLoad - 1) \div 100
calc_min_n(mask) == ((mask + 1) * CMAP_K * MinLoad - 1) \div 100

other_hash(h) == <<h[2], h[1]>>
BucketOf(im, h) == h[2] % (im.mask + 1)

\* The two buckets of a hash, which may be the same.
Candidates(im, hash) ==
  LET h1 == hash_finish(im.basis, hash)
  IN  <<BucketOf(im, h1), BucketOf(im, other_hash(h1))>>

other_bucket(im, b, hash) ==
  LET c == Candidates(im, hash) IN IF c[1] = b THEN c[2] ELSE c[1]

SlotsWith(im, b, hash) == {i \in Slot : im.buckets[b][i].hash = hash}
EmptySlots(im, b)      == {i \in Slot : im.buckets[b][i].chain = << >>}

\* cmap_find_in_bucket: the first slot with the hash, whatever it holds.
find_in_bucket(im, b, hash) ==
  LET hits == SlotsWith(im, b, hash)
  IN  IF hits = {} THEN << >> ELSE im.buckets[b][Min(hits)].chain

find(im, hash) ==
  LET c     == Candidates(im, hash)
      first == find_in_bucket(im, c[1], hash)
  IN  IF first # << >> THEN first ELSE find_in_bucket(im, c[2], hash)

\* cmap_find_protected takes its second bucket from the hash of the client.
find_protected(im, hash) ==
  LET first == find_in_bucket(im, Candidates(im, hash)[1], hash)
  IN  IF first # << >> THEN first
                       ELSE find_in_bucket(im, BucketOf(im, other_hash(hash)), hash)

-----------------------------------------------------------------------------
(***************************************************************************)
(* Insertion.  A plan is the sequence of stores an insertion makes: each   *)
(* sets one slot.  No plan means that the insertion fails.                 *)
(***************************************************************************)

Store(b, i, hash, chain) == [bucket |-> b, slot |-> i, hash |-> hash, chain |-> chain]

Applied(im, plan) ==
  [im EXCEPT !.buckets =
     FoldLeft(LAMBDA bs, s : [bs EXCEPT ![s.bucket][s.slot] = [hash  |-> s.hash,
                                                               chain |-> s.chain]],
              @, plan)]

\* A slip: the chain that the slot holds is not spliced.
DupPlansUnspliced(im, hash, chain, b) ==
  LET hits == SlotsWith(im, b, hash)
  IN  IF hits = {} THEN {} ELSE {<<Store(b, Min(hits), hash, chain)>>}

\* cmap_insert_dup: the first slot with the hash is used again, and a chain it
\* holds is spliced behind the new one.
DupPlans(im, hash, chain, b) ==
  LET hits == SlotsWith(im, b, hash)
  IN  IF hits = {} THEN {}
      ELSE {<<Store(b, Min(hits), hash, chain \o im.buckets[b][Min(hits)].chain)>>}

\* cmap_insert_bucket: the first empty slot.
BucketPlans(im, hash, chain, b) ==
  LET room == EmptySlots(im, b)
  IN  IF room = {} THEN {} ELSE {<<Store(b, Min(room), hash, chain)>>}

\* The buckets along a route: the candidate it starts from, then one per hop,
\* which is made from a slot.
StepsTo(im, hash, route) ==
  LET at[k \in 0 .. Len(route) - 1] ==
        IF k = 0 THEN Candidates(im, hash)[route[1]]
                 ELSE other_bucket(im, at[k - 1], im.buckets[at[k - 1]][route[k + 1]].hash)
  IN  at

\* The paths of n hops, each to another bucket, and those of them that end at a
\* bucket with room.
Paths(im, hash, n) ==
  {r \in [1 .. n + 1 -> 1 .. Max({2, CMAP_K})] :
     /\ r[1] \in 1 .. Cardinality(Range(Candidates(im, hash)))
     /\ LET at == StepsTo(im, hash, r)
        IN  \A k \in 1 .. n : r[k + 1] \in Slot /\ at[k] # at[k - 1]}

Routes(im, hash, n) ==
  {r \in Paths(im, hash, n) : EmptySlots(im, StepsTo(im, hash, r)[n]) # {}}

Before(r, s) ==
  \E k \in DOMAIN r : r[k] < s[k] /\ \A j \in 1 .. k - 1 : r[j] = s[j]

\* The paths in the queue ahead of the one that r prolongs by a hop.
Ahead(im, hash, r) ==
  LET n == Len(r) - 2
  IN  UNION {Paths(im, hash, m) : m \in 0 .. n - 1}
        \cup {p \in Paths(im, hash, n) : Before(p, r)}

\* The route that the breadth-first search finds first: a shortest one, and of
\* those the one whose slots come first, unless the queue is full before.
RoutesFound(im, hash) ==
  LET lengths == {n \in 1 .. MAX_DEPTH + 1 : Routes(im, hash, n) # {}}
      routes  == Routes(im, hash, Min(lengths))
      first   == CHOOSE r \in routes : \A s \in routes : r = s \/ Before(r, s)
  IN  IF lengths = {} THEN {}
      ELSE {r \in {first} : Cardinality(Ahead(im, hash, r)) < MAX_QUEUE}

\* A slip: the hashes stay where they are.
RoutePlansOfNodes(im, hash, chain) ==
  {LET n    == Len(r) - 1
       at   == StepsTo(im, hash, r)
       i(k) == IF k < n THEN r[k + 2] ELSE Min(EmptySlots(im, at[n]))
       moved(k) == im.buckets[at[k - 1]][i(k - 1)]
   IN  [j \in 1 .. n |-> LET k == n + 1 - j
                         IN  Store(at[k], i(k), im.buckets[at[k]][i(k)].hash, moved(k).chain)]
         \o <<Store(at[0], i(0), hash, chain)>> : r \in RoutesFound(im, hash)}

\* A slip: the slots of the route are moved on from its start.
RoutePlansForward(im, hash, chain) ==
  {LET n    == Len(r) - 1
       at   == StepsTo(im, hash, r)
       i(k) == IF k < n THEN r[k + 2] ELSE Min(EmptySlots(im, at[n]))
       moved(k) == im.buckets[at[k - 1]][i(k - 1)]
   IN  <<Store(at[0], i(0), hash, chain)>>
         \o [k \in 1 .. n |-> Store(at[k], i(k), moved(k).hash, moved(k).chain)]
     : r \in RoutesFound(im, hash)}

\* cmap_insert_bfs: the slots of the route are moved on from its end, and the
\* first one is set last.
RoutePlans(im, hash, chain) ==
  {LET n    == Len(r) - 1
       at   == StepsTo(im, hash, r)
       i(k) == IF k < n THEN r[k + 2] ELSE Min(EmptySlots(im, at[n]))
       moved(k) == im.buckets[at[k - 1]][i(k - 1)]
   IN  [j \in 1 .. n |-> LET k == n + 1 - j
                         IN  Store(at[k], i(k), moved(k).hash, moved(k).chain)]
         \o <<Store(at[0], i(0), hash, chain)>> : r \in RoutesFound(im, hash)}

\* cmap_try_insert: the first of the ways that works.
OrElse(plans, others) == IF plans # {} THEN plans ELSE others

Plans(im, hash, chain) ==
  LET c == Candidates(im, hash)
  IN  OrElse(DupPlans(im, hash, chain, c[1]),
      OrElse(DupPlans(im, hash, chain, c[2]),
      OrElse(BucketPlans(im, hash, chain, c[1]),
      OrElse(BucketPlans(im, hash, chain, c[2]),
             RoutePlans(im, hash, chain)))))

TryInsert(im, hash, chain) == {Applied(im, plan) : plan \in Plans(im, hash, chain)}

-----------------------------------------------------------------------------
NewImpl(mask, basis, n) ==
  [mask |-> mask, basis |-> basis, n |-> n,
   buckets |-> [b \in 0 .. mask |-> [i \in Slot |-> [hash |-> Zero, chain |-> << >>]]]]

\* cmap_try_rehash: the new implementation, or none if some chain has no place.
\* The slots of the old one are taken in their order.
TryRehash(old, mask, basis) ==
  LET slot(q) == old.buckets[(q - 1) \div CMAP_K][1 + ((q - 1) % CMAP_K)]
      made[q \in 0 .. (old.mask + 1) * CMAP_K] ==
        IF q = 0 THEN {NewImpl(mask, basis, old.n)}
        ELSE IF slot(q).chain = << >> THEN made[q - 1]
        ELSE UNION {TryInsert(im, slot(q).hash, slot(q).chain) : im \in made[q - 1]}
  IN  made[(old.mask + 1) * CMAP_K]

\* The chains of all slots, and the nodes that are in the map.
ChainsIn(im) == {im.buckets[b][i].chain : b \in DOMAIN im.buckets, i \in Slot}
NodesIn(im)  == UNION {Range(chain) : chain \in ChainsIn(im)}
Stored       == NodesIn(impl)

Init ==
  /\ \E b \in Basis : impl = NewImpl(0, b, 0)
  /\ call = None
  /\ goal = -1

\* cmap_insert is called: the map may have to grow first.
cmap_insert(x) ==
  /\ Idle
  /\ x \notin Stored
  /\ call' = x
  /\ goal' = IF impl.n >= calc_max_n(impl.mask) THEN 2 * impl.mask + 1 ELSE -1
  /\ UNCHANGED impl

\* One turn of its loop: the insertion works, or calls for a rehash.
InsertNode ==
  LET made == TryInsert(impl, hashOf[call], <<call>>) IN
  /\ call # None /\ goal = -1
  /\ \/ /\ made # {}
        /\ \E im \in made : impl' = [im EXCEPT !.n = @ + 1]
        /\ call' = None
        /\ UNCHANGED goal
     \/ /\ made = {}
        /\ goal' = impl.mask
        /\ UNCHANGED <<impl, call>>

\* cmap_rehash draws bases until one works; a draw that fails changes nothing.
Rehash(basis) ==
  /\ goal # -1
  /\ impl' \in TryRehash(impl, goal, basis)
  /\ goal' = -1
  /\ UNCHANGED call

\* The chain v with new, << >> or the replacement, in the place of x.
Spliced(v, x, new) ==
  LET at == CHOOSE j \in DOMAIN v : v[j] = x
  IN  SubSeq(v, 1, at - 1) \o new \o SubSeq(v, at + 1, Len(v))

\* cmap_replace__ in the first candidate that has a slot in use with the hash.
Replaced(im, x, new) ==
  LET hash == hashOf[x]
      c    == Candidates(im, hash)
      hits == {k \in 1 .. 2 : SlotsWith(im, c[k], hash) \ EmptySlots(im, c[k]) # {}}
      b    == c[Min(hits)]
      i    == Min(SlotsWith(im, b, hash) \ EmptySlots(im, b))
  IN  IF hits = {} THEN im
      ELSE [im EXCEPT !.buckets[b][i].chain = Spliced(@, x, new)]

\* cmap_remove: the map may have to shrink afterwards.
cmap_remove(x) ==
  /\ Idle
  /\ x \in Stored
  /\ impl' = [Replaced(impl, x, << >>) EXCEPT !.n = @ - 1]
  /\ goal' = IF impl'.n < calc_min_n(impl.mask) THEN impl.mask \div 2 ELSE -1
  /\ UNCHANGED call

\* cmap_replace with a replacement of the same hash.
cmap_replace(x, y) ==
  /\ Idle
  /\ x \in Stored /\ y \notin Stored /\ hashOf[x] = hashOf[y]
  /\ impl' = Replaced(impl, x, <<y>>)
  /\ UNCHANGED <<call, goal>>

Next ==
  \/ \E x \in Node : cmap_insert(x) \/ cmap_remove(x) \/ \E y \in Node : cmap_replace(x, y)
  \/ InsertNode
  \/ \E b \in Basis : Rehash(b)

(***************************************************************************)
(* A call that has begun goes on, and random_uint32 draws every basis again *)
(* and again: WF_vars(InsertNode) and SF_vars(Rehash(b)) for every b, with  *)
(* ENABLED written out, which TLC evaluates faster.                        *)
(***************************************************************************)
CanInsertNode == call # None /\ goal = -1
CanRehash(b)  == goal # -1 /\ TryRehash(impl, goal, b) # {}

Fairness ==
  /\ []<>~CanInsertNode \/ []<><<InsertNode>>_vars
  /\ \A b \in Basis : <>[]~CanRehash(b) \/ []<><<Rehash(b)>>_vars

Spec == Init /\ [][Next]_vars /\ Fairness

-----------------------------------------------------------------------------
\* Each variable has its type.
TypeOK ==
  /\ impl.mask \in Nat /\ impl.basis \in Basis /\ impl.n \in Nat
  /\ impl.buckets \in [0 .. impl.mask -> [Slot -> [hash : Hash \cup {Zero}, chain : Seq(Node)]]]
  /\ call \in Node \cup {None}
  /\ goal \in Nat \cup {-1}

\* A hash is in use in one slot at most, in one of its two buckets, and its
\* chain holds nodes of that hash, each once.
OneChainPerHash ==
  \A b \in DOMAIN impl.buckets : \A i \in Slot \ EmptySlots(impl, b) :
       LET s == impl.buckets[b][i]
       IN  /\ \A c \in DOMAIN impl.buckets : \A j \in Slot \ EmptySlots(impl, c) :
                impl.buckets[c][j].hash = s.hash => c = b /\ j = i
           /\ b \in Range(Candidates(impl, s.hash))
           /\ IsInjective(s.chain) /\ \A x \in Range(s.chain) : hashOf[x] = s.hash

\* An emptied slot that kept its hash hides no chain: the first slot with a
\* hash in use is the one in use.
NothingHidden ==
  \A x \in Stored : x \in Range(find(impl, hashOf[x]))

\* n counts the nodes and stays within the limits of the size.
CountExact ==
  /\ impl.n = Cardinality(Stored)
  /\ Idle => /\ impl.n <= calc_max_n(impl.mask)
             /\ impl.n >= calc_min_n(impl.mask)

\* Together, with the type invariant.
MapInv == TypeOK /\ OneChainPerHash /\ NothingHidden /\ CountExact

\* Both buckets of the hash are full of others.
Crowded(im, hash) ==
  \A b \in Range(Candidates(im, hash)) : SlotsWith(im, b, hash) \cup EmptySlots(im, b) = {}

\* Where an insertion needs it, the search for room finds a path that visits no
\* bucket twice, so that moving its slots backward overwrites none that is still
\* to be moved.
RoutesAreSimple ==
  \A h \in {x \in Hash : Crowded(impl, x)} : \A r \in RoutesFound(impl, h) :
    IsInjective(StepsTo(impl, h, r))

\* Whatever slots an insertion has to move: after each of its stores a search
\* still finds every node of the map.
VisibleWhileMoved ==
  CanInsertNode =>
    \A plan \in Plans(impl, hashOf[call], <<call>>) : \A k \in 0 .. Len(plan) :
      \A x \in Stored : x \in Range(find(Applied(impl, SubSeq(plan, 1, k)), hashOf[x]))

\* Moves along a path lose and hide nothing.
MovesInv == RoutesAreSimple /\ VisibleWhileMoved

\* For its writer the map behaves as a chain per hash, whatever moves and
\* rehashes happen in between.
Abstract == INSTANCE NodeMap
              WITH chains <- [h \in Hash |-> find(impl, h)], count <- impl.n
ImplementsNodeMap == Abstract!Spec

\* Every call returns.
CallsReturn == ~Idle ~> Idle

\* What the comment on cmap_find_protected says: it is like cmap_find while
\* the map does not change.
ProtectedIsLikeFind == \A h \in Hash : find_protected(impl, h) = find(impl, h)

=============================================================================
