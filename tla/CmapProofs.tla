----------------------------- MODULE CmapProofs -----------------------------
(***************************************************************************)
(* That the cuckoo hash map keeps, for its writer, one chain per hash:     *)
(* whatever an insertion moves and a rehash builds again, a search finds   *)
(* the chain, n counts the nodes, and every step is a step of NodeMap.     *)
(***************************************************************************)
EXTENDS Cmap, FoldLemmas

Content  == [hash : Hash \cup {Zero}, chain : Seq(Node)]
Table(m) == [0 .. m -> [Slot -> Content]]

IsImpl(im) ==
  /\ im = [mask |-> im.mask, basis |-> im.basis, n |-> im.n, buckets |-> im.buckets]
  /\ im.mask \in Nat /\ im.basis \in Basis /\ im.n \in Int
  /\ im.buckets \in Table(im.mask)

\* What the slot i of bucket b holds.
HashAt(im, b, i)  == im.buckets[b][i].hash
ChainAt(im, b, i) == im.buckets[b][i].chain
Used(im, b, i)    == ChainAt(im, b, i) # << >>

\* A chain of nodes of the hash g, each once.
ChainOf(g, chain) ==
  chain \in Seq(Node) /\ IsInjective(chain) /\ \A x \in Range(chain) : hashOf[x] = g

\* The slot is where a search for the hash looks first among those that have
\* the hash.
Foremost(im, g, b, i) ==
  /\ b = Candidates(im, g)[1] \/ b = Candidates(im, g)[2]
  /\ \A j \in Slot : j < i => HashAt(im, b, j) # g
  /\ b # Candidates(im, g)[1] => \A j \in Slot : HashAt(im, Candidates(im, g)[1], j) # g

\* The slot that is in use is the foremost of its hash and holds its chain.
InPlace(im, F, b, i) ==
  /\ HashAt(im, b, i) \in Hash
  /\ ChainAt(im, b, i) = F[HashAt(im, b, i)]
  /\ Foremost(im, HashAt(im, b, i), b, i)

Chains(F) == F \in [Hash -> Seq(Node)] /\ \A g \in Hash : ChainOf(g, F[g])

Sits(im, g, b, i) == Used(im, b, i) /\ HashAt(im, b, i) = g

\* The map holds the chain F[g] of every hash g, and nothing else.
Holds(im, F) ==
  /\ IsImpl(im) /\ Chains(F)
  /\ \A b \in 0 .. im.mask : \A i \in Slot : Used(im, b, i) => InPlace(im, F, b, i)
  /\ \A g \in Hash : F[g] # << >> => \E b \in 0 .. im.mask : \E i \in Slot : Sits(im, g, b, i)

-----------------------------------------------------------------------------
(***************************************************************************)
(* Where a hash may be and what is found there.                            *)
(***************************************************************************)

LEMMA SlotsAre == Slot \in SUBSET Nat /\ CMAP_K \in Nat /\ CMAP_K >= 1 /\ 1 \in Slot
BY CmapAssumption DEF Slot

LEMMA NodesHaveHashes == \A x \in Node : hashOf[x] \in Hash
BY DEF Hash

LEMMA ContentIs ==
  ASSUME NEW im, IsImpl(im), NEW b \in 0 .. im.mask, NEW i \in Slot
  PROVE  /\ HashAt(im, b, i) \in Hash \cup {Zero} /\ ChainAt(im, b, i) \in Seq(Node)
         /\ im.buckets[b][i] = [hash |-> HashAt(im, b, i), chain |-> ChainAt(im, b, i)]
         /\ im.buckets[b] \in [Slot -> Content]
<1>1. im.buckets[b] \in [Slot -> Content]
  BY DEF IsImpl, Table
<1>2. im.buckets[b][i] \in Content
  BY <1>1
<1> QED BY <1>1, <1>2 DEF HashAt, ChainAt, Content

LEMMA CandidatesAre ==
  ASSUME NEW im, IsImpl(im), NEW g \in Hash
  PROVE  /\ Candidates(im, g)[1] \in 0 .. im.mask /\ Candidates(im, g)[2] \in 0 .. im.mask
         /\ Range(Candidates(im, g)) = {Candidates(im, g)[1], Candidates(im, g)[2]}
<1>1. PICK h \in Nat \X Nat : h = hash_finish(im.basis, g)
  BY HashAssumption DEF IsImpl
<1>2. im.mask \in Nat /\ h[1] \in Nat /\ h[2] \in Nat
  BY <1>1 DEF IsImpl
<1> DEFINE m == im.mask + 1
           u == h[2] % m
           v == h[1] % m
<1>3. u \in 0 .. im.mask /\ v \in 0 .. im.mask
  BY <1>2
<1>4. Candidates(im, g) = <<u, v>>
  BY <1>1 DEF Candidates, BucketOf, other_hash
<1> HIDE DEF u, v
<1> QED BY <1>3, <1>4 DEF Range

LEMMA SameCandidates ==
  ASSUME NEW im, NEW im2, im2.mask = im.mask, im2.basis = im.basis, NEW g
  PROVE  Candidates(im2, g) = Candidates(im, g)
BY DEF Candidates, BucketOf

\* A hash sits in one slot at most.
LEMMA OnlyOne ==
  ASSUME NEW im, NEW F, Holds(im, F),
         NEW b \in 0 .. im.mask, NEW i \in Slot, NEW c \in 0 .. im.mask, NEW j \in Slot,
         NEW g, Sits(im, g, b, i), Sits(im, g, c, j)
  PROVE  b = c /\ i = j
<1>1. Foremost(im, g, b, i) /\ Foremost(im, g, c, j)
  BY DEF Holds, Sits, InPlace
<1>2. HashAt(im, b, i) = g /\ HashAt(im, c, j) = g /\ i \in Nat /\ j \in Nat
  BY SlotsAre DEF Sits
<1>3. b = c
  BY <1>1, <1>2 DEF Foremost
<1>4. ~(i < j) /\ ~(j < i)
  BY <1>1, <1>2, <1>3 DEF Foremost
<1> QED BY <1>2, <1>3, <1>4

LEMMA FoundInBucket ==
  ASSUME NEW im, IsImpl(im), NEW b \in 0 .. im.mask, NEW g
  PROVE  /\ (\A j \in Slot : HashAt(im, b, j) # g) => find_in_bucket(im, b, g) = << >>
         /\ \A i \in Slot : /\ HashAt(im, b, i) = g
                            /\ \A j \in Slot : j < i => HashAt(im, b, j) # g
                            => find_in_bucket(im, b, g) = ChainAt(im, b, i)
         /\ \/ \A j \in Slot : HashAt(im, b, j) # g
            \/ /\ Min(SlotsWith(im, b, g)) \in Slot
               /\ HashAt(im, b, Min(SlotsWith(im, b, g))) = g
               /\ \A j \in Slot : j < Min(SlotsWith(im, b, g)) => HashAt(im, b, j) # g
<1> DEFINE S == SlotsWith(im, b, g)
<1>1. S \in SUBSET Nat /\ \A i : i \in S <=> i \in Slot /\ HashAt(im, b, i) = g
  BY SlotsAre DEF SlotsWith, HashAt
<1>2. find_in_bucket(im, b, g) = IF S = {} THEN << >> ELSE ChainAt(im, b, Min(S))
  BY DEF find_in_bucket, ChainAt
<1> HIDE DEF S
<1>3. S # {} => Min(S) \in S /\ \A i \in S : Min(S) <= i
  BY <1>1, MinIs
<1>4. ASSUME NEW i \in Slot, HashAt(im, b, i) = g, \A j \in Slot : j < i => HashAt(im, b, j) # g
      PROVE  find_in_bucket(im, b, g) = ChainAt(im, b, i)
  <2>1. i \in S /\ S # {}
    BY <1>1, <1>4
  <2>2. Min(S) \in S /\ Min(S) <= i /\ Min(S) \in Nat /\ i \in Nat
    BY <1>1, <1>3, <2>1
  <2>3. Min(S) = i
    BY <1>1, <1>4, <2>2
  <2> QED BY <1>2, <2>1, <2>3
<1>5. (\A j \in Slot : HashAt(im, b, j) # g) => find_in_bucket(im, b, g) = << >>
  BY <1>1, <1>2
<1>6. \/ \A j \in Slot : HashAt(im, b, j) # g
      \/ /\ Min(S) \in Slot
         /\ HashAt(im, b, Min(S)) = g
         /\ \A j \in Slot : j < Min(S) => HashAt(im, b, j) # g
  <2>1. CASE S = {}
    BY <1>1, <2>1
  <2>2. CASE S # {}
    <3>1. Min(S) \in S /\ Min(S) \in Nat
      BY <1>1, <1>3, <2>2
    <3>2. ASSUME NEW j \in Slot, j < Min(S)
          PROVE  HashAt(im, b, j) # g
      BY <1>1, <1>3, <2>2, <3>1, <3>2, SlotsAre
    <3> QED BY <1>1, <3>1, <3>2
  <2> QED BY <2>1, <2>2
<1> QED BY <1>4, <1>5, <1>6 DEF S

\* A search finds the foremost slot if it is in use.
LEMMA ForemostIsFound ==
  ASSUME NEW im, IsImpl(im), NEW g \in Hash, NEW b \in 0 .. im.mask, NEW i \in Slot,
         Foremost(im, g, b, i), HashAt(im, b, i) = g, ChainAt(im, b, i) # << >>
  PROVE  find(im, g) = ChainAt(im, b, i)
<1>1. PICK c \in 0 .. im.mask, d \in 0 .. im.mask : c = Candidates(im, g)[1] /\ d = Candidates(im, g)[2]
  BY CandidatesAre
<1>2. find(im, g) = IF find_in_bucket(im, c, g) # << >> THEN find_in_bucket(im, c, g)
                                                         ELSE find_in_bucket(im, d, g)
  BY <1>1 DEF find
<1>3. find_in_bucket(im, b, g) = ChainAt(im, b, i)
  BY FoundInBucket DEF Foremost
<1>4. b = c \/ (b = d /\ find_in_bucket(im, c, g) = << >>)
  BY <1>1, FoundInBucket DEF Foremost
<1> QED BY <1>2, <1>3, <1>4

\* A search finds the chain of the hash.
LEMMA FindIs ==
  ASSUME NEW im, NEW F, Holds(im, F), NEW g \in Hash
  PROVE  find(im, g) = F[g]
<1>1. PICK c \in 0 .. im.mask, d \in 0 .. im.mask : c = Candidates(im, g)[1] /\ d = Candidates(im, g)[2]
  BY CandidatesAre DEF Holds
<1>2. find(im, g) = IF find_in_bucket(im, c, g) # << >> THEN find_in_bucket(im, c, g)
                                                         ELSE find_in_bucket(im, d, g)
  BY <1>1 DEF find
<1>3. IsImpl(im)
  BY DEF Holds
<1>4. CASE F[g] = << >>
  <2>1. ASSUME NEW b \in 0 .. im.mask
        PROVE  find_in_bucket(im, b, g) = << >>
    <3>1. ASSUME NEW i \in Slot, HashAt(im, b, i) = g
          PROVE  ChainAt(im, b, i) = << >>
      BY <1>4, <3>1 DEF Holds, Used, InPlace
    <3> QED BY <1>3, <3>1, FoundInBucket
  <2> QED BY <1>2, <1>4, <2>1
<1>5. CASE F[g] # << >>
  <2>1. PICK b \in 0 .. im.mask, i \in Slot : Sits(im, g, b, i)
    BY <1>5 DEF Holds
  <2>2. Foremost(im, g, b, i) /\ ChainAt(im, b, i) = F[g] /\ HashAt(im, b, i) = g
    BY <2>1 DEF Holds, Sits, InPlace
  <2> QED BY <1>3, <1>5, <2>2, ForemostIsFound
<1> QED BY <1>4, <1>5

LEMMA NodesAre ==
  ASSUME NEW im, NEW F, Holds(im, F)
  PROVE  /\ NodesIn(im) \subseteq Node
         /\ \A x \in Node : x \in NodesIn(im) <=> x \in Range(F[hashOf[x]])
<1>1. \A x : x \in NodesIn(im) <=>
         \E b \in 0 .. im.mask : \E i \in Slot : x \in Range(ChainAt(im, b, i))
  BY DEF NodesIn, ChainsIn, ChainAt, Holds, IsImpl, Table
<1>2. ASSUME NEW b \in 0 .. im.mask, NEW i \in Slot, NEW x \in Range(ChainAt(im, b, i))
      PROVE  x \in Node /\ x \in Range(F[hashOf[x]])
  <2>1. Used(im, b, i)
    BY DEF Used, Range
  <2>2. PICK g \in Hash : ChainAt(im, b, i) = F[g]
    BY <2>1 DEF Holds, InPlace
  <2>3. F[g] \in Seq(Node) /\ \A y \in Range(F[g]) : hashOf[y] = g
    BY DEF Holds, Chains, ChainOf
  <2>4. x \in Range(F[g]) /\ hashOf[x] = g
    BY <2>2, <2>3
  <2>5. Range(F[g]) \subseteq Node
    <3>1. PICK v \in Seq(Node) : v = F[g]
      BY <2>3
    <3>2. Range(v) \subseteq Node
      BY DEF Range
    <3> QED BY <3>1, <3>2
  <2> QED BY <2>4, <2>5
<1>3. ASSUME NEW x \in Node, x \in Range(F[hashOf[x]])
      PROVE  x \in NodesIn(im)
  <2>1. hashOf[x] \in Hash /\ F[hashOf[x]] # << >>
    BY <1>3, NodesHaveHashes DEF Range
  <2>2. PICK b \in 0 .. im.mask, i \in Slot : Sits(im, hashOf[x], b, i)
    BY <2>1 DEF Holds
  <2>3. ChainAt(im, b, i) = F[hashOf[x]]
    BY <2>2 DEF Holds, Sits, InPlace
  <2> QED BY <1>1, <1>3, <2>2, <2>3
<1> QED BY <1>1, <1>2, <1>3

-----------------------------------------------------------------------------
(***************************************************************************)
(* What the stores of a plan make of the buckets.                          *)
(***************************************************************************)

StoreRec(m) == [bucket : 0 .. m, slot : Slot, hash : Hash \cup {Zero}, chain : Seq(Node)]

ContentOf(s) == [hash |-> s.hash, chain |-> s.chain]
Put(bs, s)   == [bs EXCEPT ![s.bucket][s.slot] = [hash |-> s.hash, chain |-> s.chain]]
Hits(s, b, i) == b = s.bucket /\ i = s.slot

\* A plan whose stores are to different slots.
Plan(m, plan) ==
  /\ plan \in Seq(StoreRec(m))
  /\ \A j, k \in DOMAIN plan : Hits(plan[j], plan[k].bucket, plan[k].slot) => j = k

\* The buckets bs after the stores at the places T of the plan.
After(ts, m, bs, plan, T) ==
  /\ ts \in Table(m)
  /\ \A j \in T : ts[plan[j].bucket][plan[j].slot] = ContentOf(plan[j])
  /\ \A b \in 0 .. m : \A i \in Slot : (\A j \in T : ~Hits(plan[j], b, i)) => ts[b][i] = bs[b][i]

\* it is the iteration by which Applied is defined.
StoresIterate(it, bs, plan) ==
  it = [T \in SUBSET DOMAIN plan |->
          IF T = {} THEN bs ELSE Put(it[T \ {Max(T)}], plan[Max(T)])]

LEMMA PutIs ==
  ASSUME NEW m, NEW bs \in Table(m), NEW s \in StoreRec(m)
  PROVE  /\ Put(bs, s) \in Table(m)
         /\ Put(bs, s)[s.bucket][s.slot] = ContentOf(s)
         /\ \A b \in 0 .. m : \A i \in Slot : ~Hits(s, b, i) => Put(bs, s)[b][i] = bs[b][i]
<1>1. PICK b \in 0 .. m, i \in Slot : b = s.bucket /\ i = s.slot
  BY DEF StoreRec
<1>2. PICK r \in Content : r = [hash |-> s.hash, chain |-> s.chain]
  BY DEF StoreRec, Content
<1>3. bs \in [0 .. m -> [Slot -> Content]]
  BY DEF Table
<1>4. Put(bs, s) = [bs EXCEPT ![b] = [bs[b] EXCEPT ![i] = r]]
  BY <1>1, <1>2 DEF Put
<1>5. bs[b] \in [Slot -> Content]
  BY <1>3
<1>6. PICK row \in [Slot -> Content] : /\ row = [bs[b] EXCEPT ![i] = r]
                                       /\ row[i] = r /\ \A k \in Slot : k # i => row[k] = bs[b][k]
  <2>1. PICK old \in [Slot -> Content] : old = bs[b]
    BY <1>5
  <2> DEFINE row == [old EXCEPT ![i] = r]
  <2>2. row \in [Slot -> Content] /\ row[i] = r /\ \A k \in Slot : k # i => row[k] = old[k]
    OBVIOUS
  <2> QED BY <2>1, <2>2
<1>7. Put(bs, s) = [bs EXCEPT ![b] = row]
  BY <1>4, <1>6
<1>8. Put(bs, s) \in [0 .. m -> [Slot -> Content]]
  BY <1>3, <1>7
<1>9. Put(bs, s)[b] = row /\ \A c \in 0 .. m : c # b => Put(bs, s)[c] = bs[c]
  BY <1>3, <1>7
<1> QED BY <1>1, <1>2, <1>6, <1>8, <1>9 DEF Table, Hits, ContentOf

LEMMA StoresSolve ==
  ASSUME NEW m, NEW bs \in Table(m), NEW plan \in Seq(StoreRec(m))
  PROVE  \E it : StoresIterate(it, bs, plan)
<1> DEFINE S == DOMAIN plan
           V == Table(m)
           o == [T \in SUBSET S |-> [g \in [T -> V] |->
                   IF T = {} THEN bs ELSE Put(g[Max(T)], plan[Max(T)])]]
<1>1. IsFiniteSet(S) /\ \A i \in S : plan[i] \in StoreRec(m)
  BY PlacesAre
<1>2. ASSUME NEW T \in SUBSET S, T # {}
      PROVE  Max(T) \in T
  BY <1>2, PlacesAre
<1> HIDE DEF S
<1>3. ASSUME NEW T \in SUBSET S, NEW g \in [T -> V]
      PROVE  o[T][g] \in V
  <2>1. CASE T = {}
    BY <2>1
  <2>2. CASE T # {}
    <3>1. PICK i \in T : i = Max(T)
      BY <1>2, <2>2
    <3>2. g[i] \in V /\ plan[i] \in StoreRec(m)
      BY <1>1
    <3>3. Put(g[i], plan[i]) \in V
      BY <3>2, PutIs
    <3>4. o[T][g] = Put(g[i], plan[i])
      BY <2>2, <3>1
    <3> QED BY <3>3, <3>4
  <2> QED BY <2>1, <2>2
<1>4. PICK it : Recurses(it, o, S, V)
  <2> HIDE DEF o, V
  <2>1. MapsInto(o, S, V)
    BY <1>3 DEF MapsInto
  <2> QED BY <1>1, <2>1, RecursionExists
<1>5. ASSUME NEW T \in SUBSET S
      PROVE  it[T] = IF T = {} THEN bs ELSE Put(it[T \ {Max(T)}], plan[Max(T)])
  <2>1. Below(it, T) \in [T -> V]
    BY <1>4 DEF Below, Recurses
  <2>2. T # {} => Below(it, T)[Max(T)] = it[T \ {Max(T)}]
    BY <1>2 DEF Below
  <2>3. it[T] = o[T][Below(it, T)]
    BY <1>4 DEF Recurses
  <2>4. o[T][Below(it, T)] = IF T = {} THEN bs ELSE Put(Below(it, T)[Max(T)], plan[Max(T)])
    BY <2>1
  <2> HIDE DEF V, o
  <2> QED BY <2>2, <2>3, <2>4
<1> QED BY <1>4, <1>5 DEF StoresIterate, Recurses, S

LEMMA AfterOneMore ==
  ASSUME NEW m, NEW bs, NEW plan, Plan(m, plan), NEW T \in SUBSET DOMAIN plan, NEW k \in T,
         NEW ts, After(ts, m, bs, plan, T \ {k})
  PROVE  After(Put(ts, plan[k]), m, bs, plan, T)
<1>1. ts \in Table(m) /\ plan[k] \in StoreRec(m)
  BY DEF After, Plan
<1>2. PICK us \in Table(m) : /\ us = Put(ts, plan[k])
                             /\ us[plan[k].bucket][plan[k].slot] = ContentOf(plan[k])
                             /\ \A b \in 0 .. m : \A i \in Slot : ~Hits(plan[k], b, i) => us[b][i] = ts[b][i]
  BY <1>1, PutIs
<1>3. ASSUME NEW j \in T
      PROVE  us[plan[j].bucket][plan[j].slot] = ContentOf(plan[j])
  <2>1. CASE j = k
    BY <1>2, <2>1
  <2>2. CASE j # k
    <3>0. plan[j] \in StoreRec(m)
      BY PlacesAre DEF Plan
    <3>1. PICK b \in 0 .. m, i \in Slot : b = plan[j].bucket /\ i = plan[j].slot
      BY <3>0 DEF StoreRec
    <3>2. ~Hits(plan[k], b, i)
      BY <2>2, <3>1 DEF Plan
    <3>3. ts[b][i] = ContentOf(plan[j])
      BY <2>2, <3>1 DEF After
    <3> QED BY <1>2, <3>1, <3>2, <3>3
  <2> QED BY <2>1, <2>2
<1>4. ASSUME NEW b \in 0 .. m, NEW i \in Slot, \A j \in T : ~Hits(plan[j], b, i)
      PROVE  us[b][i] = bs[b][i]
  BY <1>2, <1>4 DEF After
<1> QED BY <1>2, <1>3, <1>4 DEF After

\* im2 is im after the stores of the plan.
MadeBy(im, plan, im2) ==
  /\ IsImpl(im2) /\ im2.mask = im.mask /\ im2.basis = im.basis /\ im2.n = im.n
  /\ \A j \in DOMAIN plan : /\ HashAt(im2, plan[j].bucket, plan[j].slot) = plan[j].hash
                            /\ ChainAt(im2, plan[j].bucket, plan[j].slot) = plan[j].chain
  /\ \A b \in 0 .. im.mask : \A i \in Slot :
       (\A j \in DOMAIN plan : ~Hits(plan[j], b, i)) =>
          HashAt(im2, b, i) = HashAt(im, b, i) /\ ChainAt(im2, b, i) = ChainAt(im, b, i)

LEMMA AppliedIs ==
  ASSUME NEW im, IsImpl(im), NEW plan, Plan(im.mask, plan)
  PROVE  MadeBy(im, plan, Applied(im, plan))
<1> DEFINE bs == im.buckets
           m  == im.mask
           S  == DOMAIN plan
           it == CHOOSE i : StoresIterate(i, bs, plan)
<1>1. bs \in Table(m) /\ plan \in Seq(StoreRec(m)) /\ IsFiniteSet(S)
  BY PlacesAre DEF IsImpl, Plan
<1>2. StoresIterate(it, bs, plan)
  <2> HIDE DEF m, bs
  <2> QED BY <1>1, StoresSolve
<1>3. Applied(im, plan) = [im EXCEPT !.buckets = it[S]]
  BY DEF Applied, FoldLeft, MapThenFoldSet, StoresIterate, Put
<1> HIDE DEF it
<1> DEFINE P == {T \in SUBSET S : After(it[T], m, bs, plan, T)}
<1>4. ASSUME NEW T \in SUBSET S, \A i \in T : T \ {i} \in P
      PROVE  T \in P
  <2>1. it[T] = IF T = {} THEN bs ELSE Put(it[T \ {Max(T)}], plan[Max(T)])
    BY <1>2 DEF StoresIterate
  <2>2. CASE T = {}
    BY <1>1, <2>1, <2>2 DEF After
  <2>3. CASE T # {}
    <3>1. PICK k \in T : k = Max(T)
      BY <1>1, <2>3, PlacesAre
    <3>2. After(it[T \ {k}], m, bs, plan, T \ {k})
      BY <1>4
    <3>3. After(Put(it[T \ {k}], plan[k]), m, bs, plan, T)
      <4> HIDE DEF m, bs
      <4>1. Plan(m, plan)
        BY DEF m
      <4> QED BY <3>2, <4>1, AfterOneMore
    <3>4. it[T] = Put(it[T \ {k}], plan[k])
      BY <2>1, <2>3, <3>1
    <3> QED BY <3>3, <3>4
  <2> QED BY <2>2, <2>3
<1>5. After(it[S], m, bs, plan, S)
  <2> HIDE DEF P
  <2>1. \A T \in SUBSET S : T \in P
    <3> HIDE DEF S
    <3> QED BY <1>1, <1>4, SubsetInduct
  <2> QED BY <2>1 DEF P
<1>6. PICK ts : ts = it[S]
  OBVIOUS
<1>7. PICK im2 : im2 = Applied(im, plan)
  OBVIOUS
<1>8. im2 = [mask |-> im.mask, basis |-> im.basis, n |-> im.n, buckets |-> ts]
  BY <1>3, <1>6, <1>7 DEF IsImpl
<1>9. im2.mask = im.mask /\ im2.basis = im.basis /\ im2.n = im.n /\ im2.buckets = ts
  BY <1>8
<1>10. IsImpl(im2)
  BY <1>5, <1>6, <1>8, <1>9 DEF IsImpl, After
<1>11. \A j \in S : HashAt(im2, plan[j].bucket, plan[j].slot) = plan[j].hash
                    /\ ChainAt(im2, plan[j].bucket, plan[j].slot) = plan[j].chain
  <2>1. ASSUME NEW j \in S
        PROVE  im2.buckets[plan[j].bucket][plan[j].slot] = ContentOf(plan[j])
    BY <1>5, <1>6, <1>9 DEF After
  <2>2. \A s : ContentOf(s).hash = s.hash /\ ContentOf(s).chain = s.chain
    BY DEF ContentOf
  <2> QED BY <2>1, <2>2 DEF HashAt, ChainAt
<1>12. \A b \in 0 .. im.mask : \A i \in Slot :
         (\A j \in S : ~Hits(plan[j], b, i)) =>
            HashAt(im2, b, i) = HashAt(im, b, i) /\ ChainAt(im2, b, i) = ChainAt(im, b, i)
  BY <1>5, <1>6, <1>9 DEF After, HashAt, ChainAt
<1> QED BY <1>7, <1>9, <1>10, <1>11, <1>12 DEF MadeBy

-----------------------------------------------------------------------------
(***************************************************************************)
(* A store to one slot.                                                    *)
(***************************************************************************)

Unchanged(im, im2, b, i) ==
  HashAt(im2, b, i) = HashAt(im, b, i) /\ ChainAt(im2, b, i) = ChainAt(im, b, i)

\* im2 differs from im by the store of a chain for g in one slot.
Wrote(im, im2, b, i, g, chain) ==
  /\ IsImpl(im2) /\ im2.mask = im.mask /\ im2.basis = im.basis
  /\ HashAt(im2, b, i) = g /\ ChainAt(im2, b, i) = chain
  /\ \A c \in 0 .. im.mask : \A j \in Slot : (c # b \/ j # i) => Unchanged(im, im2, c, j)

\* The slot is free for g, and no other holds g.
FreeFor(im, g, b, i) ==
  /\ Used(im, b, i) => HashAt(im, b, i) = g
  /\ \A c \in 0 .. im.mask : \A j \in Slot : Sits(im, g, c, j) => c = b /\ j = i
  /\ Foremost(im, g, b, i)

LEMMA ForemostStays ==
  ASSUME NEW im, IsImpl(im), NEW im2, im2.mask = im.mask, im2.basis = im.basis,
         NEW g \in Hash, NEW b \in 0 .. im.mask, NEW i \in Slot, Foremost(im, g, b, i),
         \A c \in 0 .. im.mask : \A j \in Slot :
           (c # b \/ j # i) /\ HashAt(im2, c, j) = g => HashAt(im, c, j) = g
  PROVE  Foremost(im2, g, b, i)
<1>1. PICK c \in 0 .. im.mask : c = Candidates(im, g)[1] /\ c = Candidates(im2, g)[1]
  BY CandidatesAre, SameCandidates
<1>2. Candidates(im2, g)[2] = Candidates(im, g)[2]
  BY SameCandidates
<1>3. b = Candidates(im2, g)[1] \/ b = Candidates(im2, g)[2]
  BY <1>1, <1>2 DEF Foremost
<1>4. ASSUME NEW j \in Slot, j < i
      PROVE  HashAt(im2, b, j) # g
  <2>1. HashAt(im, b, j) # g /\ j # i
    BY <1>4, SlotsAre DEF Foremost
  <2> QED BY <2>1
<1>5. ASSUME b # c, NEW j \in Slot
      PROVE  HashAt(im2, c, j) # g
  <2>1. HashAt(im, c, j) # g
    BY <1>1, <1>5 DEF Foremost
  <2> QED BY <1>5, <2>1
<1> QED BY <1>1, <1>3, <1>4, <1>5 DEF Foremost

LEMMA StoreKeeps ==
  ASSUME NEW im, NEW F, Holds(im, F), NEW g \in Hash, NEW chain, ChainOf(g, chain),
         NEW b \in 0 .. im.mask, NEW i \in Slot, FreeFor(im, g, b, i),
         NEW im2, Wrote(im, im2, b, i, g, chain)
  PROVE  Holds(im2, [F EXCEPT ![g] = chain])
<1>1. PICK F2 : F2 = [F EXCEPT ![g] = chain]
  OBVIOUS
<1>2. Chains(F2) /\ F2[g] = chain /\ \A h \in Hash : h # g => F2[h] = F[h]
  BY <1>1 DEF Holds, Chains, ChainOf
<1>3. IsImpl(im) /\ IsImpl(im2) /\ im2.mask = im.mask /\ im2.basis = im.basis
  BY DEF Holds, Wrote
<1>4. ASSUME NEW c \in 0 .. im.mask, NEW j \in Slot, Used(im2, c, j)
      PROVE  InPlace(im2, F2, c, j)
  <2>1. CASE c = b /\ j = i
    <3>1. HashAt(im2, c, j) = g /\ ChainAt(im2, c, j) = chain
      BY <2>1 DEF Wrote
    <3>2. Foremost(im2, g, b, i)
      BY <1>3, ForemostStays DEF FreeFor, Wrote, Unchanged
    <3> QED BY <1>2, <2>1, <3>1, <3>2 DEF InPlace
  <2>2. CASE c # b \/ j # i
    <3>1. Unchanged(im, im2, c, j)
      BY <2>2 DEF Wrote
    <3>2. PICK h : h = HashAt(im, c, j)
      OBVIOUS
    <3>3. Used(im, c, j) /\ HashAt(im2, c, j) = h
      BY <1>4, <3>1, <3>2 DEF Unchanged, Used
    <3>4. InPlace(im, F, c, j)
      BY <3>3 DEF Holds
    <3>5. h \in Hash /\ h # g
      <4>1. h \in Hash
        BY <3>2, <3>4 DEF InPlace
      <4>2. h # g
        BY <2>2, <3>2, <3>3 DEF FreeFor, Sits
      <4> QED BY <4>1, <4>2
    <3>6. Foremost(im2, h, c, j)
      <4>1. Foremost(im, h, c, j)
        BY <3>2, <3>4 DEF InPlace
      <4>2. ASSUME NEW d \in 0 .. im.mask, NEW k \in Slot, HashAt(im2, d, k) = h
            PROVE  HashAt(im, d, k) = h
        BY <3>5, <4>2 DEF Wrote, Unchanged
      <4> QED BY <1>3, <3>5, <4>1, <4>2, ForemostStays
    <3>7. ChainAt(im2, c, j) = F2[h]
      <4>1. ChainAt(im, c, j) = F[h]
        BY <3>2, <3>4 DEF InPlace
      <4> QED BY <1>2, <3>1, <3>5, <4>1 DEF Unchanged
    <3> QED BY <3>3, <3>5, <3>6, <3>7 DEF InPlace
  <2> QED BY <2>1, <2>2
<1>5. ASSUME NEW h \in Hash, F2[h] # << >>
      PROVE  \E c \in 0 .. im.mask : \E j \in Slot : Sits(im2, h, c, j)
  <2>1. CASE h = g
    BY <1>2, <1>5, <2>1 DEF Wrote, Sits, Used
  <2>2. CASE h # g
    <3>1. PICK c \in 0 .. im.mask, j \in Slot : Sits(im, h, c, j)
      BY <1>2, <1>5, <2>2 DEF Holds
    <3>2. c # b \/ j # i
      BY <2>2, <3>1 DEF FreeFor, Sits
    <3>3. Sits(im2, h, c, j)
      BY <3>1, <3>2 DEF Wrote, Unchanged, Sits, Used
    <3> QED BY <3>3
  <2> QED BY <2>1, <2>2
<1>6. Holds(im2, F2)
  BY <1>2, <1>3, <1>4, <1>5 DEF Holds
<1> QED BY <1>1, <1>6

-----------------------------------------------------------------------------
(***************************************************************************)
(* Insertions that set one slot.                                           *)
(***************************************************************************)

\* im2 holds one more chain for g, in front of what im holds for it.
Gained(im, F, g, chain, im2) ==
  /\ Holds(im2, [F EXCEPT ![g] = chain \o F[g]])
  /\ im2.mask = im.mask /\ im2.basis = im.basis /\ im2.n = im.n

\* What an insertion starts from.
MayGain(im, F, g, chain) ==
  /\ Holds(im, F) /\ g \in Hash
  /\ chain \in Seq(Node) /\ chain # << >> /\ ChainOf(g, chain \o F[g])

\* No slot of the two buckets of g has the hash.
NoneThere(im, g) ==
  \A j \in Slot : HashAt(im, Candidates(im, g)[1], j) # g /\ HashAt(im, Candidates(im, g)[2], j) # g

AppliedOne(im, b, i, g, chain) == Applied(im, <<Store(b, i, g, chain)>>)

LEMMA OneStore ==
  ASSUME NEW im, IsImpl(im), NEW b \in 0 .. im.mask, NEW i \in Slot, NEW g \in Hash,
         NEW chain \in Seq(Node)
  PROVE  /\ Wrote(im, AppliedOne(im, b, i, g, chain), b, i, g, chain)
         /\ AppliedOne(im, b, i, g, chain).n = im.n
<1>0. PICK im2 : im2 = AppliedOne(im, b, i, g, chain)
  OBVIOUS
<1> DEFINE plan == <<Store(b, i, g, chain)>>
<1>1. Store(b, i, g, chain) \in StoreRec(im.mask)
  BY DEF Store, StoreRec
<1>2. plan \in Seq(StoreRec(im.mask)) /\ DOMAIN plan = {1} /\ plan[1] = Store(b, i, g, chain)
  BY <1>1
<1>3. /\ plan[1].bucket = b /\ plan[1].slot = i /\ plan[1].hash = g /\ plan[1].chain = chain
  BY <1>2 DEF Store
<1> HIDE DEF plan
<1>4. Plan(im.mask, plan)
  BY <1>2 DEF Plan
<1>5. MadeBy(im, plan, im2)
  <2>1. im2 = Applied(im, plan)
    BY <1>0 DEF AppliedOne, plan
  <2> QED BY <1>4, <2>1, AppliedIs
<1>6. Wrote(im, im2, b, i, g, chain) /\ im2.n = im.n
  BY <1>2, <1>3, <1>5 DEF MadeBy, Wrote, Hits, Unchanged
<1> QED BY <1>0, <1>6

LEMMA ForemostIsOne ==
  ASSUME NEW im, NEW g, NEW b, NEW i \in Slot, NEW c, NEW j \in Slot,
         Foremost(im, g, b, i), Foremost(im, g, c, j), HashAt(im, b, i) = g, HashAt(im, c, j) = g
  PROVE  b = c /\ i = j
<1>1. i \in Nat /\ j \in Nat
  BY SlotsAre
<1>2. b = c
  BY DEF Foremost
<1>3. ~(i < j) /\ ~(j < i)
  BY <1>2 DEF Foremost
<1> QED BY <1>1, <1>2, <1>3

\* With the hash in neither bucket there is no chain for it.
LEMMA NoneThereIs ==
  ASSUME NEW im, NEW F, Holds(im, F), NEW g \in Hash, NoneThere(im, g)
  PROVE  /\ F[g] = << >>
         /\ \A c \in 0 .. im.mask : \A j \in Slot : ~Sits(im, g, c, j)
<1>1. ASSUME NEW c \in 0 .. im.mask, NEW j \in Slot, Sits(im, g, c, j)
      PROVE  FALSE
  <2>1. Foremost(im, g, c, j) /\ HashAt(im, c, j) = g
    BY <1>1 DEF Holds, InPlace, Sits
  <2> QED BY <2>1 DEF Foremost, NoneThere
<1> QED BY <1>1 DEF Holds

LEMMA DupPlansAre ==
  ASSUME NEW im, IsImpl(im), NEW g, NEW chain, NEW b \in 0 .. im.mask
  PROVE  /\ DupPlans(im, g, chain, b) = {} <=> \A j \in Slot : HashAt(im, b, j) # g
         /\ \A plan \in DupPlans(im, g, chain, b) : \E i \in Slot :
              /\ plan = <<Store(b, i, g, chain \o ChainAt(im, b, i))>>
              /\ HashAt(im, b, i) = g
              /\ \A j \in Slot : j < i => HashAt(im, b, j) # g
<1>1. SlotsWith(im, b, g) = {} <=> \A j \in Slot : HashAt(im, b, j) # g
  BY DEF SlotsWith, HashAt
<1>2. PICK i : i = Min(SlotsWith(im, b, g))
  OBVIOUS
<1>3. \/ \A j \in Slot : HashAt(im, b, j) # g
      \/ i \in Slot /\ HashAt(im, b, i) = g /\ \A j \in Slot : j < i => HashAt(im, b, j) # g
  BY <1>2, FoundInBucket
<1>4. DupPlans(im, g, chain, b) = IF SlotsWith(im, b, g) = {} THEN {}
                                  ELSE {<<Store(b, i, g, chain \o ChainAt(im, b, i))>>}
  BY <1>2 DEF DupPlans, ChainAt
<1> QED BY <1>1, <1>3, <1>4

LEMMA DupKeeps ==
  ASSUME NEW im, NEW F, NEW g, NEW chain, MayGain(im, F, g, chain),
         NEW b \in 0 .. im.mask, b = Candidates(im, g)[1] \/ b = Candidates(im, g)[2],
         b # Candidates(im, g)[1] => \A j \in Slot : HashAt(im, Candidates(im, g)[1], j) # g,
         NEW plan \in DupPlans(im, g, chain, b)
  PROVE  Gained(im, F, g, chain, Applied(im, plan))
<1>1. Holds(im, F) /\ IsImpl(im) /\ g \in Hash /\ ChainOf(g, chain \o F[g])
  BY DEF MayGain, Holds
<1>2. PICK i \in Slot : /\ plan = <<Store(b, i, g, chain \o ChainAt(im, b, i))>>
                        /\ HashAt(im, b, i) = g
                        /\ \A j \in Slot : j < i => HashAt(im, b, j) # g
  BY <1>1, DupPlansAre
<1>3. Foremost(im, g, b, i)
  BY <1>2 DEF Foremost
<1>4. ASSUME NEW c \in 0 .. im.mask, NEW j \in Slot, Sits(im, g, c, j)
      PROVE  c = b /\ j = i
  <2>1. Foremost(im, g, c, j) /\ HashAt(im, c, j) = g
    BY <1>1, <1>4 DEF Holds, InPlace, Sits
  <2> QED BY <1>2, <1>3, <2>1, ForemostIsOne
<1>5. ChainAt(im, b, i) = F[g]
  <2>1. CASE Used(im, b, i)
    BY <1>1, <1>2, <2>1 DEF Holds, InPlace
  <2>2. CASE ~Used(im, b, i)
    <3>1. \A c \in 0 .. im.mask : \A j \in Slot : ~Sits(im, g, c, j)
      BY <1>4, <2>2 DEF Sits
    <3>2. F[g] = << >>
      BY <1>1, <3>1 DEF Holds
    <3> QED BY <2>2, <3>2 DEF Used
  <2> QED BY <2>1, <2>2
<1>6. FreeFor(im, g, b, i)
  BY <1>2, <1>3, <1>4 DEF FreeFor
<1>7. PICK longer \in Seq(Node) : longer = chain \o F[g] /\ ChainOf(g, longer)
  BY <1>1 DEF ChainOf
<1>8. PICK im2 : im2 = Applied(im, plan)
  OBVIOUS
<1>9. Wrote(im, im2, b, i, g, longer) /\ im2.n = im.n
  <2>1. im2 = AppliedOne(im, b, i, g, longer)
    BY <1>2, <1>5, <1>7, <1>8 DEF AppliedOne
  <2>2. IsImpl(im) /\ b \in 0 .. im.mask /\ i \in Slot /\ g \in Hash /\ longer \in Seq(Node)
    BY <1>1
  <2> QED BY <2>1, <2>2, OneStore
<1>10. Holds(im2, [F EXCEPT ![g] = longer])
  BY <1>1, <1>6, <1>7, <1>9, StoreKeeps
<1> QED BY <1>7, <1>8, <1>9, <1>10 DEF Gained, Wrote

LEMMA BucketKeeps ==
  ASSUME NEW im, NEW F, NEW g, NEW chain, MayGain(im, F, g, chain), NoneThere(im, g),
         NEW b \in 0 .. im.mask, b = Candidates(im, g)[1] \/ b = Candidates(im, g)[2],
         NEW plan \in BucketPlans(im, g, chain, b)
  PROVE  Gained(im, F, g, chain, Applied(im, plan))
<1>1. Holds(im, F) /\ IsImpl(im) /\ g \in Hash /\ chain \in Seq(Node)
  BY DEF MayGain, Holds
<1>2. F[g] = << >> /\ \A c \in 0 .. im.mask : \A j \in Slot : ~Sits(im, g, c, j)
  BY <1>1, NoneThereIs
<1>3. chain \o F[g] = chain
  BY <1>1, <1>2
<1>4. ChainOf(g, chain)
  BY <1>3 DEF MayGain
<1>5. PICK i : i = Min(EmptySlots(im, b)) /\ EmptySlots(im, b) # {}
               /\ plan = <<Store(b, i, g, chain)>>
  BY DEF BucketPlans
<1>6. i \in Slot /\ ~Used(im, b, i)
  <2>1. EmptySlots(im, b) \in SUBSET Nat
    BY SlotsAre DEF EmptySlots
  <2>2. i \in EmptySlots(im, b)
    BY <1>5, <2>1, MinIs
  <2> QED BY <2>2 DEF EmptySlots, Used, ChainAt
<1>7. FreeFor(im, g, b, i)
  <2>1. Foremost(im, g, b, i)
    BY DEF Foremost, NoneThere
  <2> QED BY <1>2, <1>6, <2>1 DEF FreeFor
<1>8. PICK im2 : im2 = Applied(im, plan)
  OBVIOUS
<1>9. Wrote(im, im2, b, i, g, chain) /\ im2.n = im.n
  <2>1. im2 = AppliedOne(im, b, i, g, chain)
    BY <1>5, <1>8 DEF AppliedOne
  <2>2. IsImpl(im) /\ i \in Slot /\ g \in Hash /\ chain \in Seq(Node)
    BY <1>1, <1>6
  <2> QED BY <2>1, <2>2, OneStore
<1>10. Holds(im2, [F EXCEPT ![g] = chain])
  BY <1>1, <1>4, <1>6, <1>7, <1>9, StoreKeeps
<1> QED BY <1>3, <1>8, <1>9, <1>10 DEF Gained, Wrote

-----------------------------------------------------------------------------
(***************************************************************************)
(* Insertions that move slots along a path.                                *)
(***************************************************************************)

\* A path for g: at are its buckets, all different, and in their slots i are
\* what is moved on, up to a slot that is free.
Path(im, g, n, at, i) ==
  /\ n \in Nat /\ at \in [0 .. n -> 0 .. im.mask] /\ i \in [0 .. n -> Slot]
  /\ \A j, k \in 0 .. n : at[j] = at[k] => j = k
  /\ at[0] = Candidates(im, g)[1] \/ at[0] = Candidates(im, g)[2]
  /\ \A k \in 1 .. n : at[k] = other_bucket(im, at[k - 1], HashAt(im, at[k - 1], i[k - 1]))
  /\ \A k \in 0 .. n - 1 : \A m \in Slot : Used(im, at[k], m)
  /\ ~Used(im, at[n], i[n]) /\ \A m \in Slot : m < i[n] => Used(im, at[n], m)

\* im2 is im with the slots moved along the path and the chain in the first.
MovedOn(im, im2, g, chain, n, at, i) ==
  /\ IsImpl(im2) /\ im2.mask = im.mask /\ im2.basis = im.basis /\ im2.n = im.n
  /\ HashAt(im2, at[0], i[0]) = g /\ ChainAt(im2, at[0], i[0]) = chain
  /\ \A k \in 1 .. n : /\ HashAt(im2, at[k], i[k]) = HashAt(im, at[k - 1], i[k - 1])
                       /\ ChainAt(im2, at[k], i[k]) = ChainAt(im, at[k - 1], i[k - 1])
  /\ \A b \in 0 .. im.mask : \A j \in Slot :
       (\A k \in 0 .. n : at[k] # b \/ i[k] # j) => Unchanged(im, im2, b, j)

\* What a path moves: a hash that is in use there and nowhere else.
LEMMA MovedIs ==
  ASSUME NEW im, NEW F, Holds(im, F), NEW g \in Hash, NoneThere(im, g),
         NEW n, NEW at, NEW i, Path(im, g, n, at, i), NEW k \in 1 .. n,
         NEW h, h = HashAt(im, at[k - 1], i[k - 1])
  PROVE  /\ k - 1 \in 0 .. n - 1 /\ k - 1 \in 0 .. n /\ k \in 0 .. n
         /\ h \in Hash /\ h # g /\ Sits(im, h, at[k - 1], i[k - 1])
         /\ at[k] # at[k - 1]
         /\ at[k] = Candidates(im, h)[1] \/ at[k] = Candidates(im, h)[2]
         /\ at[k] # Candidates(im, h)[1] => at[k - 1] = Candidates(im, h)[1]
<1>1. /\ k - 1 \in 0 .. n - 1 /\ k - 1 \in 0 .. n /\ k \in 0 .. n /\ k - 1 # k
      /\ at[k - 1] \in 0 .. im.mask /\ i[k - 1] \in Slot
  BY DEF Path
<1>2. Used(im, at[k - 1], i[k - 1])
  BY <1>1 DEF Path
<1>3. InPlace(im, F, at[k - 1], i[k - 1])
  BY <1>1, <1>2 DEF Holds
<1>4. h \in Hash /\ Sits(im, h, at[k - 1], i[k - 1])
  BY <1>2, <1>3 DEF InPlace, Sits
<1>5. h # g
  BY <1>1, <1>4, NoneThereIs
<1>6. at[k] # at[k - 1]
  BY <1>1 DEF Path
<1>7. at[k] = other_bucket(im, at[k - 1], h)
  BY DEF Path
<1>8. at[k - 1] = Candidates(im, h)[1] \/ at[k - 1] = Candidates(im, h)[2]
  BY <1>3 DEF InPlace, Foremost
<1>9. at[k] = IF Candidates(im, h)[1] = at[k - 1] THEN Candidates(im, h)[2] ELSE Candidates(im, h)[1]
  BY <1>7 DEF other_bucket
<1> QED BY <1>1, <1>4, <1>5, <1>6, <1>8, <1>9

\* A hash that is in a slot of im2 besides the one a path brought it to was there.
LEMMA NoneBrought ==
  ASSUME NEW im, NEW g, NEW n, NEW at, NEW i, Path(im, g, n, at, i), NEW im2, NEW chain,
         MovedOn(im, im2, g, chain, n, at, i),
         NEW b \in 0 .. im.mask, NEW j \in Slot,
         HashAt(im2, b, j) = g => b # at[0] \/ j # i[0],
         \A k \in 1 .. n : HashAt(im2, b, j) = HashAt(im, at[k - 1], i[k - 1])
                               => at[k] # b \/ i[k] # j
  PROVE  Unchanged(im, im2, b, j) /\ \A k \in 0 .. n : at[k] # b \/ i[k] # j
<1>1. ASSUME NEW k \in 0 .. n, at[k] = b, i[k] = j
      PROVE  FALSE
  <2>1. n \in Nat
    BY DEF Path
  <2>2. CASE k = 0
    BY <1>1, <2>2 DEF MovedOn
  <2>3. CASE k # 0
    <3>1. k \in 1 .. n
      BY <2>1, <2>3
    <3> QED BY <1>1, <3>1 DEF MovedOn
  <2> QED BY <2>2, <2>3
<1> QED BY <1>1 DEF MovedOn

LEMMA RestStays ==
  ASSUME NEW im, NEW F, Holds(im, F), NEW g \in Hash, NoneThere(im, g),
         NEW n, NEW at, NEW i, Path(im, g, n, at, i), NEW im2, NEW chain,
         MovedOn(im, im2, g, chain, n, at, i),
         NEW b \in 0 .. im.mask, NEW j \in Slot, Used(im2, b, j),
         \A k \in 0 .. n : at[k] # b \/ i[k] # j
  PROVE  InPlace(im2, [F EXCEPT ![g] = chain], b, j)
<1>1. Unchanged(im, im2, b, j)
  BY DEF MovedOn
<1>2. PICK h : h = HashAt(im, b, j) /\ h = HashAt(im2, b, j)
  BY <1>1 DEF Unchanged
<1>3. Sits(im, h, b, j) /\ InPlace(im, F, b, j)
  BY <1>1, <1>2 DEF Holds, Used, Unchanged, Sits
<1>4. h \in Hash /\ h # g
  BY <1>2, <1>3, NoneThereIs DEF InPlace
<1>5. ASSUME NEW c \in 0 .. im.mask, NEW m \in Slot, HashAt(im2, c, m) = h
      PROVE  HashAt(im, c, m) = h
  <2>1. ASSUME NEW k \in 1 .. n
        PROVE  h # HashAt(im, at[k - 1], i[k - 1])
    <3>1. SUFFICES ASSUME h = HashAt(im, at[k - 1], i[k - 1])
                   PROVE  FALSE
      OBVIOUS
    <3>2. Sits(im, h, at[k - 1], i[k - 1]) /\ k - 1 \in 0 .. n
      BY <3>1, MovedIs
    <3>3. at[k - 1] \in 0 .. im.mask /\ i[k - 1] \in Slot
      BY <3>2 DEF Path
    <3>4. at[k - 1] = b /\ i[k - 1] = j
      BY <1>3, <3>2, <3>3, OnlyOne
    <3> QED BY <3>2, <3>4
  <2>2. /\ HashAt(im2, c, m) = g => c # at[0] \/ m # i[0]
        /\ \A k \in 1 .. n : HashAt(im2, c, m) = HashAt(im, at[k - 1], i[k - 1])
                               => at[k] # c \/ i[k] # m
    BY <1>4, <1>5, <2>1
  <2>3. Unchanged(im, im2, c, m)
    BY <2>2, NoneBrought
  <2> QED BY <1>5, <2>3 DEF Unchanged
<1>6. Foremost(im2, h, b, j)
  <2>1. Foremost(im, h, b, j) /\ IsImpl(im) /\ im2.mask = im.mask /\ im2.basis = im.basis
    BY <1>2, <1>3 DEF InPlace, Holds, MovedOn
  <2> QED BY <1>4, <1>5, <2>1, ForemostStays
<1>7. [F EXCEPT ![g] = chain][h] = F[h]
  BY <1>4 DEF Holds, Chains
<1>8. ChainAt(im2, b, j) = F[h]
  BY <1>1, <1>2, <1>3 DEF Unchanged, InPlace
<1> QED BY <1>2, <1>4, <1>6, <1>7, <1>8 DEF InPlace

LEMMA FirstIsPlaced ==
  ASSUME NEW im, NEW F, Holds(im, F), NEW g \in Hash, NoneThere(im, g),
         NEW n, NEW at, NEW i, Path(im, g, n, at, i), NEW im2, NEW chain,
         MovedOn(im, im2, g, chain, n, at, i)
  PROVE  InPlace(im2, [F EXCEPT ![g] = chain], at[0], i[0])
<1>1. PICK b \in 0 .. im.mask, j \in Slot : b = at[0] /\ j = i[0]
  BY DEF Path
<1>2. Foremost(im, g, b, j)
  BY <1>1 DEF NoneThere, Foremost, Path
<1>3. ASSUME NEW c \in 0 .. im.mask, NEW m \in Slot, c # b \/ m # j, HashAt(im2, c, m) = g
      PROVE  HashAt(im, c, m) = g
  <2>1. \A k \in 1 .. n : g # HashAt(im, at[k - 1], i[k - 1])
    BY MovedIs
  <2>2. Unchanged(im, im2, c, m)
    <3>1. /\ HashAt(im2, c, m) = g => c # at[0] \/ m # i[0]
          /\ \A k \in 1 .. n : HashAt(im2, c, m) = HashAt(im, at[k - 1], i[k - 1])
                                 => at[k] # c \/ i[k] # m
      BY <1>1, <1>3, <2>1
    <3> QED BY <3>1, NoneBrought
  <2> QED BY <1>3, <2>2 DEF Unchanged
<1>4. Foremost(im2, g, b, j)
  <2>1. IsImpl(im) /\ im2.mask = im.mask /\ im2.basis = im.basis
    BY DEF Holds, MovedOn
  <2> QED BY <1>2, <1>3, <2>1, ForemostStays
<1>5. [F EXCEPT ![g] = chain][g] = chain
  BY DEF Holds, Chains
<1> QED BY <1>1, <1>4, <1>5 DEF MovedOn, InPlace

LEMMA MovedIsPlaced ==
  ASSUME NEW im, NEW F, Holds(im, F), NEW g \in Hash, NoneThere(im, g),
         NEW n, NEW at, NEW i, Path(im, g, n, at, i), NEW im2, NEW chain,
         MovedOn(im, im2, g, chain, n, at, i), NEW k \in 1 .. n
  PROVE  InPlace(im2, [F EXCEPT ![g] = chain], at[k], i[k])
<1>1. PICK h : h = HashAt(im, at[k - 1], i[k - 1])
  OBVIOUS
<1>2. /\ k - 1 \in 0 .. n - 1 /\ k - 1 \in 0 .. n /\ k \in 0 .. n
      /\ h \in Hash /\ h # g /\ Sits(im, h, at[k - 1], i[k - 1])
      /\ at[k] # at[k - 1]
      /\ at[k] = Candidates(im, h)[1] \/ at[k] = Candidates(im, h)[2]
      /\ at[k] # Candidates(im, h)[1] => at[k - 1] = Candidates(im, h)[1]
  BY <1>1, MovedIs
<1>3. PICK b \in 0 .. im.mask, j \in Slot, a \in 0 .. im.mask, e \in Slot :
        b = at[k] /\ j = i[k] /\ a = at[k - 1] /\ e = i[k - 1]
  BY <1>2 DEF Path
<1>4. ASSUME NEW c \in 0 .. im.mask, NEW m \in Slot, Used(im, c, m), HashAt(im, c, m) = h
      PROVE  c = a /\ m = e
  BY <1>2, <1>3, <1>4, OnlyOne DEF Sits
<1>5. ASSUME NEW l \in 1 .. n, h = HashAt(im, at[l - 1], i[l - 1])
      PROVE  l = k
  <2>1. Sits(im, h, at[l - 1], i[l - 1]) /\ l - 1 \in 0 .. n
    BY <1>5, MovedIs
  <2>2. at[l - 1] = a
    <3>1. at[l - 1] \in 0 .. im.mask /\ i[l - 1] \in Slot
      BY <2>1 DEF Path
    <3> QED BY <1>4, <2>1, <3>1 DEF Sits
  <2>3. l - 1 = k - 1
    BY <1>2, <1>3, <2>1, <2>2 DEF Path
  <2> QED BY <2>3
<1>6. ASSUME NEW c \in 0 .. im.mask, NEW m \in Slot, c # b \/ m # j, HashAt(im2, c, m) = h
      PROVE  HashAt(im, c, m) = h /\ (c # a \/ m # e)
  <2>1. Unchanged(im, im2, c, m) /\ \A l \in 0 .. n : at[l] # c \/ i[l] # m
    <3>1. /\ HashAt(im2, c, m) = g => c # at[0] \/ m # i[0]
          /\ \A l \in 1 .. n : HashAt(im2, c, m) = HashAt(im, at[l - 1], i[l - 1])
                                 => at[l] # c \/ i[l] # m
      BY <1>2, <1>3, <1>5, <1>6
    <3> QED BY <3>1, NoneBrought
  <2> QED BY <1>2, <1>3, <1>6, <2>1 DEF Unchanged
<1>7. ASSUME NEW m \in Slot, m < j
      PROVE  HashAt(im2, b, m) # h
  <2>1. SUFFICES ASSUME HashAt(im2, b, m) = h
                 PROVE  FALSE
    OBVIOUS
  <2>2. m # j /\ n \in Nat
    BY <1>7, SlotsAre DEF Path
  <2>3. HashAt(im, b, m) = h
    BY <1>6, <2>1, <2>2
  <2>4. Used(im, b, m)
    <3>1. CASE k = n
      BY <1>3, <1>7, <3>1 DEF Path
    <3>2. CASE k # n
      <4>1. k \in 0 .. n - 1
        BY <2>2, <3>2
      <4> QED BY <1>3, <4>1 DEF Path
    <3> QED BY <3>1, <3>2
  <2> QED BY <1>2, <1>3, <1>4, <2>3, <2>4
<1>8. ASSUME b # Candidates(im, h)[1], NEW m \in Slot
      PROVE  HashAt(im2, a, m) # h
  <2>1. SUFFICES ASSUME HashAt(im2, a, m) = h
                 PROVE  FALSE
    OBVIOUS
  <2>2. HashAt(im, a, m) = h /\ m # e
    BY <1>2, <1>3, <1>6, <2>1
  <2>3. Used(im, a, m)
    BY <1>2, <1>3 DEF Path
  <2> QED BY <1>4, <2>2, <2>3
<1>9. Candidates(im2, h) = Candidates(im, h)
  BY SameCandidates DEF MovedOn
<1>10. Foremost(im2, h, b, j)
  BY <1>2, <1>3, <1>7, <1>8, <1>9 DEF Foremost
<1>11. [F EXCEPT ![g] = chain][h] = F[h]
  BY <1>2 DEF Holds, Chains
<1>12. ChainAt(im2, b, j) = F[h] /\ HashAt(im2, b, j) = h
  <2>1. InPlace(im, F, a, e)
    BY <1>2, <1>3 DEF Holds, Sits
  <2> QED BY <1>1, <1>3, <2>1 DEF MovedOn, InPlace
<1> QED BY <1>2, <1>3, <1>10, <1>11, <1>12 DEF InPlace

LEMMA MoveKeeps ==
  ASSUME NEW im, NEW F, NEW g, NEW chain, MayGain(im, F, g, chain), NoneThere(im, g),
         NEW n, NEW at, NEW i, Path(im, g, n, at, i), NEW im2,
         MovedOn(im, im2, g, chain, n, at, i)
  PROVE  Gained(im, F, g, chain, im2)
<1>1. Holds(im, F) /\ IsImpl(im) /\ g \in Hash /\ chain \in Seq(Node) /\ chain # << >>
  BY DEF MayGain, Holds
<1>2. F[g] = << >> /\ \A c \in 0 .. im.mask : \A j \in Slot : ~Sits(im, g, c, j)
  BY <1>1, NoneThereIs
<1>3. chain \o F[g] = chain
  BY <1>1, <1>2
<1>4. ChainOf(g, chain)
  BY <1>3 DEF MayGain
<1>5. PICK F2 : F2 = [F EXCEPT ![g] = chain]
  OBVIOUS
<1>6. Chains(F2) /\ F2[g] = chain /\ \A h \in Hash : h # g => F2[h] = F[h]
  BY <1>1, <1>4, <1>5 DEF Holds, Chains, ChainOf
<1>7. n \in Nat /\ im2.mask = im.mask
  BY DEF Path, MovedOn
<1>8. ASSUME NEW b \in 0 .. im.mask, NEW j \in Slot, Used(im2, b, j)
      PROVE  InPlace(im2, F2, b, j)
  <2>1. CASE \A k \in 0 .. n : at[k] # b \/ i[k] # j
    <3>1. InPlace(im2, [F EXCEPT ![g] = chain], b, j)
      BY <1>1, <1>8, <2>1, RestStays
    <3> QED BY <1>5, <3>1
  <2>2. ASSUME NEW k \in 0 .. n, at[k] = b, i[k] = j
        PROVE  InPlace(im2, F2, b, j)
    <3>1. CASE k = 0
      <4>1. InPlace(im2, F2, at[0], i[0])
        BY <1>1, <1>5, FirstIsPlaced
      <4> QED BY <2>2, <3>1, <4>1
    <3>2. CASE k # 0
      <4>1. k \in 1 .. n
        BY <1>7, <3>2
      <4>2. InPlace(im2, F2, at[k], i[k])
        BY <1>1, <1>5, <4>1, MovedIsPlaced
      <4> QED BY <2>2, <4>2
    <3> QED BY <3>1, <3>2
  <2> QED BY <2>1, <2>2
<1>9. ASSUME NEW h \in Hash, F2[h] # << >>
      PROVE  \E b \in 0 .. im.mask : \E j \in Slot : Sits(im2, h, b, j)
  <2>1. CASE h = g
    <3>1. at[0] \in 0 .. im.mask /\ i[0] \in Slot
      BY <1>7 DEF Path
    <3>2. Sits(im2, h, at[0], i[0])
      BY <1>1, <2>1 DEF MovedOn, Sits, Used
    <3> QED BY <3>1, <3>2
  <2>2. CASE h # g
    <3>1. PICK b \in 0 .. im.mask, j \in Slot : Sits(im, h, b, j)
      BY <1>1, <1>6, <1>9, <2>2 DEF Holds
    <3>2. CASE \A k \in 0 .. n : at[k] # b \/ i[k] # j
      <4>1. Unchanged(im, im2, b, j)
        BY <3>2 DEF MovedOn
      <4>2. Sits(im2, h, b, j)
        BY <3>1, <4>1 DEF Unchanged, Sits, Used
      <4> QED BY <4>2
    <3>3. ASSUME NEW k \in 0 .. n, at[k] = b, i[k] = j
          PROVE  \E c \in 0 .. im.mask : \E m \in Slot : Sits(im2, h, c, m)
      <4>1. k # n
        BY <3>1, <3>3 DEF Path, Sits
      <4>2. k + 1 \in 1 .. n /\ k + 1 \in 0 .. n /\ (k + 1) - 1 = k
        BY <1>7, <4>1
      <4>3. HashAt(im2, at[k + 1], i[k + 1]) = HashAt(im, b, j)
            /\ ChainAt(im2, at[k + 1], i[k + 1]) = ChainAt(im, b, j)
        BY <3>3, <4>2 DEF MovedOn
      <4>4. at[k + 1] \in 0 .. im.mask /\ i[k + 1] \in Slot
        BY <4>2 DEF Path
      <4>5. Sits(im2, h, at[k + 1], i[k + 1])
        BY <3>1, <4>3 DEF Sits, Used
      <4> QED BY <4>4, <4>5
    <3> QED BY <3>2, <3>3
  <2> QED BY <2>1, <2>2
<1>10. Holds(im2, F2)
  <2>1. IsImpl(im2)
    BY DEF MovedOn
  <2> QED BY <1>6, <1>7, <1>8, <1>9, <2>1 DEF Holds
<1> QED BY <1>3, <1>5, <1>10 DEF Gained, MovedOn

\* im2 is im with the slots moved on from the t-th place of the path to its end.
PartMoved(im, im2, n, at, i, t) ==
  /\ IsImpl(im2) /\ im2.mask = im.mask /\ im2.basis = im.basis
  /\ \A k \in 1 .. n : k >= t => /\ HashAt(im2, at[k], i[k]) = HashAt(im, at[k - 1], i[k - 1])
                                 /\ ChainAt(im2, at[k], i[k]) = ChainAt(im, at[k - 1], i[k - 1])
  /\ \A b \in 0 .. im.mask : \A j \in Slot :
       (\A k \in 1 .. n : k >= t => at[k] # b \/ i[k] # j) => Unchanged(im, im2, b, j)

\* In the middle of the moves the slot of a hash is found where it was or, when
\* it is copied, where it goes.
LEMMA PartMovedFinds ==
  ASSUME NEW im, NEW F, Holds(im, F), NEW g \in Hash, NoneThere(im, g),
         NEW n, NEW at, NEW i, Path(im, g, n, at, i), NEW t \in 1 .. n + 1,
         NEW im2, PartMoved(im, im2, n, at, i, t), NEW h \in Hash, F[h] # << >>
  PROVE  find(im2, h) = F[h]
<1> DEFINE Good(c, m) == HashAt(im2, c, m) = h /\ ChainAt(im2, c, m) = F[h] /\ Foremost(im2, h, c, m)
<1>1. n \in Nat /\ t \in Nat /\ im2.mask = im.mask /\ IsImpl(im) /\ IsImpl(im2)
  BY DEF Path, PartMoved, Holds
<1>2. PICK b \in 0 .. im.mask, j \in Slot : Sits(im, h, b, j)
  BY DEF Holds
<1>3. Foremost(im, h, b, j) /\ ChainAt(im, b, j) = F[h] /\ HashAt(im, b, j) = h
  BY <1>2 DEF Holds, Sits, InPlace
<1>4. ASSUME NEW c \in 0 .. im.mask, NEW m \in Slot, HashAt(im, c, m) = h, Used(im, c, m)
      PROVE  c = b /\ m = j
  BY <1>2, <1>4, OnlyOne DEF Sits
<1>5. \A c : Candidates(im2, c) = Candidates(im, c)
  BY SameCandidates DEF PartMoved
<1>6. ASSUME NEW k \in 1 .. n
      PROVE  /\ k \in 0 .. n /\ k - 1 \in 0 .. n - 1
             /\ at[k] \in 0 .. im.mask /\ i[k] \in Slot
             /\ at[k - 1] \in 0 .. im.mask /\ i[k - 1] \in Slot
             /\ HashAt(im, at[k - 1], i[k - 1]) = h => at[k - 1] = b /\ i[k - 1] = j
  <2>1. k \in 0 .. n /\ k - 1 \in 0 .. n /\ k - 1 \in 0 .. n - 1
    BY <1>1
  <2>2. at[k] \in 0 .. im.mask /\ i[k] \in Slot /\ at[k - 1] \in 0 .. im.mask /\ i[k - 1] \in Slot
    BY <2>1 DEF Path
  <2>3. Used(im, at[k - 1], i[k - 1])
    BY <2>1, <2>2 DEF Path
  <2> QED BY <1>4, <2>1, <2>2, <2>3
\* A slot that has the hash had it, or the path has brought it there.
<1>7. ASSUME NEW c \in 0 .. im.mask, NEW m \in Slot, HashAt(im2, c, m) = h
      PROVE  \/ /\ HashAt(im, c, m) = h
                /\ \A k \in 1 .. n : k >= t => at[k] # c \/ i[k] # m
             \/ \E k \in 1 .. n : /\ k >= t /\ at[k] = c /\ i[k] = m
                                  /\ at[k - 1] = b /\ i[k - 1] = j
  <2>1. CASE \A k \in 1 .. n : k >= t => at[k] # c \/ i[k] # m
    <3>1. Unchanged(im, im2, c, m)
      BY <2>1 DEF PartMoved
    <3> QED BY <1>7, <2>1, <3>1 DEF Unchanged
  <2>2. ASSUME NEW k \in 1 .. n, k >= t, at[k] = c, i[k] = m
        PROVE  at[k - 1] = b /\ i[k - 1] = j
    <3>1. HashAt(im, at[k - 1], i[k - 1]) = h
      BY <1>7, <2>2 DEF PartMoved
    <3> QED BY <1>6, <3>1
  <2> QED BY <2>1, <2>2
<1>8. \E c \in 0 .. im.mask : \E m \in Slot : Good(c, m)
  <2>1. CASE \A k \in 1 .. n : k >= t => at[k - 1] # b \/ i[k - 1] # j
    <3>1. \A k \in 1 .. n : k >= t => at[k] # b \/ i[k] # j
      <4> SUFFICES ASSUME NEW k \in 1 .. n, k >= t, at[k] = b, i[k] = j
                   PROVE  FALSE
        OBVIOUS
      <4>1. k # n
        BY <1>2 DEF Path, Sits
      <4>2. k + 1 \in 1 .. n /\ k + 1 >= t /\ (k + 1) - 1 = k
        BY <1>1, <4>1
      <4> QED BY <2>1, <4>2
    <3>2. Unchanged(im, im2, b, j)
      BY <3>1 DEF PartMoved
    <3>3. \A c \in 0 .. im.mask : \A m \in Slot : HashAt(im2, c, m) = h => HashAt(im, c, m) = h
      BY <1>7, <2>1
    <3>4. Foremost(im2, h, b, j)
      <4>1. im2.mask = im.mask /\ im2.basis = im.basis
        BY DEF PartMoved
      <4> QED BY <1>1, <1>3, <3>3, <4>1, ForemostStays
    <3> QED BY <1>3, <3>2, <3>4 DEF Unchanged
  <2>2. ASSUME NEW k \in 1 .. n, k >= t, at[k - 1] = b, i[k - 1] = j
        PROVE  \E c \in 0 .. im.mask : \E m \in Slot : Good(c, m)
    <3>1. PICK c \in 0 .. im.mask, m \in Slot : c = at[k] /\ m = i[k]
      BY <1>6
    <3>2. /\ c # b
          /\ c = Candidates(im, h)[1] \/ c = Candidates(im, h)[2]
          /\ c # Candidates(im, h)[1] => b = Candidates(im, h)[1]
      BY <1>3, <2>2, <3>1, MovedIs
    <3>3. HashAt(im2, c, m) = h /\ ChainAt(im2, c, m) = F[h]
      BY <1>3, <2>2, <3>1 DEF PartMoved
    <3>4. ASSUME NEW l \in 1 .. n, at[l] = c
          PROVE  l = k
      BY <1>6, <3>1, <3>4 DEF Path
    <3>5. ASSUME NEW l \in 1 .. n, l >= t, at[l] = b, at[l - 1] = b
          PROVE  FALSE
      BY <1>6, <3>5, MovedIs
    <3>6. CASE c = Candidates(im, h)[1]
      <4>1. \A e \in Slot : HashAt(im, c, e) # h
        BY <1>3, <3>2, <3>6 DEF Foremost
      <4>2. ASSUME NEW e \in Slot, e < m
            PROVE  HashAt(im2, c, e) # h
        <5>1. e # m
          BY <4>2, SlotsAre
        <5> QED BY <1>7, <3>1, <3>4, <4>1, <5>1
      <4>3. Foremost(im2, h, c, m)
        BY <1>5, <3>6, <4>2 DEF Foremost
      <4> QED BY <3>3, <4>3
    <3>7. CASE c # Candidates(im, h)[1] /\ \A l \in 1 .. n : l >= t => at[l] # b \/ i[l] # j
      <4>1. Unchanged(im, im2, b, j)
        BY <3>7 DEF PartMoved
      <4>2. ASSUME NEW e \in Slot, e < j
            PROVE  HashAt(im2, b, e) # h
        BY <1>3, <1>7, <3>5, <4>2 DEF Foremost
      <4>3. Foremost(im2, h, b, j)
        BY <1>5, <3>2, <3>7, <4>2 DEF Foremost
      <4> QED BY <1>3, <4>1, <4>3 DEF Unchanged
    <3>8. ASSUME c # Candidates(im, h)[1], NEW l \in 1 .. n, l >= t, at[l] = b, i[l] = j
          PROVE  \E d \in 0 .. im.mask : \E e \in Slot : Good(d, e)
      <4>1. ASSUME NEW e \in Slot, e < m
            PROVE  HashAt(im2, c, e) # h
        <5>1. e # m
          BY <4>1, SlotsAre
        <5>2. Used(im, c, e)
          <6>1. k = n \/ k \in 0 .. n - 1
            BY <1>1
          <6> QED BY <3>1, <4>1, <6>1 DEF Path
        <5> QED BY <1>4, <1>7, <3>1, <3>2, <3>4, <5>1, <5>2
      <4>2. ASSUME NEW e \in Slot
            PROVE  HashAt(im2, b, e) # h
        <5>1. Used(im, b, e)
          BY <1>6, <2>2 DEF Path
        <5> QED BY <1>4, <1>7, <3>5, <3>8, <5>1
      <4>3. Foremost(im2, h, c, m)
        BY <1>5, <3>2, <4>1, <4>2 DEF Foremost
      <4> QED BY <3>3, <4>3
    <3> QED BY <3>6, <3>7, <3>8
  <2> QED BY <2>1, <2>2
<1>9. PICK c \in 0 .. im.mask, m \in Slot : Good(c, m)
  BY <1>8
<1> QED BY <1>1, <1>9, ForemostIsFound

-----------------------------------------------------------------------------
(***************************************************************************)
(* The routes that the search for room finds.                              *)
(***************************************************************************)

Hop(im, b, i) == other_bucket(im, b, im.buckets[b][i].hash)

\* at is the function by which StepsTo is defined.
Steps(at, im, g, r, n) ==
  at = [k \in 0 .. n |-> IF k = 0 THEN Candidates(im, g)[r[1]] ELSE Hop(im, at[k - 1], r[k + 1])]

LEMMA StepsExist ==
  ASSUME NEW im, NEW g, NEW r
  PROVE  \A n \in Nat : \E at : Steps(at, im, g, r, n)
<1> DEFINE P == {n \in Nat : \E at : Steps(at, im, g, r, n)}
<1>1. 0 \in P
  <2> DEFINE f == [k \in 0 .. 0 |-> Candidates(im, g)[r[1]]]
  <2>1. f = [k \in 0 .. 0 |-> IF k = 0 THEN Candidates(im, g)[r[1]] ELSE Hop(im, f[k - 1], r[k + 1])]
    OBVIOUS
  <2> HIDE DEF f
  <2> QED BY <2>1 DEF Steps
<1>2. ASSUME NEW n \in Nat, n \in P
      PROVE  n + 1 \in P
  <2>1. PICK f : Steps(f, im, g, r, n)
    BY <1>2
  <2> DEFINE last == Hop(im, f[n], r[n + 2])
             e == [k \in 0 .. n + 1 |-> IF k <= n THEN f[k] ELSE last]
             h == [k \in 0 .. n + 1 |-> IF k = 0 THEN Candidates(im, g)[r[1]]
                                                 ELSE Hop(im, e[k - 1], r[k + 1])]
  <2>2. ASSUME NEW k \in 0 .. n + 1
        PROVE  e[k] = h[k]
    <3>1. CASE k = 0
      <4>1. e[k] = f[k] /\ f[k] = Candidates(im, g)[r[1]]
        BY <2>1, <3>1 DEF Steps
      <4> QED BY <3>1, <4>1
    <3>2. CASE k # 0 /\ k <= n
      <4>1. k \in 0 .. n /\ k - 1 \in 0 .. n + 1 /\ k - 1 <= n
        BY <3>2
      <4>2. e[k] = f[k] /\ e[k - 1] = f[k - 1]
        BY <4>1
      <4>3. f[k] = Hop(im, f[k - 1], r[k + 1])
        BY <2>1, <3>2, <4>1 DEF Steps
      <4>4. h[k] = Hop(im, e[k - 1], r[k + 1])
        BY <3>2
      <4> HIDE DEF e, h
      <4> QED BY <4>2, <4>3, <4>4
    <3>3. CASE k = n + 1
      <4>1. ~(k <= n) /\ k # 0 /\ k - 1 = n /\ n \in 0 .. n + 1 /\ n <= n /\ k + 1 = n + 2
        BY <3>3
      <4>2. e[k] = last /\ e[n] = f[n]
        BY <4>1
      <4>3. h[k] = Hop(im, e[n], r[n + 2])
        BY <4>1
      <4> HIDE DEF e, h
      <4> QED BY <4>2, <4>3
    <3> QED BY <3>1, <3>2, <3>3
  <2>3. e = h
    BY <2>2
  <2>4. Steps(e, im, g, r, n + 1)
    <3>1. e = [k \in 0 .. n + 1 |-> IF k = 0 THEN Candidates(im, g)[r[1]]
                                             ELSE Hop(im, e[k - 1], r[k + 1])]
      <4> HIDE DEF e
      <4> QED BY <2>3
    <3> HIDE DEF e, h
    <3> QED BY <3>1 DEF Steps
  <2> QED BY <2>4
<1>3. \A n \in Nat : n \in P
  <2> HIDE DEF P
  <2> QED BY <1>1, <1>2, NatInduct
<1> QED BY <1>3

LEMMA StepsToIs ==
  ASSUME NEW im, NEW g, NEW n \in Nat, NEW X, NEW r \in [1 .. n + 1 -> X]
  PROVE  Steps(StepsTo(im, g, r), im, g, r, n)
<1>1. Len(r) - 1 = n
  OBVIOUS
<1>2. PICK m : m = Len(r) - 1
  OBVIOUS
<1>3. StepsTo(im, g, r) = CHOOSE at : Steps(at, im, g, r, m)
  BY <1>2, Zenon DEF StepsTo, Steps, Hop
<1>4. \E at : Steps(at, im, g, r, m)
  BY <1>1, <1>2, StepsExist
<1>5. Steps(StepsTo(im, g, r), im, g, r, m)
  BY <1>3, <1>4, Zenon
<1> QED BY <1>1, <1>2, <1>5

\* A function with the same first value and the same hops is the same.
LEMMA StepsAgree ==
  ASSUME NEW im, NEW g, NEW n \in Nat, NEW r, NEW at, Steps(at, im, g, r, n),
         NEW f, f[0] = Candidates(im, g)[r[1]], \A k \in 1 .. n : f[k] = Hop(im, f[k - 1], r[k + 1])
  PROVE  \A k \in 0 .. n : at[k] = f[k]
<1> DEFINE P == {k \in Nat : k <= n => at[k] = f[k]}
<1>1. 0 \in P
  BY DEF Steps
<1>2. ASSUME NEW k \in Nat, k \in P
      PROVE  k + 1 \in P
  <2>1. SUFFICES ASSUME k + 1 <= n
                 PROVE  at[k + 1] = f[k + 1]
    OBVIOUS
  <2>2. k + 1 \in 1 .. n /\ k + 1 \in 0 .. n /\ (k + 1) - 1 = k /\ k <= n /\ k + 1 # 0
    BY <2>1
  <2>3. at[k + 1] = Hop(im, at[k], r[(k + 1) + 1])
    BY <2>2 DEF Steps
  <2>4. f[k + 1] = Hop(im, f[k], r[(k + 1) + 1])
    BY <2>2
  <2> QED BY <1>2, <2>2, <2>3, <2>4
<1>3. \A k \in Nat : k \in P
  <2> HIDE DEF P
  <2> QED BY <1>1, <1>2, NatInduct
<1> QED BY <1>3

\* What the members of Routes are.
RouteVia(im, g, n, r, at) ==
  /\ at[0] = Candidates(im, g)[r[1]]
  /\ \A k \in 1 .. n : at[k] = Hop(im, at[k - 1], r[k + 1]) /\ r[k + 1] \in Slot /\ at[k] # at[k - 1]
  /\ EmptySlots(im, at[n]) # {}

Starts(im, g) == 1 .. Cardinality(Range(Candidates(im, g)))
RouteOf(im, g, n, r) == r \in [1 .. n + 1 -> 1 .. Max({2, CMAP_K})] /\ r[1] \in Starts(im, g)

LEMMA RoutesAre ==
  ASSUME NEW im, NEW g, NEW n \in Nat, NEW r \in Routes(im, g, n)
  PROVE  RouteOf(im, g, n, r) /\ RouteVia(im, g, n, r, StepsTo(im, g, r))
<1> DEFINE X == 1 .. Max({2, CMAP_K})
<1>1. r \in [1 .. n + 1 -> X]
  BY DEF Routes, Paths
<1> HIDE DEF X
<1>2. PICK at : at = StepsTo(im, g, r)
  OBVIOUS
<1>3. Steps(at, im, g, r, n)
  BY <1>1, <1>2, StepsToIs
<1>4. /\ r[1] \in Starts(im, g)
      /\ \A k \in 1 .. n : r[k + 1] \in Slot /\ at[k] # at[k - 1]
      /\ EmptySlots(im, at[n]) # {}
  BY <1>2 DEF Routes, Paths, Starts
<1>5. at[0] = Candidates(im, g)[r[1]]
  BY <1>3 DEF Steps
<1>6. ASSUME NEW k \in 1 .. n
      PROVE  at[k] = Hop(im, at[k - 1], r[k + 1])
  <2>1. k \in 0 .. n /\ k # 0
    OBVIOUS
  <2> QED BY <1>3, <2>1 DEF Steps
<1>7. RouteVia(im, g, n, r, at)
  BY <1>4, <1>5, <1>6 DEF RouteVia
<1> QED BY <1>1, <1>2, <1>4, <1>7 DEF RouteOf, X

LEMMA RouteMade ==
  ASSUME NEW im, NEW g, NEW n \in Nat, NEW r, RouteOf(im, g, n, r), NEW f, RouteVia(im, g, n, r, f)
  PROVE  r \in Routes(im, g, n)
<1> DEFINE X == 1 .. Max({2, CMAP_K})
<1>1. r \in [1 .. n + 1 -> X] /\ r[1] \in Starts(im, g)
  BY DEF RouteOf
<1> HIDE DEF X
<1>2. PICK at : at = StepsTo(im, g, r)
  OBVIOUS
<1>3. Steps(at, im, g, r, n)
  BY <1>1, <1>2, StepsToIs
<1>4. \A k \in 0 .. n : at[k] = f[k]
  BY <1>3, StepsAgree DEF RouteVia
<1>5. \A k \in 1 .. n : r[k + 1] \in Slot /\ at[k] # at[k - 1]
  <2>1. \A k \in 1 .. n : k \in 0 .. n /\ k - 1 \in 0 .. n
    OBVIOUS
  <2> QED BY <1>4, <2>1 DEF RouteVia
<1>6. EmptySlots(im, at[n]) # {}
  <2>1. n \in 0 .. n
    OBVIOUS
  <2> QED BY <1>4, <2>1 DEF RouteVia
<1> QED BY <1>1, <1>2, <1>5, <1>6 DEF Routes, Paths, Starts, X

\* A route that comes to room sooner need not go on.
LEMMA RouteEndsEarly ==
  ASSUME NEW im, NEW g, NEW n \in Nat, NEW r \in Routes(im, g, n), NEW k \in 1 .. n,
         EmptySlots(im, StepsTo(im, g, r)[k]) # {}
  PROVE  Routes(im, g, k) # {}
<1> DEFINE s == [p \in 1 .. k + 1 |-> r[p]]
<1>1. PICK at : at = StepsTo(im, g, r) /\ RouteVia(im, g, n, r, at)
  BY RoutesAre
<1>2. k \in Nat /\ k + 1 <= n + 1 /\ 1 \in 1 .. k + 1 /\ \A p \in 1 .. k : p + 1 \in 1 .. k + 1 /\ p \in 1 .. n
  OBVIOUS
<1>3. RouteOf(im, g, k, s)
  <2>1. RouteOf(im, g, n, r)
    BY RoutesAre
  <2>2. \A p \in 1 .. k + 1 : p \in 1 .. n + 1
    BY <1>2
  <2> QED BY <1>2, <2>1, <2>2 DEF RouteOf
<1>4. s[1] = r[1] /\ \A p \in 1 .. k : s[p + 1] = r[p + 1]
  BY <1>2
<1> HIDE DEF s
<1>5. RouteVia(im, g, k, s, at)
  BY <1>1, <1>2, <1>4 DEF RouteVia
<1> QED BY <1>2, <1>3, <1>5, RouteMade

\* A route that comes to a bucket twice need not go round.
LEMMA RouteGoesRound ==
  ASSUME NEW im, NEW g, NEW n \in Nat, NEW r \in Routes(im, g, n),
         NEW j \in 0 .. n, NEW k \in 0 .. n, j < k, k - j < n,
         StepsTo(im, g, r)[j] = StepsTo(im, g, r)[k]
  PROVE  k - j \in 1 .. n - 1 /\ Routes(im, g, n - (k - j)) # {}
<1>1. PICK at : at = StepsTo(im, g, r) /\ RouteVia(im, g, n, r, at)
  BY RoutesAre
<1>2. PICK d \in 1 .. n - 1 : d = k - j /\ k = j + d /\ j + d <= n
  OBVIOUS
<1>3. PICK m \in Nat : m = n - d /\ n = m + d /\ j <= m
  BY <1>2
<1> DEFINE s == [p \in 1 .. m + 1 |-> IF p <= j + 1 THEN r[p] ELSE r[p + d]]
           f == [p \in 0 .. m |-> IF p <= j THEN at[p] ELSE at[p + d]]
<1>4. /\ d \in Nat /\ j \in Nat
      /\ \A p \in 1 .. m + 1 : p \in 1 .. n + 1 /\ p + d \in 1 .. n + 1
      /\ \A p \in 1 .. m : p \in 0 .. m /\ p - 1 \in 0 .. m /\ p + 1 \in 1 .. m + 1 /\ p \in 1 .. n
                           /\ p + d \in 1 .. n /\ (p + d) - 1 = (p - 1) + d /\ (p + 1) + d = (p + d) + 1
  BY <1>2, <1>3
<1>5. RouteOf(im, g, m, s) /\ s[1] = r[1]
  <2>1. RouteOf(im, g, n, r)
    BY RoutesAre
  <2>2. 1 \in 1 .. m + 1 /\ 1 <= j + 1
    BY <1>3, <1>4
  <2> QED BY <1>4, <2>1, <2>2 DEF RouteOf
<1>6. ASSUME NEW p \in 1 .. m
      PROVE  f[p] = Hop(im, f[p - 1], s[p + 1]) /\ s[p + 1] \in Slot /\ f[p] # f[p - 1]
  <2>1. CASE p <= j
    <3>1. p - 1 <= j /\ p + 1 <= j + 1
      BY <1>4, <2>1
    <3>2. f[p] = at[p] /\ f[p - 1] = at[p - 1] /\ s[p + 1] = r[p + 1]
      BY <1>4, <2>1, <3>1
    <3>3. at[p] = Hop(im, at[p - 1], r[p + 1]) /\ r[p + 1] \in Slot /\ at[p] # at[p - 1]
      BY <1>1, <1>4 DEF RouteVia
    <3> HIDE DEF f, s
    <3> QED BY <3>2, <3>3
  <2>2. CASE ~(p <= j)
    <3>1. ~(p + 1 <= j + 1) /\ (p - 1 <= j => p - 1 = j)
      BY <1>4, <2>2
    <3>2. f[p] = at[p + d] /\ s[p + 1] = r[(p + d) + 1]
      BY <1>4, <2>2, <3>1
    <3>3. f[p - 1] = at[(p + d) - 1]
      <4>1. CASE p - 1 <= j
        <5>1. f[p - 1] = at[j] /\ (p + d) - 1 = k
          BY <1>2, <1>4, <3>1, <4>1
        <5> QED BY <1>1, <5>1
      <4>2. CASE ~(p - 1 <= j)
        BY <1>4, <4>2
      <4> QED BY <4>1, <4>2
    <3>4. /\ at[p + d] = Hop(im, at[(p + d) - 1], r[(p + d) + 1])
          /\ r[(p + d) + 1] \in Slot /\ at[p + d] # at[(p + d) - 1]
      BY <1>1, <1>4 DEF RouteVia
    <3> HIDE DEF f, s
    <3> QED BY <3>2, <3>3, <3>4
  <2> QED BY <2>1, <2>2
<1>7. f[0] = at[0] /\ f[m] = at[n]
  <2>1. CASE m <= j
    <3>1. m = j /\ n = k /\ f[m] = at[j]
      BY <1>2, <1>3, <2>1
    <3> QED BY <1>1, <1>3, <3>1
  <2>2. CASE ~(m <= j)
    BY <1>3, <1>4, <2>2
  <2> QED BY <1>3, <1>4, <2>1, <2>2
<1> HIDE DEF f, s
<1>8. RouteVia(im, g, m, s, f)
  BY <1>1, <1>5, <1>6, <1>7 DEF RouteVia
<1>9. s \in Routes(im, g, m)
  BY <1>5, <1>8, RouteMade
<1> QED BY <1>2, <1>3, <1>9

\* Of routes of one length there is one whose slots come first.
Leads(r, s, k) ==
  \/ \A j \in 1 .. k : r[j] = s[j]
  \/ \E i \in 1 .. k : r[i] < s[i] /\ \A j \in 1 .. i - 1 : r[j] = s[j]

LEMMA LeadMore ==
  ASSUME NEW N \in Nat, NEW M, NEW R \in SUBSET [1 .. N -> 1 .. M],
         NEW k \in Nat, k + 1 <= N, NEW r \in R, \A s \in R : Leads(r, s, k)
  PROVE  \E t \in R : \A s \in R : Leads(t, s, k + 1)
<1> DEFINE Same == {s \in R : \A j \in 1 .. k : r[j] = s[j]}
           T    == {s[k + 1] : s \in Same}
<1>1. k + 1 \in 1 .. N /\ \A s \in R : s[k + 1] \in Nat
  <2>1. k + 1 \in 1 .. N
    OBVIOUS
  <2>2. \A s \in R : s[k + 1] \in 1 .. M
    BY <2>1
  <2> QED BY <2>1, <2>2
<1>2. T \in SUBSET Nat /\ T # {}
  <2>1. r \in Same
    OBVIOUS
  <2> QED BY <1>1, <2>1
<1>3. PICK t \in Same : t[k + 1] = Min(T) /\ \A s \in Same : t[k + 1] <= s[k + 1]
  <2> PICK v : v = Min(T)
    OBVIOUS
  <2>1. v \in T /\ \A x \in T : v <= x
    BY <1>2, MinIs
  <2> QED BY <2>1
<1>4. ASSUME NEW s \in R
      PROVE  Leads(t, s, k + 1)
  <2>0. t \in R /\ t[k + 1] \in Nat /\ s[k + 1] \in Nat /\ \A j \in 1 .. k : r[j] = t[j]
    BY <1>1
  <2>1. CASE s \in Same
    <3>1. \A j \in 1 .. k : t[j] = s[j]
      BY <2>0, <2>1
    <3>2. t[k + 1] <= s[k + 1]
      BY <1>3, <2>1
    <3>3. CASE t[k + 1] = s[k + 1]
      <4>1. \A j \in 1 .. k + 1 : t[j] = s[j]
        BY <3>1, <3>3
      <4> QED BY <4>1 DEF Leads
    <3>4. CASE t[k + 1] < s[k + 1]
      <4>1. k + 1 \in 1 .. k + 1 /\ (k + 1) - 1 = k
        OBVIOUS
      <4> QED BY <3>1, <3>4, <4>1 DEF Leads
    <3> QED BY <2>0, <3>2, <3>3, <3>4
  <2>2. CASE s \notin Same
    <3>1. PICK i \in 1 .. k : r[i] < s[i] /\ \A j \in 1 .. i - 1 : r[j] = s[j]
      BY <2>2 DEF Leads
    <3>2. i \in 1 .. k + 1 /\ t[i] < s[i] /\ \A j \in 1 .. i - 1 : t[j] = s[j]
      BY <2>0, <3>1
    <3> QED BY <3>2 DEF Leads
  <2> QED BY <2>1, <2>2
<1> QED BY <1>4

LEMMA FirstExists ==
  ASSUME NEW N \in Nat, NEW M, NEW R \in SUBSET [1 .. N -> 1 .. M], R # {}
  PROVE  \E r \in R : \A s \in R : r = s \/ Before(r, s)
<1> DEFINE P == {k \in Nat : k <= N => \E r \in R : \A s \in R : Leads(r, s, k)}
<1>1. 0 \in P
  BY DEF Leads
<1>2. ASSUME NEW k \in Nat, k \in P
      PROVE  k + 1 \in P
  <2>1. SUFFICES ASSUME k + 1 <= N
                 PROVE  \E r \in R : \A s \in R : Leads(r, s, k + 1)
    OBVIOUS
  <2>2. PICK r \in R : \A s \in R : Leads(r, s, k)
    BY <1>2, <2>1
  <2> QED BY <2>1, <2>2, LeadMore
<1>3. N \in P
  <2> HIDE DEF P
  <2> QED BY <1>1, <1>2, NatInduct
<1>4. PICK r \in R : \A s \in R : Leads(r, s, N)
  BY <1>3
<1>5. ASSUME NEW s \in R
      PROVE  r = s \/ Before(r, s)
  <2>1. r \in [1 .. N -> 1 .. M] /\ s \in [1 .. N -> 1 .. M] /\ Leads(r, s, N)
    BY <1>4
  <2> QED BY <2>1 DEF Leads, Before
<1> QED BY <1>5

\* The route that is found is a shortest one.
LEMMA FoundIs ==
  ASSUME NEW im, NEW g, NEW r \in RoutesFound(im, g)
  PROVE  \E n \in 1 .. MAX_DEPTH + 1 :
           r \in Routes(im, g, n) /\ \A m \in 1 .. n - 1 : Routes(im, g, m) = {}
<1> DEFINE L == {n \in 1 .. MAX_DEPTH + 1 : Routes(im, g, n) # {}}
<1>1. L # {} /\ r = CHOOSE q \in Routes(im, g, Min(L)) :
                      \A s \in Routes(im, g, Min(L)) : q = s \/ Before(q, s)
  BY DEF RoutesFound
<1>2. PICK n : n = Min(L)
  OBVIOUS
<1>3. n \in L /\ \A m \in L : n <= m
  <2>1. L \in SUBSET Nat
    BY CmapAssumption
  <2> HIDE DEF L
  <2> QED BY <1>1, <1>2, <2>1, MinIs
<1>4. n \in 1 .. MAX_DEPTH + 1 /\ Routes(im, g, n) # {}
  BY <1>3
<1>5. PICK R : R = Routes(im, g, n)
  OBVIOUS
<1>6. R \in SUBSET [1 .. n + 1 -> 1 .. Max({2, CMAP_K})] /\ n + 1 \in Nat
  <2>1. n \in Nat /\ n + 1 \in Nat
    BY <1>4, CmapAssumption
  <2>2. \A q \in R : RouteOf(im, g, n, q)
    BY <1>5, <2>1, RoutesAre
  <2> QED BY <2>1, <2>2 DEF RouteOf
<1>7. \E q \in R : \A s \in R : q = s \/ Before(q, s)
  BY <1>4, <1>5, <1>6, FirstExists
<1>8. r = CHOOSE q \in R : \A s \in R : q = s \/ Before(q, s)
  BY <1>1, <1>2, <1>5
<1>9. r \in R
  BY <1>7, <1>8
<1>10. ASSUME NEW m \in 1 .. n - 1
       PROVE  Routes(im, g, m) = {}
  <2>1. m \in 1 .. MAX_DEPTH + 1 /\ ~(n <= m)
    BY <1>4, CmapAssumption
  <2> QED BY <1>3, <2>1
<1> QED BY <1>4, <1>5, <1>9, <1>10

LEMMA PairHasTwo ==
  ASSUME NEW a, NEW b
  PROVE  Cardinality({a, b}) \in 1 .. 2
<1>1. IsFiniteSet({a}) /\ Cardinality({a}) = 1
  BY FS_Singleton
<1>2. Cardinality({a} \cup {b}) = IF b \in {a} THEN 1 ELSE 1 + 1
  BY <1>1, FS_AddElement
<1>3. {a} \cup {b} = {a, b}
  OBVIOUS
<1>4. Cardinality({a, b}) = IF b \in {a} THEN 1 ELSE 1 + 1
  BY <1>2, <1>3, Zenon
<1> QED BY <1>4

\* The slots along a route: the hops are made from the first of them.
SlotsOf(im, n, r, at) == [k \in 0 .. n |-> IF k < n THEN r[k + 2] ELSE Min(EmptySlots(im, at[n]))]

Filled(im, b) == \A i \in Slot : Used(im, b, i)

LEMMA FilledIs == \A im, b : EmptySlots(im, b) = {} <=> Filled(im, b)
BY DEF EmptySlots, Filled, Used, ChainAt

\* Neither bucket of the hash has the hash or room for it.
NoRoom(im, g) ==
  NoneThere(im, g) /\ Filled(im, Candidates(im, g)[1]) /\ Filled(im, Candidates(im, g)[2])

LEMMA RouteIsFilled ==
  ASSUME NEW im, NEW F, Holds(im, F), NEW g \in Hash, NoRoom(im, g),
         NEW n \in Nat, NEW r \in Routes(im, g, n), \A m \in 1 .. n - 1 : Routes(im, g, m) = {},
         NEW at, at = StepsTo(im, g, r)
  PROVE  /\ at[0] = Candidates(im, g)[1] \/ at[0] = Candidates(im, g)[2]
         /\ \A k \in 0 .. n - 1 : Filled(im, at[k])
         /\ \A k \in 0 .. n : at[k] \in 0 .. im.mask
<1>1. RouteOf(im, g, n, r) /\ RouteVia(im, g, n, r, at)
  BY RoutesAre
<1>2. IsImpl(im)
  BY DEF Holds
<1>3. at[0] = Candidates(im, g)[1] \/ at[0] = Candidates(im, g)[2]
  <2>1. Cardinality({Candidates(im, g)[1], Candidates(im, g)[2]}) \in 1 .. 2
    BY PairHasTwo
  <2>2. r[1] \in 1 .. 2
    <3>1. Range(Candidates(im, g)) = {Candidates(im, g)[1], Candidates(im, g)[2]}
      BY <1>2, CandidatesAre
    <3>2. PICK c : c = Cardinality(Range(Candidates(im, g)))
      OBVIOUS
    <3>3. c \in 1 .. 2
      BY <2>1, <3>1, <3>2, Zenon
    <3>4. r[1] \in 1 .. c
      BY <1>1, <3>2, Zenon DEF RouteOf, Starts
    <3> QED BY <3>3, <3>4
  <2>3. r[1] = 1 \/ r[1] = 2
    BY <2>2
  <2> QED BY <1>1, <2>3 DEF RouteVia
<1>4. ASSUME NEW k \in 0 .. n - 1
      PROVE  Filled(im, at[k])
  <2>1. CASE k = 0
    BY <1>3, <2>1 DEF NoRoom
  <2>2. CASE k # 0
    <3>1. k \in 1 .. n /\ k \in 1 .. n - 1
      BY <2>2
    <3>2. EmptySlots(im, at[k]) = {}
      BY <3>1, RouteEndsEarly
    <3> QED BY <3>2, FilledIs
  <2> QED BY <2>1, <2>2
<1> DEFINE P == {k \in Nat : k <= n => at[k] \in 0 .. im.mask}
<1>5. 0 \in P
  BY <1>2, <1>3, CandidatesAre
<1>6. ASSUME NEW k \in Nat, k \in P
      PROVE  k + 1 \in P
  <2>1. SUFFICES ASSUME k + 1 <= n
                 PROVE  at[k + 1] \in 0 .. im.mask
    OBVIOUS
  <2>2. k \in 0 .. n - 1 /\ k + 1 \in 1 .. n /\ (k + 1) - 1 = k /\ k <= n
    BY <2>1
  <2>3. PICK b \in 0 .. im.mask : b = at[k]
    BY <1>6, <2>2
  <2>4. PICK i \in Slot : i = r[(k + 1) + 1] /\ at[k + 1] = Hop(im, b, i)
    BY <1>1, <2>2, <2>3 DEF RouteVia
  <2>5. Used(im, b, i)
    BY <1>4, <2>2, <2>3 DEF Filled
  <2>6. HashAt(im, b, i) \in Hash
    BY <2>5 DEF Holds, InPlace
  <2>7. Hop(im, b, i) = other_bucket(im, b, HashAt(im, b, i))
    BY DEF Hop, HashAt
  <2> QED BY <1>2, <2>4, <2>6, <2>7, CandidatesAre DEF other_bucket
<1>7. ASSUME NEW k \in 0 .. n
      PROVE  at[k] \in 0 .. im.mask
  <2> HIDE DEF P
  <2>1. \A j \in Nat : j \in P
    BY <1>5, <1>6, NatInduct
  <2> QED BY <2>1 DEF P
<1> QED BY <1>3, <1>4, <1>7

LEMMA RouteIsSimple ==
  ASSUME NEW im, NEW F, Holds(im, F), NEW g \in Hash, NoRoom(im, g),
         NEW n \in Nat, NEW r \in Routes(im, g, n), \A m \in 1 .. n - 1 : Routes(im, g, m) = {},
         NEW at, at = StepsTo(im, g, r),
         NEW j \in 0 .. n, NEW k \in 0 .. n, at[j] = at[k]
  PROVE  j = k
<1>1. /\ \A l \in 0 .. n - 1 : Filled(im, at[l])
      /\ EmptySlots(im, at[n]) # {}
  BY RouteIsFilled, RoutesAre DEF RouteVia
<1>2. ASSUME NEW a \in 0 .. n, NEW b \in 0 .. n, at[a] = at[b], a < b
      PROVE  FALSE
  <2>1. CASE b - a < n
    <3>1. b - a \in 1 .. n - 1 /\ Routes(im, g, n - (b - a)) # {}
      BY <1>2, <2>1, RouteGoesRound
    <3>2. n - (b - a) \in 1 .. n - 1
      BY <3>1
    <3> QED BY <3>1, <3>2
  <2>2. CASE ~(b - a < n)
    <3>1. a = 0 /\ b = n /\ 0 \in 0 .. n - 1
      BY <1>2, <2>2
    <3>2. Filled(im, at[0]) /\ EmptySlots(im, at[0]) # {}
      BY <1>1, <1>2, <3>1
    <3> QED BY <3>2, FilledIs
  <2> QED BY <2>1, <2>2
<1> QED BY <1>2

LEMMA FoundIsPath ==
  ASSUME NEW im, NEW F, Holds(im, F), NEW g \in Hash, NoRoom(im, g),
         NEW n \in Nat, n >= 1, NEW r \in Routes(im, g, n),
         \A m \in 1 .. n - 1 : Routes(im, g, m) = {},
         NEW at, at = StepsTo(im, g, r)
  PROVE  Path(im, g, n, at, SlotsOf(im, n, r, at))
<1> DEFINE i == SlotsOf(im, n, r, at)
<1>1. RouteOf(im, g, n, r) /\ RouteVia(im, g, n, r, at)
  BY RoutesAre
<1>2. /\ at[0] = Candidates(im, g)[1] \/ at[0] = Candidates(im, g)[2]
      /\ \A k \in 0 .. n - 1 : Filled(im, at[k])
      /\ \A k \in 0 .. n : at[k] \in 0 .. im.mask
  BY RouteIsFilled
<1>3. \A j, k \in 0 .. n : at[j] = at[k] => j = k
  BY RouteIsSimple
<1>4. at \in [0 .. n -> 0 .. im.mask]
  <2>1. Steps(at, im, g, r, n)
    <3>1. PICK X : r \in [1 .. n + 1 -> X]
      BY <1>1 DEF RouteOf
    <3> QED BY <3>1, StepsToIs
  <2>2. at = [k \in 0 .. n |-> at[k]]
    BY <2>1 DEF Steps
  <2> QED BY <1>2, <2>2
<1>5. PICK e : e = Min(EmptySlots(im, at[n]))
  OBVIOUS
<1>6. e \in Slot /\ ~Used(im, at[n], e) /\ \A m \in Slot : m < e => Used(im, at[n], m)
  <2>1. EmptySlots(im, at[n]) \in SUBSET Nat /\ EmptySlots(im, at[n]) # {}
    BY <1>1, SlotsAre DEF EmptySlots, RouteVia
  <2>2. e \in EmptySlots(im, at[n]) /\ \A m \in EmptySlots(im, at[n]) : e <= m
    BY <1>5, <2>1, MinIs
  <2>3. \A m : m \in EmptySlots(im, at[n]) <=> m \in Slot /\ ~Used(im, at[n], m)
    BY DEF EmptySlots, Used, ChainAt
  <2>4. e \in Slot /\ ~Used(im, at[n], e)
    BY <2>2, <2>3
  <2>5. ASSUME NEW m \in Slot, m < e
        PROVE  Used(im, at[n], m)
    <3>1. m \in Nat /\ e \in Nat /\ ~(e <= m)
      BY <2>4, <2>5, SlotsAre
    <3> QED BY <2>2, <2>3, <3>1
  <2> QED BY <2>4, <2>5
<1>7. i[n] = e /\ \A k \in 0 .. n - 1 : i[k] = r[k + 2] /\ r[k + 2] \in Slot
  <2>1. i[n] = e
    BY <1>5 DEF SlotsOf
  <2>2. ASSUME NEW k \in 0 .. n - 1
        PROVE  i[k] = r[k + 2] /\ r[k + 2] \in Slot
    <3>1. k + 1 \in 1 .. n /\ (k + 1) + 1 = k + 2 /\ k < n /\ k \in 0 .. n
      OBVIOUS
    <3>2. r[(k + 1) + 1] \in Slot
      BY <1>1, <3>1 DEF RouteVia
    <3> QED BY <3>1, <3>2 DEF SlotsOf
  <2> QED BY <2>1, <2>2
<1>8. i \in [0 .. n -> Slot]
  <2>1. i = [k \in 0 .. n |-> i[k]]
    BY DEF SlotsOf
  <2>2. \A k \in 0 .. n : k = n \/ k \in 0 .. n - 1
    OBVIOUS
  <2> HIDE DEF i
  <2> QED BY <1>6, <1>7, <2>1, <2>2
<1>9. ASSUME NEW k \in 1 .. n
      PROVE  at[k] = other_bucket(im, at[k - 1], HashAt(im, at[k - 1], i[k - 1]))
  <2>1. k - 1 \in 0 .. n - 1 /\ (k - 1) + 2 = k + 1
    OBVIOUS
  <2>2. i[k - 1] = r[k + 1]
    BY <1>7, <2>1
  <2>3. at[k] = Hop(im, at[k - 1], r[k + 1])
    BY <1>1 DEF RouteVia
  <2> HIDE DEF i
  <2> QED BY <2>2, <2>3 DEF Hop, HashAt
<1> HIDE DEF i
<1>10. ~Used(im, at[n], i[n]) /\ \A m \in Slot : m < i[n] => Used(im, at[n], m)
  BY <1>6, <1>7
<1>11. Path(im, g, n, at, i)
  BY <1>2, <1>3, <1>4, <1>8, <1>9, <1>10 DEF Path, Filled
<1> QED BY <1>11 DEF i

\* The stores of an insertion along a path, from its end.
PathPlan(im, g, chain, n, at, i) ==
  [j \in 1 .. n |-> Store(at[n + 1 - j], i[n + 1 - j], HashAt(im, at[(n + 1 - j) - 1], i[(n + 1 - j) - 1]),
                          ChainAt(im, at[(n + 1 - j) - 1], i[(n + 1 - j) - 1]))]
    \o <<Store(at[0], i[0], g, chain)>>

LEMMA PathPlanIs ==
  ASSUME NEW im, IsImpl(im), NEW g \in Hash, NEW chain \in Seq(Node),
         NEW n, NEW at, NEW i, Path(im, g, n, at, i),
         NEW plan, plan = PathPlan(im, g, chain, n, at, i)
  PROVE  /\ Plan(im.mask, plan) /\ DOMAIN plan = 1 .. n + 1
         /\ \A k \in 0 .. n : n + 1 - k \in 1 .. n + 1 /\ Hits(plan[n + 1 - k], at[k], i[k])
         /\ \A k \in 1 .. n : /\ plan[n + 1 - k].hash = HashAt(im, at[k - 1], i[k - 1])
                              /\ plan[n + 1 - k].chain = ChainAt(im, at[k - 1], i[k - 1])
         /\ plan[n + 1].hash = g /\ plan[n + 1].chain = chain
<1> DEFINE S == StoreRec(im.mask)
           a == [j \in 1 .. n |-> Store(at[n + 1 - j], i[n + 1 - j], HashAt(im, at[(n + 1 - j) - 1], i[(n + 1 - j) - 1]),
                                       ChainAt(im, at[(n + 1 - j) - 1], i[(n + 1 - j) - 1]))]
           b == <<Store(at[0], i[0], g, chain)>>
<1>1. n \in Nat /\ \A k \in 0 .. n : at[k] \in 0 .. im.mask /\ i[k] \in Slot
  BY DEF Path
<1>2. ASSUME NEW k \in 1 .. n
      PROVE  Store(at[k], i[k], HashAt(im, at[k - 1], i[k - 1]), ChainAt(im, at[k - 1], i[k - 1])) \in S
  <2>1. k \in 0 .. n /\ k - 1 \in 0 .. n
    BY <1>1
  <2>2. /\ HashAt(im, at[k - 1], i[k - 1]) \in Hash \cup {Zero}
        /\ ChainAt(im, at[k - 1], i[k - 1]) \in Seq(Node)
    BY <1>1, <2>1, ContentIs
  <2> QED BY <1>1, <2>1, <2>2 DEF Store, StoreRec
<1>3. \A j \in 1 .. n : n + 1 - j \in 1 .. n
  BY <1>1
<1>4. a \in Seq(S) /\ Len(a) = n
  <2>1. a \in [1 .. n -> S]
    BY <1>2, <1>3
  <2> QED BY <1>1, <2>1
<1>5. b \in Seq(S) /\ Len(b) = 1 /\ b[1] = Store(at[0], i[0], g, chain)
  <2>1. 0 \in 0 .. n
    BY <1>1
  <2>2. Store(at[0], i[0], g, chain) \in S
    BY <1>1, <2>1 DEF Store, StoreRec
  <2> QED BY <2>2
<1>6. plan = a \o b
  BY DEF PathPlan
<1>7. \A j \in 1 .. n : a[j] = Store(at[n + 1 - j], i[n + 1 - j], HashAt(im, at[(n + 1 - j) - 1], i[(n + 1 - j) - 1]),
                                       ChainAt(im, at[(n + 1 - j) - 1], i[(n + 1 - j) - 1]))
  OBVIOUS
<1> HIDE DEF a, b, S
<1>8. /\ plan \in Seq(S) /\ DOMAIN plan = 1 .. n + 1
      /\ \A j \in 1 .. n + 1 : plan[j] = IF j <= n THEN a[j] ELSE b[j - n]
  <2>1. PICK w : w = a \o b
    OBVIOUS
  <2>2. /\ w \in Seq(S) /\ DOMAIN w = 1 .. Len(a) + Len(b)
        /\ \A j \in 1 .. Len(a) + Len(b) : w[j] = IF j <= Len(a) THEN a[j] ELSE b[j - Len(a)]
    BY <1>4, <1>5, <2>1, ConcatIs
  <2> QED BY <1>4, <1>5, <1>6, <2>1, <2>2
<1>9. ASSUME NEW k \in 1 .. n
      PROVE  /\ n + 1 - k \in 1 .. n + 1
             /\ plan[n + 1 - k] = Store(at[k], i[k], HashAt(im, at[k - 1], i[k - 1]), ChainAt(im, at[k - 1], i[k - 1]))
  <2>1. n + 1 - k \in 1 .. n /\ n + 1 - k \in 1 .. n + 1 /\ n + 1 - k <= n /\ n + 1 - (n + 1 - k) = k
    BY <1>1
  <2>2. plan[n + 1 - k] = a[n + 1 - k]
    BY <1>8, <2>1
  <2>3. PICK j \in 1 .. n : j = n + 1 - k /\ n + 1 - j = k
    BY <2>1
  <2>4. a[j] = Store(at[k], i[k], HashAt(im, at[k - 1], i[k - 1]), ChainAt(im, at[k - 1], i[k - 1]))
    BY <1>7, <2>3
  <2> QED BY <2>1, <2>2, <2>3, <2>4
<1>10. n + 1 - 0 = n + 1 /\ n + 1 \in 1 .. n + 1 /\ plan[n + 1] = Store(at[0], i[0], g, chain)
  <2>1. n + 1 - 0 = n + 1 /\ n + 1 \in 1 .. n + 1 /\ ~(n + 1 <= n) /\ (n + 1) - n = 1
    BY <1>1
  <2> QED BY <1>5, <1>8, <2>1
<1>11. \A c, e, h, s : LET w == Store(c, e, h, s) IN w.bucket = c /\ w.slot = e /\ w.hash = h /\ w.chain = s
  BY DEF Store
<1>12. ASSUME NEW k \in 0 .. n
       PROVE  n + 1 - k \in 1 .. n + 1 /\ Hits(plan[n + 1 - k], at[k], i[k])
  <2>1. CASE k = 0
    <3>1. Hits(plan[n + 1], at[0], i[0])
      BY <1>10, <1>11 DEF Hits
    <3> QED BY <1>10, <2>1, <3>1
  <2>2. CASE k # 0
    <3>1. k \in 1 .. n
      BY <1>1, <2>2
    <3> QED BY <1>9, <1>11, <3>1 DEF Hits
  <2> QED BY <2>1, <2>2
<1>13. Plan(im.mask, plan)
  <2>1. ASSUME NEW j \in 1 .. n + 1, NEW l \in 1 .. n + 1, Hits(plan[j], plan[l].bucket, plan[l].slot)
        PROVE  j = l
    <3>1. PICK k \in 0 .. n, m \in 0 .. n : k = n + 1 - j /\ m = n + 1 - l /\ j = n + 1 - k /\ l = n + 1 - m
      BY <1>1
    <3>2. plan[j].bucket = at[k] /\ plan[l].bucket = at[m]
      BY <1>12, <3>1 DEF Hits
    <3>3. at[k] = at[m]
      BY <2>1, <3>2 DEF Hits
    <3>4. k = m
      BY <3>3 DEF Path
    <3> QED BY <3>1, <3>4
  <2> QED BY <1>8, <2>1 DEF Plan, S
<1>14. plan[n + 1].hash = g /\ plan[n + 1].chain = chain
  BY <1>10, <1>11
<1>15. \A k \in 1 .. n : /\ plan[n + 1 - k].hash = HashAt(im, at[k - 1], i[k - 1])
                         /\ plan[n + 1 - k].chain = ChainAt(im, at[k - 1], i[k - 1])
  BY <1>9, <1>11
<1> QED BY <1>8, <1>12, <1>13, <1>14, <1>15

LEMMA PathPlanMoves ==
  ASSUME NEW im, IsImpl(im), NEW g \in Hash, NEW chain \in Seq(Node),
         NEW n, NEW at, NEW i, Path(im, g, n, at, i),
         NEW im2, im2 = Applied(im, PathPlan(im, g, chain, n, at, i))
  PROVE  MovedOn(im, im2, g, chain, n, at, i)
<1>1. PICK plan : plan = PathPlan(im, g, chain, n, at, i)
  OBVIOUS
<1>0. n \in Nat
  BY DEF Path
<1>2. /\ Plan(im.mask, plan) /\ DOMAIN plan = 1 .. n + 1
      /\ \A k \in 0 .. n : n + 1 - k \in 1 .. n + 1 /\ Hits(plan[n + 1 - k], at[k], i[k])
      /\ \A k \in 1 .. n : /\ plan[n + 1 - k].hash = HashAt(im, at[k - 1], i[k - 1])
                           /\ plan[n + 1 - k].chain = ChainAt(im, at[k - 1], i[k - 1])
      /\ plan[n + 1].hash = g /\ plan[n + 1].chain = chain
  BY <1>1, PathPlanIs
<1>3. MadeBy(im, plan, im2)
  BY <1>1, <1>2, AppliedIs
<1>4. ASSUME NEW k \in 0 .. n
      PROVE  /\ HashAt(im2, at[k], i[k]) = plan[n + 1 - k].hash
             /\ ChainAt(im2, at[k], i[k]) = plan[n + 1 - k].chain
  BY <1>2, <1>3 DEF MadeBy, Hits
<1>5. HashAt(im2, at[0], i[0]) = g /\ ChainAt(im2, at[0], i[0]) = chain
  <2>1. 0 \in 0 .. n /\ n + 1 - 0 = n + 1
    BY <1>0
  <2> QED BY <1>2, <1>4, <2>1
<1>6. \A k \in 1 .. n : /\ HashAt(im2, at[k], i[k]) = HashAt(im, at[k - 1], i[k - 1])
                        /\ ChainAt(im2, at[k], i[k]) = ChainAt(im, at[k - 1], i[k - 1])
  <2>1. \A k \in 1 .. n : k \in 0 .. n
    OBVIOUS
  <2> QED BY <1>2, <1>4, <2>1
<1>7. ASSUME NEW b \in 0 .. im.mask, NEW j \in Slot, \A k \in 0 .. n : at[k] # b \/ i[k] # j
      PROVE  Unchanged(im, im2, b, j)
  <2>1. ASSUME NEW l \in 1 .. n + 1
        PROVE  ~Hits(plan[l], b, j)
    <3>1. PICK k \in 0 .. n : l = n + 1 - k
      <4>1. n + 1 - l \in 0 .. n /\ l = n + 1 - (n + 1 - l)
        BY <1>0
      <4> QED BY <4>1
    <3> QED BY <1>2, <1>7, <3>1 DEF Hits
  <2> QED BY <1>2, <1>3, <2>1 DEF MadeBy, Unchanged
<1> QED BY <1>3, <1>5, <1>6, <1>7 DEF MovedOn, MadeBy

\* What a beginning of the stores makes of the buckets: the last of the path are
\* moved on.
LEMMA PathPlanBegins ==
  ASSUME NEW im, IsImpl(im), NEW g \in Hash, NEW chain \in Seq(Node),
         NEW n, NEW at, NEW i, Path(im, g, n, at, i),
         NEW plan, plan = PathPlan(im, g, chain, n, at, i), NEW l \in 0 .. n,
         NEW im2, im2 = Applied(im, SubSeq(plan, 1, l))
  PROVE  PartMoved(im, im2, n, at, i, n + 1 - l)
<1>0. n \in Nat /\ l \in Nat /\ l <= n
  BY DEF Path
<1>1. /\ Plan(im.mask, plan) /\ DOMAIN plan = 1 .. n + 1
      /\ \A k \in 0 .. n : n + 1 - k \in 1 .. n + 1 /\ Hits(plan[n + 1 - k], at[k], i[k])
      /\ \A k \in 1 .. n : /\ plan[n + 1 - k].hash = HashAt(im, at[k - 1], i[k - 1])
                           /\ plan[n + 1 - k].chain = ChainAt(im, at[k - 1], i[k - 1])
  BY PathPlanIs
<1>2. PICK v : v = SubSeq(plan, 1, l)
  OBVIOUS
<1>3. Plan(im.mask, v) /\ DOMAIN v = 1 .. l /\ \A j \in 1 .. l : v[j] = plan[j]
  <2>1. plan \in Seq(StoreRec(im.mask)) /\ Len(plan) = n + 1
    BY <1>0, <1>1 DEF Plan
  <2>2. l \in 0 .. Len(plan)
    BY <1>0, <2>1
  <2>3. /\ v \in Seq(StoreRec(im.mask)) /\ DOMAIN v = 1 .. l
        /\ \A j \in 1 .. l : v[j] = plan[j]
    BY <1>2, <2>1, <2>2, BeginningIs
  <2>4. \A j \in 1 .. l : j \in DOMAIN plan
    BY <1>0, <1>1
  <2> QED BY <1>1, <2>3, <2>4 DEF Plan
<1>4. MadeBy(im, v, im2)
  BY <1>2, <1>3, AppliedIs
<1>5. ASSUME NEW k \in 1 .. n, k >= n + 1 - l
      PROVE  /\ HashAt(im2, at[k], i[k]) = HashAt(im, at[k - 1], i[k - 1])
             /\ ChainAt(im2, at[k], i[k]) = ChainAt(im, at[k - 1], i[k - 1])
  <2>1. PICK j \in 1 .. l : j = n + 1 - k
    <3>1. n + 1 - k \in 1 .. l
      BY <1>0, <1>5
    <3> QED BY <3>1
  <2>2. k \in 0 .. n
    BY <1>0
  <2>3. v[j] = plan[n + 1 - k] /\ Hits(v[j], at[k], i[k])
    BY <1>1, <1>3, <2>1, <2>2
  <2>4. HashAt(im2, at[k], i[k]) = v[j].hash /\ ChainAt(im2, at[k], i[k]) = v[j].chain
    BY <1>3, <1>4, <2>3 DEF MadeBy, Hits
  <2> QED BY <1>1, <2>3, <2>4
<1>6. ASSUME NEW b \in 0 .. im.mask, NEW j \in Slot,
             \A k \in 1 .. n : k >= n + 1 - l => at[k] # b \/ i[k] # j
      PROVE  Unchanged(im, im2, b, j)
  <2>1. ASSUME NEW e \in 1 .. l
        PROVE  ~Hits(v[e], b, j)
    <3>1. PICK k \in 1 .. n : e = n + 1 - k /\ k >= n + 1 - l
      <4>1. n + 1 - e \in 1 .. n /\ e = n + 1 - (n + 1 - e) /\ n + 1 - e >= n + 1 - l
        BY <1>0
      <4> QED BY <4>1
    <3>2. k \in 0 .. n
      BY <1>0
    <3>3. v[e] = plan[n + 1 - k] /\ Hits(v[e], at[k], i[k])
      BY <1>1, <1>3, <3>1, <3>2
    <3> QED BY <1>6, <3>1, <3>3 DEF Hits
  <2> QED BY <1>3, <1>4, <2>1 DEF MadeBy, Unchanged
<1> QED BY <1>4, <1>5, <1>6 DEF PartMoved, MadeBy

LEMMA RoutePlansAre ==
  ASSUME NEW im, NEW F, Holds(im, F), NEW g \in Hash, NoRoom(im, g), NEW chain \in Seq(Node),
         NEW plan \in RoutePlans(im, g, chain)
  PROVE  \E n, at, i : Path(im, g, n, at, i) /\ plan = PathPlan(im, g, chain, n, at, i)
<1> DEFINE I(r, n, at, k) == IF k < n THEN r[k + 2] ELSE Min(EmptySlots(im, at[n]))
<1>1. PICK r, m, at :
        /\ r \in RoutesFound(im, g) /\ m = Len(r) - 1 /\ at = StepsTo(im, g, r)
        /\ plan = [j \in 1 .. m |->
                     Store(at[m + 1 - j], I(r, m, at, m + 1 - j),
                           im.buckets[at[(m + 1 - j) - 1]][I(r, m, at, (m + 1 - j) - 1)].hash,
                           im.buckets[at[(m + 1 - j) - 1]][I(r, m, at, (m + 1 - j) - 1)].chain)]
                  \o <<Store(at[0], I(r, m, at, 0), g, chain)>>
  BY Zenon DEF RoutePlans
<1>2. PICK n \in 1 .. MAX_DEPTH + 1 :
        r \in Routes(im, g, n) /\ \A k \in 1 .. n - 1 : Routes(im, g, k) = {}
  BY <1>1, FoundIs
<1>3. n \in Nat /\ n >= 1
  OBVIOUS
<1>4. PICK i : i = SlotsOf(im, n, r, at)
  OBVIOUS
<1>5. Path(im, g, n, at, i)
  BY <1>1, <1>2, <1>3, <1>4, FoundIsPath
<1>6. m = n
  <2>1. PICK X : r \in [1 .. n + 1 -> X]
    BY <1>2, <1>3, RoutesAre DEF RouteOf
  <2>2. Len(r) = n + 1
    BY <1>3, <2>1
  <2>3. m = Len(r) - 1
    BY <1>1
  <2> QED BY <1>3, <2>2, <2>3
<1>7. \A k \in 0 .. n : I(r, n, at, k) = i[k]
  BY <1>4 DEF SlotsOf
<1> HIDE DEF I
<1>8. I(r, n, at, 0) = i[0]
  BY <1>3, <1>7
<1> DEFINE a == [j \in 1 .. n |->
                   Store(at[n + 1 - j], I(r, n, at, n + 1 - j),
                         im.buckets[at[(n + 1 - j) - 1]][I(r, n, at, (n + 1 - j) - 1)].hash,
                         im.buckets[at[(n + 1 - j) - 1]][I(r, n, at, (n + 1 - j) - 1)].chain)]
           b == [j \in 1 .. n |->
                   Store(at[n + 1 - j], i[n + 1 - j], HashAt(im, at[(n + 1 - j) - 1], i[(n + 1 - j) - 1]),
                         ChainAt(im, at[(n + 1 - j) - 1], i[(n + 1 - j) - 1]))]
<1>9. a = b
  <2>1. ASSUME NEW j \in 1 .. n
        PROVE  a[j] = b[j]
    <3>1. n + 1 - j \in 0 .. n /\ (n + 1 - j) - 1 \in 0 .. n
      BY <1>3
    <3>2. I(r, n, at, n + 1 - j) = i[n + 1 - j] /\ I(r, n, at, (n + 1 - j) - 1) = i[(n + 1 - j) - 1]
      BY <1>7, <3>1
    <3> QED BY <3>2 DEF HashAt, ChainAt
  <2> QED BY <2>1
<1>10. plan = a \o <<Store(at[0], I(r, n, at, 0), g, chain)>>
  BY <1>1, <1>6
<1>11. plan = b \o <<Store(at[0], i[0], g, chain)>>
  <2> HIDE DEF a, b
  <2> QED BY <1>8, <1>9, <1>10
<1> QED BY <1>5, <1>11 DEF PathPlan

-----------------------------------------------------------------------------
(***************************************************************************)
(* Insertion.                                                              *)
(***************************************************************************)

\* Where an insertion needs them, the buckets along a route are different.
LEMMA CrowdedIs ==
  ASSUME NEW im, IsImpl(im), NEW g \in Hash
  PROVE  Crowded(im, g) <=> NoRoom(im, g)
<1>1. Range(Candidates(im, g)) = {Candidates(im, g)[1], Candidates(im, g)[2]}
  BY CandidatesAre
<1>2. ASSUME NEW b
      PROVE  SlotsWith(im, b, g) \cup EmptySlots(im, b) = {}
               <=> (\A j \in Slot : HashAt(im, b, j) # g) /\ Filled(im, b)
  <2>1. SlotsWith(im, b, g) = {} <=> \A j \in Slot : HashAt(im, b, j) # g
    BY DEF SlotsWith, HashAt
  <2> QED BY <2>1, FilledIs
<1>3. Crowded(im, g) <=> \A b \in {Candidates(im, g)[1], Candidates(im, g)[2]} :
                            (\A j \in Slot : HashAt(im, b, j) # g) /\ Filled(im, b)
  BY <1>1, <1>2 DEF Crowded
<1> QED BY <1>3 DEF NoRoom, NoneThere

LEMMA RoutesAreSimpleIn ==
  ASSUME NEW im, NEW F, Holds(im, F), NEW g \in Hash, Crowded(im, g), NEW r \in RoutesFound(im, g)
  PROVE  IsInjective(StepsTo(im, g, r))
<1>1. NoRoom(im, g)
  BY CrowdedIs DEF Holds
<1>2. PICK n \in 1 .. MAX_DEPTH + 1 :
        r \in Routes(im, g, n) /\ \A k \in 1 .. n - 1 : Routes(im, g, k) = {}
  BY FoundIs
<1>3. n \in Nat /\ n >= 1
  OBVIOUS
<1>4. PICK at : at = StepsTo(im, g, r)
  OBVIOUS
<1>5. \A j, k \in 0 .. n : at[j] = at[k] => j = k
  BY <1>1, <1>2, <1>3, <1>4, RouteIsSimple
<1>6. DOMAIN at = 0 .. n
  <2>1. PICK X : r \in [1 .. n + 1 -> X]
    BY <1>2, <1>3, RoutesAre DEF RouteOf
  <2>2. Steps(at, im, g, r, n)
    BY <1>3, <1>4, <2>1, StepsToIs
  <2> QED BY <2>2 DEF Steps
<1> QED BY <1>4, <1>5, <1>6 DEF IsInjective

LEMMA RouteKeeps ==
  ASSUME NEW im, NEW F, NEW g, NEW chain, MayGain(im, F, g, chain), NoRoom(im, g),
         NEW plan \in RoutePlans(im, g, chain)
  PROVE  Gained(im, F, g, chain, Applied(im, plan))
<1>1. Holds(im, F) /\ IsImpl(im) /\ g \in Hash /\ chain \in Seq(Node)
  BY DEF MayGain, Holds
<1>2. PICK n, at, i : Path(im, g, n, at, i) /\ plan = PathPlan(im, g, chain, n, at, i)
  BY <1>1, RoutePlansAre
<1>3. PICK im2 : im2 = Applied(im, plan)
  OBVIOUS
<1>4. MovedOn(im, im2, g, chain, n, at, i)
  BY <1>1, <1>2, <1>3, PathPlanMoves
<1>5. NoneThere(im, g)
  BY DEF NoRoom
<1>6. Gained(im, F, g, chain, im2)
  BY <1>2, <1>4, <1>5, MoveKeeps
<1> QED BY <1>3, <1>6

\* Whatever way works, the map has gained the chain and lost none.
LEMMA TryInsertKeeps ==
  ASSUME NEW im, NEW F, NEW g, NEW chain, MayGain(im, F, g, chain),
         NEW im2 \in TryInsert(im, g, chain)
  PROVE  Gained(im, F, g, chain, im2)
<1>1. Holds(im, F) /\ IsImpl(im) /\ g \in Hash
  BY DEF MayGain, Holds
<1>2. PICK plan \in Plans(im, g, chain) : im2 = Applied(im, plan)
  BY DEF TryInsert
<1>3. PICK c \in 0 .. im.mask, d \in 0 .. im.mask : c = Candidates(im, g)[1] /\ d = Candidates(im, g)[2]
  BY <1>1, CandidatesAre
<1>4. \/ plan \in DupPlans(im, g, chain, c)
      \/ DupPlans(im, g, chain, c) = {} /\ plan \in DupPlans(im, g, chain, d)
      \/ /\ DupPlans(im, g, chain, c) = {} /\ DupPlans(im, g, chain, d) = {}
         /\ \/ plan \in BucketPlans(im, g, chain, c)
            \/ plan \in BucketPlans(im, g, chain, d)
            \/ /\ BucketPlans(im, g, chain, c) = {} /\ BucketPlans(im, g, chain, d) = {}
               /\ plan \in RoutePlans(im, g, chain)
  BY <1>2, <1>3 DEF Plans, OrElse
<1>5. /\ DupPlans(im, g, chain, c) = {} => \A j \in Slot : HashAt(im, c, j) # g
      /\ DupPlans(im, g, chain, d) = {} => \A j \in Slot : HashAt(im, d, j) # g
  BY <1>1, DupPlansAre
<1>6. \A b : BucketPlans(im, g, chain, b) = {} => Filled(im, b)
  <2>1. ASSUME NEW b, BucketPlans(im, g, chain, b) = {}
        PROVE  EmptySlots(im, b) = {}
    BY <2>1 DEF BucketPlans
  <2> QED BY <2>1, FilledIs
<1>7. CASE plan \in DupPlans(im, g, chain, c)
  <2>1. Gained(im, F, g, chain, Applied(im, plan))
    BY <1>3, <1>7, DupKeeps
  <2> QED BY <1>2, <2>1
<1>8. CASE DupPlans(im, g, chain, c) = {} /\ plan \in DupPlans(im, g, chain, d)
  <2>1. Gained(im, F, g, chain, Applied(im, plan))
    BY <1>3, <1>5, <1>8, DupKeeps
  <2> QED BY <1>2, <2>1
<1>9. CASE DupPlans(im, g, chain, c) = {} /\ DupPlans(im, g, chain, d) = {}
  <2>1. NoneThere(im, g)
    BY <1>3, <1>5, <1>9 DEF NoneThere
  <2>2. CASE plan \in BucketPlans(im, g, chain, c)
    <3>1. Gained(im, F, g, chain, Applied(im, plan))
      BY <1>3, <2>1, <2>2, BucketKeeps
    <3> QED BY <1>2, <3>1
  <2>3. CASE plan \in BucketPlans(im, g, chain, d)
    <3>1. Gained(im, F, g, chain, Applied(im, plan))
      BY <1>3, <2>1, <2>3, BucketKeeps
    <3> QED BY <1>2, <3>1
  <2>4. CASE /\ BucketPlans(im, g, chain, c) = {} /\ BucketPlans(im, g, chain, d) = {}
             /\ plan \in RoutePlans(im, g, chain)
    <3>1. NoRoom(im, g)
      BY <1>3, <1>6, <2>1, <2>4 DEF NoRoom
    <3>2. Gained(im, F, g, chain, Applied(im, plan))
      BY <2>4, <3>1, RouteKeeps
    <3> QED BY <1>2, <3>2
  <2>5. CASE plan \in DupPlans(im, g, chain, c) \/ plan \in DupPlans(im, g, chain, d)
    BY <1>9, <2>5
  <2> QED BY <1>4, <1>9, <2>2, <2>3, <2>4, <2>5
<1> QED BY <1>4, <1>7, <1>8, <1>9

-----------------------------------------------------------------------------
(***************************************************************************)
(* What a search finds between the stores of an insertion.                 *)
(***************************************************************************)

\* Before the first store it finds what it found.
LEMMA NoStoreYet ==
  ASSUME NEW im, NEW F, Holds(im, F), NEW h \in Hash, F[h] # << >>,
         NEW im2, im2 = Applied(im, << >>)
  PROVE  find(im2, h) = F[h]
<1>1. IsImpl(im)
  BY DEF Holds
<1>2. Plan(im.mask, << >>) /\ DOMAIN << >> = {}
  BY DEF Plan
<1>3. MadeBy(im, << >>, im2)
  BY <1>1, <1>2, AppliedIs
<1>4. IsImpl(im2) /\ im2.mask = im.mask /\ im2.basis = im.basis
  BY <1>3 DEF MadeBy
<1>5. ASSUME NEW b \in 0 .. im.mask, NEW j \in Slot
      PROVE  Unchanged(im, im2, b, j)
  BY <1>2, <1>3 DEF MadeBy, Unchanged
<1>6. PICK b \in 0 .. im.mask, j \in Slot : Sits(im, h, b, j)
  BY DEF Holds
<1>7. Foremost(im, h, b, j) /\ ChainAt(im, b, j) = F[h] /\ HashAt(im, b, j) = h
  BY <1>6 DEF Holds, Sits, InPlace
<1>8. Foremost(im2, h, b, j)
  BY <1>1, <1>4, <1>5, <1>7, ForemostStays DEF Unchanged
<1> QED BY <1>4, <1>5, <1>7, <1>8, ForemostIsFound DEF Unchanged

\* An insertion is one store, or it moves slots because there is no room.
LEMMA PlansAre ==
  ASSUME NEW im, IsImpl(im), NEW g \in Hash, NEW chain, NEW plan \in Plans(im, g, chain)
  PROVE  (\E s : plan = <<s>>) \/ (NoRoom(im, g) /\ plan \in RoutePlans(im, g, chain))
<1>1. PICK c \in 0 .. im.mask, d \in 0 .. im.mask : c = Candidates(im, g)[1] /\ d = Candidates(im, g)[2]
  BY CandidatesAre
<1>2. \A b : plan \in BucketPlans(im, g, chain, b) => \E s : plan = <<s>>
  BY DEF BucketPlans
<1>3. \A b \in 0 .. im.mask : plan \in DupPlans(im, g, chain, b) => \E s : plan = <<s>>
  BY DupPlansAre
<1>4. CASE \/ plan \in DupPlans(im, g, chain, c) \/ plan \in DupPlans(im, g, chain, d)
           \/ plan \in BucketPlans(im, g, chain, c) \/ plan \in BucketPlans(im, g, chain, d)
  BY <1>2, <1>3, <1>4
<1>5. CASE ~(\/ plan \in DupPlans(im, g, chain, c) \/ plan \in DupPlans(im, g, chain, d)
             \/ plan \in BucketPlans(im, g, chain, c) \/ plan \in BucketPlans(im, g, chain, d))
  <2>1. /\ DupPlans(im, g, chain, c) = {} /\ DupPlans(im, g, chain, d) = {}
        /\ BucketPlans(im, g, chain, c) = {} /\ BucketPlans(im, g, chain, d) = {}
        /\ plan \in RoutePlans(im, g, chain)
    BY <1>1, <1>5 DEF Plans, OrElse
  <2>2. NoneThere(im, g)
    BY <1>1, <2>1, DupPlansAre DEF NoneThere
  <2>3. EmptySlots(im, c) = {} /\ EmptySlots(im, d) = {}
    BY <2>1 DEF BucketPlans
  <2>4. NoRoom(im, g)
    BY <1>1, <2>2, <2>3, FilledIs DEF NoRoom
  <2> QED BY <2>1, <2>4
<1> QED BY <1>4, <1>5

\* After the last store, with the chain gained.
LEMMA GainedFinds ==
  ASSUME NEW im, NEW F, NEW g, NEW chain, MayGain(im, F, g, chain),
         NEW im2, Gained(im, F, g, chain, im2), NEW h \in Hash
  PROVE  Range(F[h]) \subseteq Range(find(im2, h))
<1>1. PICK G : G = [F EXCEPT ![g] = chain \o F[g]]
  OBVIOUS
<1>2. Holds(im2, G) /\ find(im2, h) = G[h]
  BY <1>1, FindIs DEF Gained
<1>3. F \in [Hash -> Seq(Node)] /\ g \in Hash /\ chain \in Seq(Node)
  BY DEF MayGain, Holds, Chains
<1>4. CASE h # g
  BY <1>1, <1>2, <1>3, <1>4
<1>5. CASE h = g
  <2>1. PICK u \in Seq(Node), v \in Seq(Node) : u = chain /\ v = F[g]
    BY <1>3
  <2>2. PICK w : w = u \o v
    OBVIOUS
  <2>3. /\ DOMAIN w = 1 .. Len(u) + Len(v)
        /\ \A k \in 1 .. Len(u) + Len(v) : w[k] = IF k <= Len(u) THEN u[k] ELSE v[k - Len(u)]
    BY <2>2, ConcatIs
  <2>4. Range(v) \subseteq Range(w)
    <3> SUFFICES ASSUME NEW k \in 1 .. Len(v)
                 PROVE  v[k] \in Range(w)
      BY DEF Range
    <3>1. Len(u) \in Nat /\ Len(v) \in Nat
      OBVIOUS
    <3>2. /\ Len(u) + k \in 1 .. Len(u) + Len(v) /\ ~(Len(u) + k <= Len(u))
          /\ (Len(u) + k) - Len(u) = k
      BY <3>1
    <3>3. w[Len(u) + k] = v[k]
      BY <2>3, <3>2
    <3> QED BY <2>3, <3>2, <3>3 DEF Range
  <2>5. find(im2, h) = w /\ F[h] = v
    BY <1>1, <1>2, <1>3, <1>5, <2>1, <2>2
  <2> QED BY <2>4, <2>5
<1> QED BY <1>4, <1>5

\* After each of its stores a search finds all that it found before.
LEMMA StoresFind ==
  ASSUME NEW im, NEW F, NEW g, NEW chain, MayGain(im, F, g, chain),
         NEW plan \in Plans(im, g, chain), NEW k \in 0 .. Len(plan),
         NEW h \in Hash, F[h] # << >>
  PROVE  Range(F[h]) \subseteq Range(find(Applied(im, SubSeq(plan, 1, k)), h))
<1>1. Holds(im, F) /\ IsImpl(im) /\ g \in Hash /\ chain \in Seq(Node)
  BY DEF MayGain, Holds
<1>2. Range(F[h]) \subseteq Range(find(Applied(im, plan), h))
  <2>1. PICK im2 : im2 = Applied(im, plan)
    OBVIOUS
  <2>2. Gained(im, F, g, chain, im2)
    <3>1. im2 \in TryInsert(im, g, chain)
      BY <2>1 DEF TryInsert
    <3> QED BY <3>1, TryInsertKeeps
  <2> QED BY <2>1, <2>2, GainedFinds
<1>3. \A X : plan \in Seq(X) /\ k = Len(plan) => SubSeq(plan, 1, k) = plan
  <2> SUFFICES ASSUME NEW X, plan \in Seq(X), k = Len(plan)
               PROVE  SubSeq(plan, 1, k) = plan
    OBVIOUS
  <2>1. Len(plan) \in 0 .. Len(plan)
    OBVIOUS
  <2>2. PICK v : v = SubSeq(plan, 1, Len(plan))
    OBVIOUS
  <2>3. v \in Seq(X) /\ Len(v) = Len(plan) /\ \A j \in 1 .. Len(plan) : v[j] = plan[j]
    BY <2>1, <2>2, BeginningIs
  <2>4. v = plan
    BY <2>3, SameList
  <2> QED BY <2>2, <2>4
<1>4. ASSUME NEW s, plan = <<s>>
      PROVE  Range(F[h]) \subseteq Range(find(Applied(im, SubSeq(plan, 1, k)), h))
  <2>1. plan \in Seq({s}) /\ Len(plan) = 1
    BY <1>4
  <2>2. CASE k = Len(plan)
    BY <1>2, <1>3, <2>1, <2>2
  <2>3. CASE k # Len(plan)
    <3>1. k = 0
      BY <2>1, <2>3
    <3>2. SubSeq(plan, 1, 0) = << >>
      BY <2>1
    <3>3. find(Applied(im, << >>), h) = F[h]
      BY <1>1, NoStoreYet
    <3> QED BY <3>1, <3>2, <3>3
  <2> QED BY <2>2, <2>3
<1>5. ASSUME NoRoom(im, g), plan \in RoutePlans(im, g, chain)
      PROVE  Range(F[h]) \subseteq Range(find(Applied(im, SubSeq(plan, 1, k)), h))
  <2>1. PICK n, at, i : Path(im, g, n, at, i) /\ plan = PathPlan(im, g, chain, n, at, i)
    BY <1>1, <1>5, RoutePlansAre
  <2>2. n \in Nat /\ plan \in Seq(StoreRec(im.mask)) /\ Len(plan) = n + 1
    <3>1. n \in Nat
      BY <2>1 DEF Path
    <3>2. Plan(im.mask, plan) /\ DOMAIN plan = 1 .. n + 1
      BY <1>1, <2>1, PathPlanIs
    <3> QED BY <3>1, <3>2 DEF Plan
  <2>3. CASE k = Len(plan)
    BY <1>2, <1>3, <2>2, <2>3
  <2>4. CASE k # Len(plan)
    <3>1. k \in 0 .. n /\ n + 1 - k \in 1 .. n + 1
      BY <2>2, <2>4
    <3>2. PICK t \in 1 .. n + 1 : t = n + 1 - k
      BY <3>1
    <3>3. PICK im2 : im2 = Applied(im, SubSeq(plan, 1, k))
      OBVIOUS
    <3>4. PartMoved(im, im2, n, at, i, t)
      BY <1>1, <2>1, <3>1, <3>2, <3>3, PathPlanBegins
    <3>5. NoneThere(im, g)
      BY <1>5 DEF NoRoom
    <3>6. find(im2, h) = F[h]
      BY <1>1, <2>1, <3>4, <3>5, PartMovedFinds
    <3> QED BY <3>3, <3>6
  <2> QED BY <2>3, <2>4
<1> QED BY <1>1, <1>4, <1>5, PlansAre

-----------------------------------------------------------------------------
(***************************************************************************)
(* Rehashing.  The places 1, 2, .. are the slots of all buckets in their   *)
(* order.                                                                  *)
(***************************************************************************)

BucketAt(q) == (q - 1) \div CMAP_K
SlotAt(q)   == 1 + ((q - 1) % CMAP_K)

LEMMA PlaceIs ==
  ASSUME NEW m \in Nat, NEW q \in 1 .. (m + 1) * CMAP_K
  PROVE  BucketAt(q) \in 0 .. m /\ SlotAt(q) \in Slot /\ q - 1 = CMAP_K * BucketAt(q) + (SlotAt(q) - 1)
<1>0. CMAP_K \in Nat /\ CMAP_K >= 1
  BY SlotsAre
<1>1. PICK k \in Nat : k = CMAP_K /\ k >= 1
  BY <1>0
<1>2. PICK x \in Nat : x = q - 1
  BY <1>0
<1>3. x = k * (x \div k) + (x % k) /\ x % k \in 0 .. k - 1
  BY <1>1
<1>4. PICK d \in Nat : d = x \div k /\ d * k <= x
  BY <1>1, QuotientIs
<1>5. d <= m
  <2>1. SUFFICES ASSUME m + 1 <= d
                 PROVE  FALSE
    OBVIOUS
  <2>2. (m + 1) * k <= d * k
    BY <2>1, TimesOrdered
  <2>3. PICK t \in Nat : t = (m + 1) * k
    BY <1>1
  <2>4. x < t
    BY <1>1, <1>2, <2>3
  <2>5. PICK u \in Nat : u = d * k
    BY <1>1
  <2> QED BY <1>4, <2>2, <2>3, <2>4, <2>5
<1>6. PICK e \in 0 .. k - 1 : e = x % k
  BY <1>3
<1>7. BucketAt(q) = d /\ SlotAt(q) = 1 + e
  BY <1>1, <1>2, <1>4, <1>6 DEF BucketAt, SlotAt
<1>8. x = k * d + e
  BY <1>3, <1>4, <1>6
<1>9. 1 + e \in Slot /\ (1 + e) - 1 = e
  BY <1>1 DEF Slot
<1> QED BY <1>1, <1>2, <1>5, <1>7, <1>8, <1>9

LEMMA PlaceOf ==
  ASSUME NEW m \in Nat, NEW b \in 0 .. m, NEW i \in Slot
  PROVE  \E q \in 1 .. (m + 1) * CMAP_K : BucketAt(q) = b /\ SlotAt(q) = i
<1>1. PICK k \in Nat : k = CMAP_K /\ k >= 1
  BY SlotsAre
<1>2. i \in 1 .. k
  BY <1>1 DEF Slot
<1>3. PICK p \in Nat : p = b * k /\ p = k * b
  OBVIOUS
<1>4. (b + 1) * k = p + k
  BY <1>3
<1>5. PICK t \in Nat : t = (m + 1) * k
  OBVIOUS
<1>6. p + k <= t
  <2>1. b + 1 <= m + 1
    OBVIOUS
  <2>2. (b + 1) * k <= (m + 1) * k
    BY <2>1, TimesOrdered
  <2> QED BY <1>4, <1>5, <2>2
<1>7. PICK x \in Nat : x = p + (i - 1) /\ p <= x /\ x < p + k /\ x + 1 \in 1 .. t
  BY <1>2, <1>6
<1>8. x \div k = b
  <2>1. b * k <= x /\ x < (b + 1) * k
    BY <1>3, <1>4, <1>7
  <2> QED BY <1>1, <2>1, QuotientIs
<1>9. x = k * (x \div k) + (x % k) /\ x % k \in 0 .. k - 1
  BY <1>1
<1>10. x % k = i - 1
  <2>1. PICK e \in 0 .. k - 1 : e = x % k
    BY <1>9
  <2>2. x = p + e
    BY <1>3, <1>8, <1>9, <2>1
  <2> QED BY <1>2, <1>7, <2>1, <2>2
<1>11. PICK q : q = x + 1 /\ q - 1 = x
  BY <1>7
<1>12. BucketAt(q) = b /\ SlotAt(q) = i
  BY <1>1, <1>2, <1>8, <1>10, <1>11 DEF BucketAt, SlotAt
<1> QED BY <1>1, <1>5, <1>7, <1>11, <1>12

\* What a rehash makes of the implementations it has so far at the place q.
Taken(old, so, q) ==
  IF old.buckets[BucketAt(q)][SlotAt(q)].chain = << >> THEN so
  ELSE UNION {TryInsert(im, old.buckets[BucketAt(q)][SlotAt(q)].hash,
                        old.buckets[BucketAt(q)][SlotAt(q)].chain) : im \in so}

\* made is the function by which TryRehash is defined.
Rebuilds(made, old, mask, basis, n) ==
  made = [q \in 0 .. n |-> IF q = 0 THEN {NewImpl(mask, basis, old.n)} ELSE Taken(old, made[q - 1], q)]

LEMMA RebuildsExist ==
  ASSUME NEW old, NEW mask, NEW basis
  PROVE  \A n \in Nat : \E made : Rebuilds(made, old, mask, basis, n)
<1> DEFINE P == {n \in Nat : \E made : Rebuilds(made, old, mask, basis, n)}
           first == {NewImpl(mask, basis, old.n)}
<1>1. 0 \in P
  <2> DEFINE f == [q \in 0 .. 0 |-> first]
  <2>1. f = [q \in 0 .. 0 |-> IF q = 0 THEN first ELSE Taken(old, f[q - 1], q)]
    OBVIOUS
  <2> HIDE DEF f
  <2> QED BY <2>1 DEF Rebuilds
<1>2. ASSUME NEW n \in Nat, n \in P
      PROVE  n + 1 \in P
  <2>1. PICK f : Rebuilds(f, old, mask, basis, n)
    BY <1>2
  <2> DEFINE last == Taken(old, f[n], n + 1)
             e == [q \in 0 .. n + 1 |-> IF q <= n THEN f[q] ELSE last]
             h == [q \in 0 .. n + 1 |-> IF q = 0 THEN first ELSE Taken(old, e[q - 1], q)]
  <2>2. ASSUME NEW q \in 0 .. n + 1
        PROVE  e[q] = h[q]
    <3>1. CASE q = 0
      <4>1. e[q] = f[q] /\ f[q] = first
        BY <2>1, <3>1 DEF Rebuilds
      <4> QED BY <3>1, <4>1
    <3>2. CASE q # 0 /\ q <= n
      <4>1. q \in 0 .. n /\ q - 1 \in 0 .. n + 1 /\ q - 1 <= n
        BY <3>2
      <4>2. e[q] = f[q] /\ e[q - 1] = f[q - 1]
        BY <4>1
      <4>3. f[q] = Taken(old, f[q - 1], q)
        BY <2>1, <3>2, <4>1 DEF Rebuilds
      <4>4. h[q] = Taken(old, e[q - 1], q)
        BY <3>2
      <4> HIDE DEF e, h
      <4> QED BY <4>2, <4>3, <4>4
    <3>3. CASE q = n + 1
      <4>1. ~(q <= n) /\ q # 0 /\ q - 1 = n /\ n \in 0 .. n + 1 /\ n <= n
        BY <3>3
      <4>2. e[q] = last /\ e[n] = f[n]
        BY <4>1
      <4>3. h[q] = Taken(old, e[n], n + 1)
        BY <3>3, <4>1
      <4> HIDE DEF e, h
      <4> QED BY <4>2, <4>3
    <3> QED BY <3>1, <3>2, <3>3
  <2>3. e = h
    BY <2>2
  <2>4. Rebuilds(e, old, mask, basis, n + 1)
    <3>1. e = [q \in 0 .. n + 1 |-> IF q = 0 THEN first ELSE Taken(old, e[q - 1], q)]
      <4> HIDE DEF e
      <4> QED BY <2>3
    <3> HIDE DEF e, h
    <3> QED BY <3>1 DEF Rebuilds
  <2> QED BY <2>4
<1>3. \A n \in Nat : n \in P
  <2> HIDE DEF P
  <2> QED BY <1>1, <1>2, NatInduct
<1> QED BY <1>3

LEMMA TryRehashIs ==
  ASSUME NEW old, NEW mask, NEW basis, NEW n \in Nat, n = (old.mask + 1) * CMAP_K
  PROVE  \E made : Rebuilds(made, old, mask, basis, n) /\ TryRehash(old, mask, basis) = made[n]
<1> DEFINE made == CHOOSE f : Rebuilds(f, old, mask, basis, n)
<1>1. Rebuilds(made, old, mask, basis, n)
  BY RebuildsExist, Zenon
<1>2. TryRehash(old, mask, basis) = made[n]
  BY Zenon DEF TryRehash, Rebuilds, Taken, BucketAt, SlotAt
<1> QED BY <1>1, <1>2

\* The chains of the hashes that sit in the first q places of old.
Part(old, F, q) ==
  [g \in Hash |-> IF \E p \in 1 .. q : Sits(old, g, BucketAt(p), SlotAt(p)) THEN F[g] ELSE << >>]

LEMMA NewHolds ==
  ASSUME NEW mask \in Nat, NEW basis \in Basis, NEW n \in Int, NEW F, F = [g \in Hash |-> << >>]
  PROVE  Holds(NewImpl(mask, basis, n), F)
<1>1. PICK im : im = NewImpl(mask, basis, n)
  OBVIOUS
<1>2. /\ im = [mask |-> im.mask, basis |-> im.basis, n |-> im.n, buckets |-> im.buckets]
      /\ im.mask = mask /\ im.basis = basis /\ im.n = n
      /\ im.buckets = [b \in 0 .. mask |-> [i \in Slot |-> [hash |-> Zero, chain |-> << >>]]]
  BY <1>1 DEF NewImpl
<1>3. IsImpl(im)
  <2>1. [hash |-> Zero, chain |-> << >>] \in Content
    BY DEF Content
  <2>2. im.buckets \in Table(mask)
    BY <1>2, <2>1 DEF Table
  <2> QED BY <1>2, <2>2 DEF IsImpl
<1>4. \A b \in 0 .. im.mask : \A i \in Slot : ~Used(im, b, i)
  BY <1>2 DEF Used, ChainAt
<1>5. Chains(F) /\ \A g \in Hash : F[g] = << >>
  <2>1. \A g \in Hash : F[g] = << >>
    OBVIOUS
  <2>2. << >> \in Seq(Node) /\ IsInjective(<< >>) /\ Range(<< >>) = {}
    BY DEF IsInjective, Range
  <2>3. \A g \in Hash : ChainOf(g, << >>)
    BY <2>2 DEF ChainOf
  <2>4. F \in [Hash -> Seq(Node)]
    BY <2>2
  <2> QED BY <2>1, <2>3, <2>4 DEF Chains
<1> QED BY <1>1, <1>3, <1>4, <1>5 DEF Holds

LEMMA TakenKeeps ==
  ASSUME NEW old, NEW F, Holds(old, F), NEW q \in Nat, q + 1 \in 1 .. (old.mask + 1) * CMAP_K,
         NEW so, \A im \in so : Holds(im, Part(old, F, q)), NEW mask, NEW basis,
         \A im \in so : im.mask = mask /\ im.basis = basis /\ im.n = old.n,
         NEW im2 \in Taken(old, so, q + 1)
  PROVE  Holds(im2, Part(old, F, q + 1)) /\ im2.mask = mask /\ im2.basis = basis /\ im2.n = old.n
<1>0. old.mask \in Nat /\ Chains(F)
  BY DEF Holds, IsImpl
<1>1. PICK b \in 0 .. old.mask, i \in Slot : b = BucketAt(q + 1) /\ i = SlotAt(q + 1)
  BY <1>0, PlaceIs
<1>2. \A p \in 1 .. q + 1 : p \in 1 .. q \/ p = q + 1
  OBVIOUS
<1>3. \A p \in 1 .. q : p \in 1 .. q + 1
  OBVIOUS
<1>4. CASE ~Used(old, b, i)
  <2>1. im2 \in so
    BY <1>1, <1>4 DEF Taken, Used, ChainAt
  <2>2. ASSUME NEW g \in Hash
        PROVE  (\E p \in 1 .. q + 1 : Sits(old, g, BucketAt(p), SlotAt(p)))
                 <=> \E p \in 1 .. q : Sits(old, g, BucketAt(p), SlotAt(p))
    BY <1>1, <1>2, <1>3, <1>4 DEF Sits
  <2>3. Part(old, F, q + 1) = Part(old, F, q)
    BY <2>2 DEF Part
  <2> QED BY <2>1, <2>3
<1>5. CASE Used(old, b, i)
  <2>1. PICK g : g = HashAt(old, b, i)
    OBVIOUS
  <2>2. InPlace(old, F, b, i) /\ Sits(old, g, b, i)
    BY <1>5, <2>1 DEF Holds, Sits
  <2>3. g \in Hash /\ ChainAt(old, b, i) = F[g] /\ F[g] # << >>
    BY <1>5, <2>1, <2>2 DEF InPlace, Used
  <2>4. PICK im \in so : im2 \in TryInsert(im, g, F[g])
    BY <1>1, <1>5, <2>1, <2>3 DEF Taken, Used, ChainAt, HashAt
  <2>5. PICK F1 : F1 = Part(old, F, q)
    OBVIOUS
  <2>6. ~\E p \in 1 .. q : Sits(old, g, BucketAt(p), SlotAt(p))
    <3>1. SUFFICES ASSUME NEW p \in 1 .. q, Sits(old, g, BucketAt(p), SlotAt(p))
                   PROVE  FALSE
      OBVIOUS
    <3>2. PICK N \in Int : N = (old.mask + 1) * CMAP_K
      BY <1>0, SlotsAre
    <3>3. p \in 1 .. N /\ q + 1 \in 1 .. N
      BY <3>2
    <3>4. /\ BucketAt(p) \in 0 .. old.mask /\ SlotAt(p) \in Slot
          /\ p - 1 = CMAP_K * BucketAt(p) + (SlotAt(p) - 1)
          /\ (q + 1) - 1 = CMAP_K * BucketAt(q + 1) + (SlotAt(q + 1) - 1)
      BY <1>0, <3>2, <3>3, PlaceIs
    <3>5. BucketAt(p) = b /\ SlotAt(p) = i
      BY <2>2, <3>1, <3>4, OnlyOne
    <3>6. p - 1 = (q + 1) - 1
      BY <1>1, <3>4, <3>5
    <3> QED BY <3>6
  <2>7. F1[g] = << >>
    BY <2>3, <2>5, <2>6 DEF Part
  <2>8. F[g] \in Seq(Node) /\ F[g] \o F1[g] = F[g] /\ ChainOf(g, F[g])
    <3>1. F[g] \in Seq(Node) /\ ChainOf(g, F[g])
      BY <1>0, <2>3 DEF Chains
    <3> QED BY <2>7, <3>1
  <2>9. MayGain(im, F1, g, F[g])
    BY <2>3, <2>4, <2>5, <2>8 DEF MayGain
  <2>10. Gained(im, F1, g, F[g], im2)
    BY <2>4, <2>9, TryInsertKeeps
  <2>11. Holds(im2, [F1 EXCEPT ![g] = F[g]])
    BY <2>8, <2>10 DEF Gained
  <2>12. ASSUME NEW h \in Hash
         PROVE  [F1 EXCEPT ![g] = F[g]][h] = Part(old, F, q + 1)[h]
    <3>1. CASE h = g
      <4>1. \E p \in 1 .. q + 1 : Sits(old, g, BucketAt(p), SlotAt(p))
        <5>1. q + 1 \in 1 .. q + 1
          OBVIOUS
        <5> QED BY <1>1, <2>2, <5>1
      <4> QED BY <2>5, <3>1, <4>1 DEF Part
    <3>2. CASE h # g
      <4>1. (\E p \in 1 .. q + 1 : Sits(old, h, BucketAt(p), SlotAt(p)))
                 <=> \E p \in 1 .. q : Sits(old, h, BucketAt(p), SlotAt(p))
        BY <1>1, <1>2, <1>3, <2>1, <3>2 DEF Sits
      <4> QED BY <2>5, <3>2, <4>1 DEF Part
    <3> QED BY <3>1, <3>2
  <2>13. [F1 EXCEPT ![g] = F[g]] = Part(old, F, q + 1)
    BY <2>5, <2>12 DEF Part
  <2> QED BY <2>4, <2>10, <2>11, <2>13 DEF Gained
<1> QED BY <1>4, <1>5

\* A rehash that works keeps the chain of every hash.
LEMMA TryRehashKeeps ==
  ASSUME NEW old, NEW F, Holds(old, F), NEW mask \in Nat, NEW basis \in Basis,
         NEW im \in TryRehash(old, mask, basis)
  PROVE  Holds(im, F) /\ im.mask = mask /\ im.basis = basis /\ im.n = old.n
<1>0. old.mask \in Nat /\ old.n \in Int /\ Chains(F)
  BY DEF Holds, IsImpl
<1>1. PICK n \in Nat : n = (old.mask + 1) * CMAP_K
  BY <1>0, SlotsAre
<1>2. PICK made : Rebuilds(made, old, mask, basis, n) /\ TryRehash(old, mask, basis) = made[n]
  BY <1>1, TryRehashIs
<1> DEFINE Good(m, q) == /\ Holds(m, Part(old, F, q))
                         /\ m.mask = mask /\ m.basis = basis /\ m.n = old.n
           P == {q \in Nat : q <= n => \A m \in made[q] : Good(m, q)}
<1>3. 0 \in P
  <2>1. made[0] = {NewImpl(mask, basis, old.n)}
    BY <1>2 DEF Rebuilds
  <2>2. Part(old, F, 0) = [g \in Hash |-> << >>]
    BY DEF Part
  <2>3. Good(NewImpl(mask, basis, old.n), 0)
    BY <1>0, <2>2, NewHolds DEF NewImpl
  <2> HIDE DEF Good
  <2> QED BY <2>1, <2>3
<1>4. ASSUME NEW q \in Nat, q \in P
      PROVE  q + 1 \in P
  <2>1. SUFFICES ASSUME q + 1 <= n, NEW m \in made[q + 1]
                 PROVE  Good(m, q + 1)
    OBVIOUS
  <2>2. q + 1 \in 0 .. n /\ q + 1 # 0 /\ (q + 1) - 1 = q /\ q <= n /\ q + 1 \in 1 .. n
    BY <2>1
  <2>3. made[q + 1] = Taken(old, made[q], q + 1)
    BY <1>2, <2>2 DEF Rebuilds
  <2>4. \A k \in made[q] : Good(k, q)
    BY <1>4, <2>2
  <2>5. PICK so : so = made[q]
    OBVIOUS
  <2>6. /\ q + 1 \in 1 .. (old.mask + 1) * CMAP_K
        /\ m \in Taken(old, so, q + 1)
        /\ \A k \in so : Holds(k, Part(old, F, q))
        /\ \A k \in so : k.mask = mask /\ k.basis = basis /\ k.n = old.n
    BY <1>1, <2>1, <2>2, <2>3, <2>4, <2>5
  <2> HIDE DEF P, Good
  <2>7. /\ Holds(m, Part(old, F, q + 1))
        /\ m.mask = mask /\ m.basis = basis /\ m.n = old.n
    BY <2>6, TakenKeeps
  <2> QED BY <2>7 DEF Good
<1>5. n \in P
  <2> HIDE DEF P
  <2> QED BY <1>3, <1>4, NatInduct
<1>6. Good(im, n)
  BY <1>2, <1>5
<1>7. Part(old, F, n) = F
  <2>1. ASSUME NEW g \in Hash
        PROVE  Part(old, F, n)[g] = F[g]
    <3>1. CASE F[g] = << >>
      BY <3>1 DEF Part
    <3>2. CASE F[g] # << >>
      <4>1. PICK b \in 0 .. old.mask, i \in Slot : Sits(old, g, b, i)
        BY <3>2 DEF Holds
      <4>2. PICK q \in 1 .. n : BucketAt(q) = b /\ SlotAt(q) = i
        BY <1>0, <1>1, PlaceOf
      <4> QED BY <4>1, <4>2 DEF Part
    <3> QED BY <3>1, <3>2
  <2> QED BY <1>0, <2>1 DEF Part, Chains
<1> QED BY <1>6, <1>7

-----------------------------------------------------------------------------
(***************************************************************************)
(* Removal and replacement.                                                *)
(***************************************************************************)

LEMMA SetChain ==
  ASSUME NEW im, IsImpl(im), NEW b \in 0 .. im.mask, NEW i \in Slot, NEW s \in Seq(Node),
         NEW im2, im2 = [im EXCEPT !.buckets[b][i].chain = s]
  PROVE  Wrote(im, im2, b, i, HashAt(im, b, i), s) /\ im2.n = im.n
<1>1. PICK row \in [Slot -> Content] : row = im.buckets[b]
  BY ContentIs
<1>2. im.buckets \in [0 .. im.mask -> [Slot -> Content]]
  BY DEF IsImpl, Table
<1>3. PICK r \in Content : r = [row[i] EXCEPT !.chain = s] /\ r.hash = row[i].hash /\ r.chain = s
  <2>1. row[i] \in Content
    OBVIOUS
  <2>2. PICK u : u = row[i]
    OBVIOUS
  <2>3. u = [hash |-> u.hash, chain |-> u.chain] /\ u.hash \in Hash \cup {Zero}
    BY <2>1, <2>2 DEF Content
  <2> DEFINE w == [hash |-> u.hash, chain |-> s]
  <2>4. w = [u EXCEPT !.chain = s]
    BY <2>3
  <2>5. w \in Content
    BY <2>3 DEF Content
  <2> QED BY <2>2, <2>4, <2>5
<1>4. PICK row2 \in [Slot -> Content] : /\ row2 = [row EXCEPT ![i] = r]
                                        /\ row2[i] = r /\ \A j \in Slot : j # i => row2[j] = row[j]
  <2> DEFINE w == [row EXCEPT ![i] = r]
  <2>1. w \in [Slot -> Content] /\ w[i] = r /\ \A j \in Slot : j # i => w[j] = row[j]
    OBVIOUS
  <2> QED BY <2>1
<1>5. PICK bs : /\ bs = [im.buckets EXCEPT ![b] = row2] /\ bs \in [0 .. im.mask -> [Slot -> Content]]
                /\ bs[b] = row2 /\ \A c \in 0 .. im.mask : c # b => bs[c] = im.buckets[c]
  <2> DEFINE w == [im.buckets EXCEPT ![b] = row2]
  <2>1. w \in [0 .. im.mask -> [Slot -> Content]] /\ w[b] = row2
        /\ \A c \in 0 .. im.mask : c # b => w[c] = im.buckets[c]
    BY <1>2
  <2> QED BY <2>1
<1>6. im2 = [im EXCEPT !.buckets = bs]
  BY <1>1, <1>3, <1>4, <1>5
<1>7. im2 = [mask |-> im.mask, basis |-> im.basis, n |-> im.n, buckets |-> bs]
  BY <1>6 DEF IsImpl
<1>8. im2.mask = im.mask /\ im2.basis = im.basis /\ im2.n = im.n /\ im2.buckets = bs
  BY <1>7
<1>9. IsImpl(im2)
  BY <1>5, <1>7, <1>8 DEF IsImpl, Table
<1>10. HashAt(im2, b, i) = HashAt(im, b, i) /\ ChainAt(im2, b, i) = s
  BY <1>1, <1>3, <1>4, <1>5, <1>8 DEF HashAt, ChainAt
<1>11. \A c \in 0 .. im.mask : \A j \in Slot : (c # b \/ j # i) => Unchanged(im, im2, c, j)
  BY <1>1, <1>4, <1>5, <1>8 DEF Unchanged, HashAt, ChainAt
<1> QED BY <1>8, <1>9, <1>10, <1>11 DEF Wrote

LEMMA ReplacedIs ==
  ASSUME NEW im, NEW F, Holds(im, F), NEW x \in Node, x \in Range(F[hashOf[x]]), NEW new,
         NEW s, s = Spliced(F[hashOf[x]], x, new), ChainOf(hashOf[x], s),
         NEW im2, im2 = Replaced(im, x, new)
  PROVE  /\ Holds(im2, [F EXCEPT ![hashOf[x]] = s])
         /\ im2.mask = im.mask /\ im2.basis = im.basis /\ im2.n = im.n
<1>0. IsImpl(im)
  BY DEF Holds
<1>1. PICK g \in Hash : g = hashOf[x]
  BY NodesHaveHashes
<1>2. F[g] # << >>
  BY <1>1 DEF Range
<1>3. PICK b \in 0 .. im.mask, i \in Slot : Sits(im, g, b, i)
  BY <1>2 DEF Holds
<1>4. Foremost(im, g, b, i) /\ ChainAt(im, b, i) = F[g] /\ HashAt(im, b, i) = g
  BY <1>3 DEF Holds, InPlace, Sits
<1>5. PICK c : c = Candidates(im, g)
  OBVIOUS
<1> DEFINE U(d)  == SlotsWith(im, d, g) \ EmptySlots(im, d)
           hits  == {k \in 1 .. 2 : U(c[k]) # {}}
<1>6. \A d, j : j \in U(d) <=> j \in Slot /\ Sits(im, g, d, j)
  BY DEF SlotsWith, EmptySlots, Sits, Used, HashAt, ChainAt
<1>7. c[1] \in 0 .. im.mask /\ c[2] \in 0 .. im.mask /\ (b = c[1] \/ b = c[2])
  BY <1>0, <1>4, <1>5, CandidatesAre DEF Foremost
<1> HIDE DEF U
<1>8. hits # {} /\ \A k \in hits : c[k] = b
  <2>1. ASSUME NEW k \in hits
        PROVE  c[k] = b
    <3>1. c[k] \in 0 .. im.mask
      <4>1. k = 1 \/ k = 2
        OBVIOUS
      <4> QED BY <1>7, <4>1
    <3>2. PICK j \in Slot : Sits(im, g, c[k], j)
      BY <1>6
    <3> QED BY <1>3, <3>1, <3>2, OnlyOne
  <2>2. i \in U(b)
    BY <1>3, <1>6
  <2> QED BY <1>7, <2>1, <2>2
<1>9. c[Min(hits)] = b
  <2>1. hits \in SUBSET Nat
    OBVIOUS
  <2> HIDE DEF hits
  <2> QED BY <1>8, <2>1, MinIs
<1>10. Min(U(b)) = i
  <2>1. U(b) = {i}
    BY <1>3, <1>6, OnlyOne
  <2>2. U(b) \in SUBSET Nat /\ U(b) # {}
    BY <2>1, SlotsAre
  <2> QED BY <2>1, <2>2, MinIs
<1>12. im2 = [im EXCEPT !.buckets[b][i].chain = Spliced(@, x, new)]
  <2>1. im2 = IF hits = {} THEN im
              ELSE [im EXCEPT !.buckets[c[Min(hits)]][Min(U(c[Min(hits)]))].chain = Spliced(@, x, new)]
    BY <1>1, <1>5, Zenon DEF Replaced, U
  <2> HIDE DEF hits
  <2> QED BY <1>8, <1>9, <1>10, <2>1, Zenon
<1>13. PICK v : v = im.buckets[b][i].chain
  OBVIOUS
<1>14. v = F[g]
  BY <1>4, <1>13 DEF ChainAt
<1>15. Spliced(v, x, new) = s /\ s \in Seq(Node)
  BY <1>1, <1>14 DEF ChainOf
<1>16. im2 = [im EXCEPT !.buckets[b][i].chain = s]
  BY <1>12, <1>13, <1>15
<1>17. Wrote(im, im2, b, i, g, s) /\ im2.n = im.n
  BY <1>0, <1>4, <1>15, <1>16, SetChain
<1>18. FreeFor(im, g, b, i)
  <2>1. \A d \in 0 .. im.mask : \A j \in Slot : Sits(im, g, d, j) => d = b /\ j = i
    BY <1>3, OnlyOne
  <2> QED BY <1>4, <2>1 DEF FreeFor
<1>19. Holds(im2, [F EXCEPT ![g] = s])
  BY <1>1, <1>17, <1>18, StoreKeeps
<1> QED BY <1>1, <1>17, <1>19 DEF Wrote

\* The place of a node in a chain that has it once.
LEMMA PlaceIn ==
  ASSUME NEW v \in Seq(Node), IsInjective(v), NEW x \in Range(v)
  PROVE  \E at \in 1 .. Len(v) : /\ at = (CHOOSE j \in DOMAIN v : v[j] = x) /\ v[at] = x
                                 /\ \A j \in 1 .. Len(v) : v[j] = x => j = at
<1>1. PICK k \in DOMAIN v : v[k] = x
  BY DEF Range
<1>2. PICK at : at = CHOOSE j \in DOMAIN v : v[j] = x
  OBVIOUS
<1>3. at \in DOMAIN v /\ v[at] = x
  BY <1>1, <1>2
<1>4. DOMAIN v = 1 .. Len(v)
  OBVIOUS
<1>5. \A j \in DOMAIN v : v[j] = x => j = at
  BY <1>3 DEF IsInjective
<1> QED BY <1>2, <1>3, <1>4, <1>5

\* A chain without one of its nodes.
LEMMA SplicedOut ==
  ASSUME NEW v \in Seq(Node), IsInjective(v), NEW x \in Range(v)
  PROVE  /\ Spliced(v, x, << >>) = RemoveAt(v, CHOOSE j \in DOMAIN v : v[j] = x)
         /\ Spliced(v, x, << >>) \in Seq(Node) /\ IsInjective(Spliced(v, x, << >>))
         /\ Range(Spliced(v, x, << >>)) = Range(v) \ {x}
<1>1. PICK at \in 1 .. Len(v) : /\ at = (CHOOSE j \in DOMAIN v : v[j] = x) /\ v[at] = x
                                /\ \A j \in 1 .. Len(v) : v[j] = x => j = at
  BY PlaceIn
<1>2. PICK w : w = RemoveAt(v, at)
  OBVIOUS
<1>3. /\ w \in Seq(Node) /\ Len(w) = Len(v) - 1
      /\ \A i \in 1 .. Len(v) - 1 : w[i] = IF i < at THEN v[i] ELSE v[i + 1]
  BY <1>2, RemoveAtIs
<1>4. Spliced(v, x, << >>) = w
  <2>0. at - 1 \in 0 .. Len(v)
    OBVIOUS
  <2>1. PICK a \in Seq(Node) : a = SubSeq(v, 1, at - 1)
    BY <2>0, BeginningIs
  <2>2. Spliced(v, x, << >>) = a \o << >> \o SubSeq(v, at + 1, Len(v))
    BY <1>1, <2>1 DEF Spliced
  <2>3. a \o << >> = a
    BY <2>1
  <2> QED BY <1>2, <2>1, <2>2, <2>3 DEF RemoveAt
<1>5. DOMAIN w = 1 .. Len(v) - 1 /\ DOMAIN v = 1 .. Len(v) /\ Len(v) \in Nat
  BY <1>3
<1>6. IsInjective(w)
  <2> SUFFICES ASSUME NEW i \in 1 .. Len(v) - 1, NEW j \in 1 .. Len(v) - 1, w[i] = w[j]
               PROVE  i = j
    BY <1>5 DEF IsInjective
  <2>1. PICK k \in 1 .. Len(v) : k = IF i < at THEN i ELSE i + 1
    BY <1>5
  <2>2. PICK l \in 1 .. Len(v) : l = IF j < at THEN j ELSE j + 1
    BY <1>5
  <2>3. v[k] = v[l]
    BY <1>3, <2>1, <2>2
  <2>4. k = l
    BY <1>5, <2>3 DEF IsInjective
  <2> QED BY <1>5, <2>1, <2>2, <2>4
<1>7. ASSUME NEW y \in Range(w)
      PROVE  y \in Range(v) \ {x}
  <2>1. PICK i \in 1 .. Len(v) - 1 : w[i] = y
    BY <1>5 DEF Range
  <2>2. PICK k \in 1 .. Len(v) : k = IF i < at THEN i ELSE i + 1
    BY <1>5
  <2>3. v[k] = y /\ k # at
    BY <1>3, <2>1, <2>2
  <2> QED BY <1>1, <1>5, <2>3 DEF Range
<1>8. ASSUME NEW y \in Range(v), y # x
      PROVE  y \in Range(w)
  <2>1. PICK k \in 1 .. Len(v) : v[k] = y
    BY <1>5 DEF Range
  <2>2. k # at
    BY <1>1, <1>8, <2>1
  <2>3. PICK i \in 1 .. Len(v) - 1 : k = IF i < at THEN i ELSE i + 1
    <3>1. CASE k < at
      <4>1. k \in 1 .. Len(v) - 1
        BY <1>5, <3>1
      <4> QED BY <3>1, <4>1
    <3>2. CASE k > at
      <4>1. k - 1 \in 1 .. Len(v) - 1 /\ ~(k - 1 < at) /\ (k - 1) + 1 = k
        BY <1>5, <3>2
      <4> QED BY <4>1
    <3> QED BY <2>2, <3>1, <3>2
  <2>4. w[i] = y
    BY <1>3, <2>1, <2>3
  <2> QED BY <1>5, <2>4 DEF Range
<1>9. Range(w) = Range(v) \ {x}
  BY <1>7, <1>8
<1> QED BY <1>1, <1>2, <1>3, <1>4, <1>6, <1>9

\* A chain with y in the place of x.
LEMMA SplicedIn ==
  ASSUME NEW v \in Seq(Node), IsInjective(v), NEW x \in Range(v), NEW y \in Node, y \notin Range(v)
  PROVE  /\ Spliced(v, x, <<y>>) = ReplaceAll(v, x, y)
         /\ Spliced(v, x, <<y>>) \in Seq(Node) /\ IsInjective(Spliced(v, x, <<y>>))
         /\ Range(Spliced(v, x, <<y>>)) = (Range(v) \ {x}) \cup {y}
<1>1. PICK at \in 1 .. Len(v) : /\ at = (CHOOSE j \in DOMAIN v : v[j] = x) /\ v[at] = x
                                /\ \A j \in 1 .. Len(v) : v[j] = x => j = at
  BY PlaceIn
<1>2. DOMAIN v = 1 .. Len(v) /\ Len(v) \in Nat /\ at \in Nat
  OBVIOUS
<1>3. PICK a \in Seq(Node) : /\ a = SubSeq(v, 1, at - 1) /\ Len(a) = at - 1
                             /\ \A i \in 1 .. at - 1 : a[i] = v[i]
  <2>1. at - 1 \in 0 .. Len(v)
    BY <1>2
  <2> QED BY <2>1, BeginningIs
<1>4. PICK b \in Seq(Node) : /\ b = SubSeq(v, at + 1, Len(v)) /\ Len(b) = Len(v) - at
                             /\ \A i \in 1 .. Len(v) - at : b[i] = v[i + at]
  <2>1. at + 1 \in 1 .. Len(v) + 1
    BY <1>2
  <2> DEFINE u == SubSeq(v, at + 1, Len(v))
  <2>2. /\ u \in Seq(Node) /\ Len(u) = Len(v) - (at + 1) + 1
        /\ \A i \in 1 .. Len(v) - (at + 1) + 1 : u[i] = v[i + (at + 1) - 1]
    BY <2>1, RestIs
  <2>3. Len(v) - (at + 1) + 1 = Len(v) - at /\ \A i \in 1 .. Len(v) - at : i + (at + 1) - 1 = i + at
    BY <1>2
  <2> HIDE DEF u
  <2>4. u \in Seq(Node) /\ Len(u) = Len(v) - at /\ \A i \in 1 .. Len(v) - at : u[i] = v[i + at]
    BY <2>2, <2>3
  <2> QED BY <2>4 DEF u
<1>5. PICK e \in Seq(Node) : e = <<y>> /\ Len(e) = 1 /\ e[1] = y
  <2>1. <<y>> \in Seq(Node) /\ Len(<<y>>) = 1 /\ <<y>>[1] = y
    OBVIOUS
  <2> QED BY <2>1, Zenon
<1>6. PICK c : c = a \o e
  OBVIOUS
<1>7. /\ c \in Seq(Node) /\ Len(c) = at
      /\ \A i \in 1 .. at : c[i] = IF i <= at - 1 THEN a[i] ELSE e[i - (at - 1)]
  <2>1. /\ c \in Seq(Node) /\ Len(c) = Len(a) + Len(e)
        /\ \A i \in 1 .. Len(a) + Len(e) : c[i] = IF i <= Len(a) THEN a[i] ELSE e[i - Len(a)]
    BY <1>6, ConcatIs
  <2>2. Len(a) + Len(e) = at
    BY <1>2, <1>3, <1>5
  <2> QED BY <1>3, <2>1, <2>2
<1>8. PICK w : w = c \o b
  OBVIOUS
<1>9. /\ w \in Seq(Node) /\ Len(w) = Len(v)
      /\ \A i \in 1 .. Len(v) : w[i] = IF i <= at THEN c[i] ELSE b[i - at]
  <2>1. /\ w \in Seq(Node) /\ Len(w) = Len(c) + Len(b)
        /\ \A i \in 1 .. Len(c) + Len(b) : w[i] = IF i <= Len(c) THEN c[i] ELSE b[i - Len(c)]
    BY <1>7, <1>8, ConcatIs
  <2>2. Len(c) + Len(b) = Len(v)
    <3>1. at + (Len(v) - at) = Len(v)
      BY <1>2
    <3> QED BY <1>4, <1>7, <3>1, Zenon
  <2> QED BY <1>7, <2>1, <2>2
<1>10. ASSUME NEW i \in 1 .. Len(v)
       PROVE  w[i] = IF i = at THEN y ELSE v[i]
  <2>1. CASE i < at
    <3>1. i \in 1 .. at /\ i \in 1 .. at - 1 /\ i <= at - 1 /\ i <= at /\ i # at
      BY <1>2, <2>1
    <3>2. w[i] = c[i]
      BY <1>9, <3>1
    <3>3. c[i] = a[i]
      BY <1>7, <3>1
    <3> QED BY <1>3, <3>1, <3>2, <3>3
  <2>2. CASE i = at
    <3>1. i \in 1 .. at /\ ~(i <= at - 1) /\ i - (at - 1) = 1 /\ i <= at
      BY <1>2, <2>2
    <3>2. w[i] = c[i]
      BY <1>9, <3>1
    <3>3. c[i] = e[1]
      BY <1>7, <3>1
    <3> QED BY <1>5, <2>2, <3>2, <3>3
  <2>3. CASE i > at
    <3>1. ~(i <= at) /\ i - at \in 1 .. Len(v) - at /\ (i - at) + at = i /\ i # at
      BY <1>2, <2>3
    <3>2. w[i] = b[i - at]
      BY <1>9, <3>1
    <3>3. b[i - at] = v[i]
      BY <1>4, <3>1
    <3> QED BY <3>1, <3>2, <3>3
  <2> QED BY <1>2, <2>1, <2>2, <2>3
<1>11. w = ReplaceAll(v, x, y)
  <2>1. \A i \in 1 .. Len(v) : v[i] = x <=> i = at
    BY <1>1
  <2> DEFINE u == [i \in 1 .. Len(v) |-> IF v[i] = x THEN y ELSE v[i]]
  <2>2. u \in Seq(Node) /\ Len(u) = Len(v) /\ \A i \in 1 .. Len(v) : u[i] = IF v[i] = x THEN y ELSE v[i]
    <3>1. \A i \in 1 .. Len(v) : v[i] \in Node
      OBVIOUS
    <3>2. u \in [1 .. Len(v) -> Node]
      BY <3>1
    <3> QED BY <1>2, <3>2
  <2>3. u = ReplaceAll(v, x, y)
    BY DEF ReplaceAll
  <2> HIDE DEF u
  <2>4. \A i \in 1 .. Len(w) : w[i] = u[i]
    BY <1>9, <1>10, <2>1, <2>2
  <2> QED BY <1>9, <2>2, <2>3, <2>4, SameList
<1>12. Spliced(v, x, <<y>>) = w
  BY <1>1, <1>3, <1>4, <1>5, <1>6, <1>8 DEF Spliced
<1>13. DOMAIN w = 1 .. Len(v)
  BY <1>9
<1>14. IsInjective(w)
  <2> SUFFICES ASSUME NEW i \in 1 .. Len(v), NEW j \in 1 .. Len(v), w[i] = w[j]
               PROVE  i = j
    BY <1>13 DEF IsInjective
  <2>1. v[i] # y /\ v[j] # y
    BY <1>2 DEF Range
  <2>2. v[i] = v[j] \/ (i = at /\ j = at)
    BY <1>10, <2>1
  <2> QED BY <1>2, <2>2 DEF IsInjective
<1>15. Range(w) = (Range(v) \ {x}) \cup {y}
  <2>1. ASSUME NEW i \in 1 .. Len(v)
        PROVE  w[i] \in (Range(v) \ {x}) \cup {y}
    BY <1>1, <1>2, <1>10 DEF Range
  <2>2. ASSUME NEW z \in (Range(v) \ {x}) \cup {y}
        PROVE  \E i \in 1 .. Len(v) : w[i] = z
    <3>1. CASE z = y
      BY <1>10, <3>1
    <3>2. CASE z # y
      <4>1. PICK i \in 1 .. Len(v) : v[i] = z
        BY <1>2, <3>2 DEF Range
      <4> QED BY <1>1, <1>10, <3>2, <4>1
    <3> QED BY <3>1, <3>2
  <2> QED BY <1>13, <2>1, <2>2 DEF Range
<1> QED BY <1>9, <1>11, <1>12, <1>14, <1>15

-----------------------------------------------------------------------------
(***************************************************************************)
(* The inductive invariant.                                                *)
(***************************************************************************)

\* The masks 0, 1, 3, 7 and so on: m is in every set that has zero and with k
\* also 2 * k + 1.
IsMask(m) ==
  /\ m \in Nat
  /\ \A S \in SUBSET (0 .. m) : 0 \in S /\ (\A k \in S : 2 * k + 1 <= m => 2 * k + 1 \in S) => m \in S

\* The chains that a search finds.
FoundIn(im) == [h \in Hash |-> find(im, h)]

\* The size that the map has or will have and the nodes that it is for.
Size == IF goal = -1 THEN impl.mask ELSE goal
Due  == impl.n + (IF call = None THEN 0 ELSE 1)

Counted(im) == IsFiniteSet(NodesIn(im)) /\ im.n = Cardinality(NodesIn(im))

\* The map holds what is found in it, and counts it.
Ready(im) == Holds(im, FoundIn(im)) /\ Counted(im)

Fits(m, c) == calc_min_n(m) <= c /\ c <= calc_max_n(m)

IInv ==
  /\ Ready(impl)
  /\ call \in Node \cup {None} /\ (call # None => call \notin Stored)
  /\ goal \in Nat \cup {-1}
  /\ IsMask(impl.mask) /\ IsMask(Size)
  /\ Fits(Size, Due)

-----------------------------------------------------------------------------
(***************************************************************************)
(* Sizes and their limits.                                                 *)
(***************************************************************************)

LEMMA MaskStarts == IsMask(0)
BY DEF IsMask

LEMMA MaskDoubles ==
  ASSUME NEW m, IsMask(m)
  PROVE  IsMask(2 * m + 1)
<1>1. m \in Nat /\ 2 * m + 1 \in Nat /\ m <= 2 * m + 1
  BY DEF IsMask
<1>2. ASSUME NEW S \in SUBSET (0 .. 2 * m + 1), 0 \in S,
             \A k \in S : 2 * k + 1 <= 2 * m + 1 => 2 * k + 1 \in S
      PROVE  2 * m + 1 \in S
  <2> DEFINE T == {k \in S : k <= m}
  <2>1. T \in SUBSET (0 .. m) /\ 0 \in T
    <3>1. \A k \in T : k \in 0 .. m
      BY <1>1
    <3>2. 0 \in T
      BY <1>1, <1>2
    <3> QED BY <3>1, <3>2
  <2>2. \A k \in T : 2 * k + 1 <= m => 2 * k + 1 \in T
    BY <1>1, <1>2
  <2>3. m \in T
    <3> HIDE DEF T
    <3> QED BY <2>1, <2>2 DEF IsMask
  <2> QED BY <1>1, <1>2, <2>3
<1> QED BY <1>1, <1>2 DEF IsMask

LEMMA MaskHalves ==
  ASSUME NEW m, IsMask(m), m # 0
  PROVE  IsMask(m \div 2) /\ m = 2 * (m \div 2) + 1
<1>1. m \in Nat
  BY DEF IsMask
<1> DEFINE S == {k \in 0 .. m : k = 0 \/ (IsMask(k \div 2) /\ k = 2 * (k \div 2) + 1)}
<1>2. S \in SUBSET (0 .. m) /\ 0 \in S
  BY <1>1
<1>3. ASSUME NEW k \in S, 2 * k + 1 <= m
      PROVE  2 * k + 1 \in S
  <2>1. k \in Nat /\ (2 * k + 1) \div 2 = k /\ 2 * k + 1 \in 0 .. m
    BY <1>1, <1>3
  <2>2. IsMask(k)
    <3>1. CASE k = 0
      BY <3>1, MaskStarts
    <3>2. CASE k # 0
      <4>1. IsMask(2 * (k \div 2) + 1) /\ k = 2 * (k \div 2) + 1
        BY <3>2, MaskDoubles
      <4> QED BY <4>1
    <3> QED BY <3>1, <3>2
  <2> QED BY <2>1, <2>2
<1>4. m \in S
  <2> HIDE DEF S
  <2> QED BY <1>2, <1>3 DEF IsMask
<1> QED BY <1>4

\* The slots of a size times the limits, as numbers.
LEMMA LimitsAre ==
  ASSUME NEW m \in Nat
  PROVE  \E p \in Nat, q \in Nat :
           /\ calc_max_n(m) = (p - 1) \div 100 /\ calc_min_n(m) = (q - 1) \div 100
           /\ calc_max_n(2 * m + 1) = (2 * p - 1) \div 100 /\ calc_min_n(2 * m + 1) = (2 * q - 1) \div 100
           /\ 2 * q < p /\ 100 <= p /\ (m = 0 => q <= 100)
<1>1. PICK k \in Nat : k = CMAP_K /\ k >= 1
  BY CmapAssumption
<1>2. PICK s \in Nat : s = (m + 1) * k /\ s >= 1 /\ (m = 0 => s = k) /\ k <= s
  <2>1. PICK t \in Nat : t = m * k
    OBVIOUS
  <2>2. (m + 1) * k = t + k
    BY <2>1
  <2>3. m = 0 => t = 0
    BY <2>1
  <2> QED BY <1>1, <2>2, <2>3
<1>3. PICK p \in Nat : p = s * MaxLoad
  BY CmapAssumption
<1>4. PICK q \in Nat : q = s * MinLoad
  BY CmapAssumption
<1>5. calc_max_n(m) = (p - 1) \div 100 /\ calc_min_n(m) = (q - 1) \div 100
  BY <1>1, <1>2, <1>3, <1>4 DEF calc_max_n, calc_min_n
<1>6. ((2 * m + 1) + 1) * k = 2 * s
  <2>1. (2 * m + 1) + 1 = 2 * (m + 1)
    OBVIOUS
  <2>2. (2 * (m + 1)) * k = 2 * ((m + 1) * k)
    OBVIOUS
  <2> QED BY <1>2, <2>1, <2>2
<1>7. (2 * s) * MaxLoad = 2 * p /\ (2 * s) * MinLoad = 2 * q
  BY <1>3, <1>4, CmapAssumption
<1>8. calc_max_n(2 * m + 1) = (2 * p - 1) \div 100 /\ calc_min_n(2 * m + 1) = (2 * q - 1) \div 100
  BY <1>1, <1>6, <1>7, Zenon DEF calc_max_n, calc_min_n
<1>9. 2 * q < p
  <2>1. PICK a \in Nat, b \in Nat : a = MinLoad /\ b = MaxLoad /\ 2 * a + 1 <= b
    BY CmapAssumption
  <2>2. s * (2 * a + 1) <= s * b
    BY <2>1
  <2>3. s * (2 * a + 1) = 2 * (s * a) + s
    OBVIOUS
  <2> QED BY <1>2, <1>3, <1>4, <2>1, <2>2, <2>3
<1>10. 100 <= p
  <2>1. PICK b \in Nat : b = MaxLoad
    BY CmapAssumption
  <2>2. k * b <= s * b
    BY <1>2, TimesOrdered
  <2>3. 100 <= CMAP_K * MaxLoad
    BY CmapAssumption
  <2>4. 100 <= k * b /\ p = s * b
    BY <1>1, <1>3, <2>1, <2>3, Zenon
  <2>5. k * b \in Nat
    OBVIOUS
  <2> QED BY <2>2, <2>4, <2>5
<1>11. m = 0 => q <= 100
  BY <1>1, <1>2, <1>4, CmapAssumption
<1> QED BY <1>5, <1>8, <1>9, <1>10, <1>11

\* The map grows early enough.
LEMMA GrowthFits ==
  ASSUME NEW m \in Nat, NEW n \in Nat, Fits(m, n)
  PROVE  Fits(IF n >= calc_max_n(m) THEN 2 * m + 1 ELSE m, n + 1)
<1>1. PICK p \in Nat, q \in Nat :
           /\ calc_max_n(m) = (p - 1) \div 100 /\ calc_min_n(m) = (q - 1) \div 100
           /\ calc_max_n(2 * m + 1) = (2 * p - 1) \div 100 /\ calc_min_n(2 * m + 1) = (2 * q - 1) \div 100
           /\ 2 * q < p /\ 100 <= p
  BY LimitsAre
<1>2. PICK a \in Int, b \in Int : a = (p - 1) \div 100 /\ b = (q - 1) \div 100
  OBVIOUS
<1>3. PICK c \in Int, d \in Int : c = (2 * p - 1) \div 100 /\ d = (2 * q - 1) \div 100
  OBVIOUS
<1>4. b <= n /\ n <= a
  BY <1>1, <1>2 DEF Fits
<1>5. CASE n >= a
  <2>1. n + 1 <= c
    BY <1>1, <1>2, <1>3, <1>4, <1>5
  <2>2. d <= n + 1
    BY <1>1, <1>2, <1>3, <1>4, <1>5
  <2> QED BY <1>1, <1>2, <1>3, <1>5, <2>1, <2>2 DEF Fits
<1>6. CASE ~(n >= a)
  <2>1. b <= n + 1 /\ n + 1 <= a
    BY <1>4, <1>6
  <2> QED BY <1>1, <1>2, <1>6, <2>1 DEF Fits
<1> QED BY <1>5, <1>6

\* The map never shrinks below what its nodes need.
LEMMA ShrinkFits ==
  ASSUME NEW m, IsMask(m), NEW n \in Nat, n >= 1, Fits(m, n)
  PROVE  /\ Fits(IF n - 1 < calc_min_n(m) THEN m \div 2 ELSE m, n - 1)
         /\ IsMask(IF n - 1 < calc_min_n(m) THEN m \div 2 ELSE m)
<1>0. m \in Nat
  BY DEF IsMask
<1>1. PICK a \in Int, b \in Int : a = calc_max_n(m) /\ b = calc_min_n(m)
  BY <1>0, LimitsAre
<1>2. b <= n /\ n <= a
  BY <1>1 DEF Fits
<1>3. CASE n - 1 < b
  <2>1. n = b /\ b >= 1
    BY <1>2, <1>3
  <2>2. m # 0
    <3>1. PICK q \in Nat : calc_min_n(m) = (q - 1) \div 100 /\ (m = 0 => q <= 100)
      BY <1>0, LimitsAre
    <3>2. q <= 100 => (q - 1) \div 100 <= 0
      OBVIOUS
    <3> QED BY <1>1, <2>1, <3>1, <3>2
  <2>3. PICK h \in Nat : h = m \div 2 /\ IsMask(h) /\ m = 2 * h + 1
    BY <2>2, MaskHalves DEF IsMask
  <2>4. PICK p \in Nat, q \in Nat :
           /\ calc_max_n(h) = (p - 1) \div 100 /\ calc_min_n(h) = (q - 1) \div 100
           /\ calc_max_n(m) = (2 * p - 1) \div 100 /\ calc_min_n(m) = (2 * q - 1) \div 100
           /\ 2 * q < p /\ 100 <= p
    BY <2>3, LimitsAre
  <2>5. PICK c \in Int, d \in Int : c = (p - 1) \div 100 /\ d = (q - 1) \div 100
    OBVIOUS
  <2>6. b = (2 * q - 1) \div 100 /\ n = b /\ b >= 1 /\ 2 * q < p
    BY <1>1, <2>1, <2>4
  <2>7. d <= n - 1
    BY <2>5, <2>6
  <2>8. n - 1 <= c
    BY <2>5, <2>6
  <2> QED BY <1>1, <1>3, <2>3, <2>4, <2>5, <2>7, <2>8 DEF Fits
<1>4. CASE ~(n - 1 < b)
  <2>1. b <= n - 1 /\ n - 1 <= a
    BY <1>2, <1>4
  <2> QED BY <1>1, <1>4, <2>1 DEF Fits
<1> QED BY <1>3, <1>4

-----------------------------------------------------------------------------
(***************************************************************************)
(* What the calls make of the chains and of the nodes.                     *)
(***************************************************************************)

LEMMA FoundAre ==
  ASSUME NEW im, NEW F, Holds(im, F)
  PROVE  FoundIn(im) = F
<1>1. F \in [Hash -> Seq(Node)]
  BY DEF Holds, Chains
<1>2. \A g \in Hash : find(im, g) = F[g]
  BY FindIs
<1> QED BY <1>1, <1>2 DEF FoundIn

\* The number of nodes is another field.
LEMMA CountIsApart ==
  ASSUME NEW im, NEW F, Holds(im, F), NEW k \in Int, NEW im2, im2 = [im EXCEPT !.n = k]
  PROVE  Holds(im2, F) /\ im2.mask = im.mask /\ im2.basis = im.basis /\ im2.n = k
<1>1. /\ im = [mask |-> im.mask, basis |-> im.basis, n |-> im.n, buckets |-> im.buckets]
      /\ im.mask \in Nat /\ im.basis \in Basis /\ im.buckets \in Table(im.mask)
  BY DEF Holds, IsImpl
<1>2. im2 = [mask |-> im.mask, basis |-> im.basis, n |-> k, buckets |-> im.buckets]
  BY <1>1
<1>3. im2.mask = im.mask /\ im2.basis = im.basis /\ im2.n = k /\ im2.buckets = im.buckets
  BY <1>2
<1>4. IsImpl(im2)
  BY <1>1, <1>2, <1>3 DEF IsImpl
<1>5. \A b, i : /\ HashAt(im2, b, i) = HashAt(im, b, i) /\ ChainAt(im2, b, i) = ChainAt(im, b, i)
  BY <1>3 DEF HashAt, ChainAt
<1>6. \A g : Candidates(im2, g) = Candidates(im, g)
  BY <1>3, SameCandidates
<1>7. \A b, i : (Used(im2, b, i) <=> Used(im, b, i))
  BY <1>5 DEF Used
<1>8. \A b, i, g : (Sits(im2, g, b, i) <=> Sits(im, g, b, i)) /\ (Foremost(im2, g, b, i) <=> Foremost(im, g, b, i))
  BY <1>5, <1>6, <1>7 DEF Sits, Foremost
<1>9. \A b, i : InPlace(im2, F, b, i) <=> InPlace(im, F, b, i)
  BY <1>5, <1>8 DEF InPlace
<1> QED BY <1>3, <1>4, <1>7, <1>8, <1>9 DEF Holds

\* When one chain changes, so do its nodes and no others.
LEMMA NodesChange ==
  ASSUME NEW im, NEW F, Holds(im, F), NEW im2, NEW G, Holds(im2, G),
         NEW g \in Hash, \A h \in Hash : h # g => G[h] = F[h]
  PROVE  NodesIn(im2) = (NodesIn(im) \ Range(F[g])) \cup Range(G[g])
<1>1. F \in [Hash -> Seq(Node)] /\ \A h \in Hash : F[h] \in Seq(Node) /\ \A x \in Range(F[h]) : hashOf[x] = h
  BY DEF Holds, Chains, ChainOf
<1>2. PICK s : s = G[g]
  OBVIOUS
<1>3. Holds(im2, G) /\ G[g] = s /\ \A h \in Hash : h # g => G[h] = F[h]
  BY <1>2
<1>4. ChainOf(g, s)
  BY <1>3 DEF Holds, Chains
<1>5. s \in Seq(Node) /\ \A x \in Range(s) : hashOf[x] = g
  BY <1>4 DEF ChainOf
<1>6. Range(s) \subseteq Node
  BY <1>5 DEF Range
<1>7. NodesIn(im) \subseteq Node /\ \A x \in Node : x \in NodesIn(im) <=> x \in Range(F[hashOf[x]])
  BY NodesAre
<1>8. NodesIn(im2) \subseteq Node /\ \A x \in Node : x \in NodesIn(im2) <=> x \in Range(G[hashOf[x]])
  BY <1>3, NodesAre
<1>9. ASSUME NEW x \in Node
      PROVE  x \in NodesIn(im2) <=> x \in (NodesIn(im) \ Range(F[g])) \cup Range(s)
  <2>1. hashOf[x] \in Hash
    BY NodesHaveHashes
  <2>2. CASE hashOf[x] = g
    BY <1>3, <1>7, <1>8, <2>2
  <2>3. CASE hashOf[x] # g
    <3>1. x \notin Range(s) /\ x \notin Range(F[g])
      BY <1>1, <1>5, <2>3
    <3> QED BY <1>3, <1>7, <1>8, <2>1, <2>3, <3>1
  <2> QED BY <2>2, <2>3
<1> QED BY <1>2, <1>6, <1>7, <1>8, <1>9

OneMore(im) == [im EXCEPT !.n = @ + 1]
OneLess(im) == [im EXCEPT !.n = @ - 1]

\* A node that is not in the map may come in front of its chain.
LEMMA NodeInFront ==
  ASSUME NEW im, NEW F, Holds(im, F), NEW x \in Node, x \notin NodesIn(im)
  PROVE  /\ MayGain(im, F, hashOf[x], <<x>>)
         /\ Range(<<x>> \o F[hashOf[x]]) = Range(F[hashOf[x]]) \cup {x}
<1>1. PICK g \in Hash : g = hashOf[x]
  BY NodesHaveHashes
<1>2. F \in [Hash -> Seq(Node)] /\ ChainOf(g, F[g]) /\ F[g] \in Seq(Node)
  BY <1>1 DEF Holds, Chains, ChainOf
<1>3. PICK v \in Seq(Node) : v = F[g]
  BY <1>2
<1>4. x \notin Range(v)
  BY <1>1, <1>2, <1>3, NodesAre
<1>5. PICK e \in Seq(Node) : e = <<x>> /\ Len(e) = 1 /\ e[1] = x
  <2>1. <<x>> \in Seq(Node) /\ Len(<<x>>) = 1 /\ <<x>>[1] = x
    OBVIOUS
  <2> QED BY <2>1, Zenon
<1>6. PICK w : w = e \o v
  OBVIOUS
<1>7. /\ w \in Seq(Node) /\ Len(w) = 1 + Len(v) /\ w[1] = x
      /\ \A i \in 2 .. 1 + Len(v) : w[i] = v[i - 1]
  <2>1. /\ w \in Seq(Node) /\ Len(w) = Len(e) + Len(v)
        /\ \A i \in 1 .. Len(e) + Len(v) : w[i] = IF i <= Len(e) THEN e[i] ELSE v[i - Len(e)]
    BY <1>6, ConcatIs
  <2> QED BY <1>5, <2>1
<1>8. DOMAIN w = 1 .. 1 + Len(v) /\ DOMAIN v = 1 .. Len(v) /\ Len(v) \in Nat
  BY <1>7
<1>9. \A i \in 2 .. 1 + Len(v) : i - 1 \in 1 .. Len(v)
  BY <1>8
<1>10. IsInjective(v) /\ \A y \in Range(v) : hashOf[y] = g
  BY <1>2, <1>3 DEF ChainOf
<1>11. Range(w) = Range(v) \cup {x}
  <2>1. ASSUME NEW i \in 1 .. 1 + Len(v)
        PROVE  w[i] \in Range(v) \cup {x}
    <3>1. CASE i = 1
      BY <1>7, <3>1
    <3>2. CASE i # 1
      <4>1. i \in 2 .. 1 + Len(v)
        BY <1>8, <3>2
      <4> QED BY <1>7, <1>8, <1>9, <4>1 DEF Range
    <3> QED BY <3>1, <3>2
  <2>2. ASSUME NEW y \in Range(v)
        PROVE  \E i \in 1 .. 1 + Len(v) : w[i] = y
    <3>1. PICK k \in 1 .. Len(v) : v[k] = y
      BY <1>8 DEF Range
    <3>2. k + 1 \in 2 .. 1 + Len(v) /\ (k + 1) - 1 = k /\ k + 1 \in 1 .. 1 + Len(v)
      BY <1>8
    <3> QED BY <1>7, <3>1, <3>2
  <2>3. 1 \in 1 .. 1 + Len(v)
    BY <1>8
  <2>4. Range(w) = {w[i] : i \in 1 .. 1 + Len(v)}
    BY <1>8 DEF Range
  <2>5. x \in Range(w)
    BY <1>7, <2>3, <2>4
  <2>6. Range(w) \subseteq Range(v) \cup {x}
    BY <2>1, <2>4
  <2>7. Range(v) \subseteq Range(w)
    BY <2>2, <2>4
  <2> QED BY <2>5, <2>6, <2>7
<1>12. IsInjective(w)
  <2> SUFFICES ASSUME NEW i \in 1 .. 1 + Len(v), NEW j \in 1 .. 1 + Len(v), w[i] = w[j]
               PROVE  i = j
    BY <1>8 DEF IsInjective
  <2>1. \A k \in 2 .. 1 + Len(v) : w[k] # x
    BY <1>4, <1>7, <1>8, <1>9 DEF Range
  <2>2. CASE i = 1 \/ j = 1
    BY <1>7, <1>8, <2>1, <2>2
  <2>3. CASE i # 1 /\ j # 1
    <3>1. i \in 2 .. 1 + Len(v) /\ j \in 2 .. 1 + Len(v)
      BY <1>8, <2>3
    <3>2. v[i - 1] = v[j - 1]
      BY <1>7, <3>1
    <3>3. i - 1 = j - 1
      BY <1>8, <1>9, <1>10, <3>1, <3>2 DEF IsInjective
    <3> QED BY <1>8, <3>3
  <2> QED BY <2>2, <2>3
<1>13. ChainOf(g, e \o v)
  BY <1>1, <1>6, <1>7, <1>10, <1>11, <1>12 DEF ChainOf
<1>14. MayGain(im, F, g, e)
  BY <1>1, <1>3, <1>5, <1>13 DEF MayGain
<1> QED BY <1>1, <1>3, <1>5, <1>6, <1>11, <1>14

\* A node inserted goes to the front of its chain.
LEMMA InsertKeeps ==
  ASSUME NEW im, Ready(im), NEW x \in Node, x \notin NodesIn(im),
         NEW im2 \in TryInsert(im, hashOf[x], <<x>>), NEW im3, im3 = OneMore(im2)
  PROVE  /\ Ready(im3) /\ im3.mask = im.mask /\ im3.n = im.n + 1
         /\ NodesIn(im3) = NodesIn(im) \cup {x}
         /\ FoundIn(im3) = [FoundIn(im) EXCEPT ![hashOf[x]] = <<x>> \o @]
<1>1. PICK F : F = FoundIn(im)
  OBVIOUS
<1>2. PICK g \in Hash : g = hashOf[x]
  BY NodesHaveHashes
<1>3. Holds(im, F) /\ Counted(im) /\ F \in [Hash -> Seq(Node)] /\ ChainOf(g, F[g]) /\ F[g] \in Seq(Node)
  <2>1. Holds(im, F) /\ Counted(im)
    BY <1>1 DEF Ready
  <2>2. F \in [Hash -> Seq(Node)] /\ ChainOf(g, F[g])
    BY <2>1 DEF Holds, Chains
  <2> QED BY <2>1, <2>2
<1>4. PICK v \in Seq(Node) : v = F[g]
  BY <1>3
<1>5. PICK e, w : e = <<x>> /\ w = e \o v
  OBVIOUS
<1>6. MayGain(im, F, g, e) /\ Range(w) = Range(v) \cup {x}
  <2>1. /\ MayGain(im, F, hashOf[x], <<x>>)
        /\ Range(<<x>> \o F[hashOf[x]]) = Range(F[hashOf[x]]) \cup {x}
    BY <1>3, NodeInFront
  <2> QED BY <1>2, <1>4, <1>5, <2>1, Zenon
<1>7. \A y \in Range(v) : y \in Node /\ hashOf[y] = g
  BY <1>3, <1>4 DEF ChainOf, Range
<1>8. Gained(im, F, g, e, im2)
  <2>1. im2 \in TryInsert(im, g, e)
    BY <1>2, <1>5
  <2> QED BY <1>6, <2>1, TryInsertKeeps
<1>9. PICK G : G = [F EXCEPT ![g] = w]
  OBVIOUS
<1>10. Holds(im2, G) /\ im2.mask = im.mask /\ im2.n = im.n
  BY <1>4, <1>5, <1>8, <1>9 DEF Gained
<1>11. im.n \in Int
  BY <1>3 DEF Holds, IsImpl
<1>12. Holds(im3, G) /\ im3.mask = im.mask /\ im3.n = im.n + 1
  <2>1. im2.n + 1 \in Int
    BY <1>10, <1>11
  <2>2. im3 = [im2 EXCEPT !.n = @ + 1]
    BY DEF OneMore
  <2> QED BY <1>10, <2>1, <2>2, CountIsApart
<1>13. FoundIn(im3) = G
  BY <1>12, FoundAre
<1>14. NodesIn(im3) = NodesIn(im) \cup {x}
  <2>0. Holds(im, F) /\ Holds(im3, G) /\ G[g] = w /\ \A h \in Hash : h # g => G[h] = F[h]
    BY <1>3, <1>9, <1>12
  <2>1. NodesIn(im3) = (NodesIn(im) \ Range(F[g])) \cup Range(G[g])
    BY <2>0, NodesChange
  <2>2. ASSUME NEW y \in Range(v)
        PROVE  y \in NodesIn(im)
    <3>1. y \in Node /\ y \in Range(F[hashOf[y]])
      BY <1>4, <1>7
    <3> QED BY <1>3, <3>1, NodesAre
  <2> QED BY <1>4, <1>6, <2>0, <2>1, <2>2
<1>15. Counted(im3)
  <2>1. PICK T : T = NodesIn(im)
    OBVIOUS
  <2>2. IsFiniteSet(T) /\ x \notin T /\ im.n = Cardinality(T) /\ NodesIn(im3) = T \cup {x}
    BY <1>3, <1>14, <2>1 DEF Counted
  <2>3. IsFiniteSet(T \cup {x}) /\ Cardinality(T \cup {x}) = Cardinality(T) + 1
    BY <2>2, FS_AddElement
  <2> QED BY <1>12, <2>2, <2>3 DEF Counted
<1>16. G = [F EXCEPT ![hashOf[x]] = <<x>> \o @]
  BY <1>2, <1>4, <1>5, <1>9
<1> QED BY <1>1, <1>12, <1>13, <1>14, <1>15, <1>16 DEF Ready

\* A rehash changes no chain.
LEMMA RehashKeeps ==
  ASSUME NEW im, Ready(im), NEW mask \in Nat, NEW basis \in Basis, NEW im2 \in TryRehash(im, mask, basis)
  PROVE  /\ Ready(im2) /\ im2.mask = mask /\ im2.n = im.n
         /\ NodesIn(im2) = NodesIn(im) /\ FoundIn(im2) = FoundIn(im)
<1>1. Holds(im, FoundIn(im)) /\ Counted(im)
  BY DEF Ready
<1>2. Holds(im2, FoundIn(im)) /\ im2.mask = mask /\ im2.n = im.n
  BY <1>1, TryRehashKeeps
<1>3. FoundIn(im2) = FoundIn(im)
  BY <1>2, FoundAre
<1>4. NodesIn(im2) = NodesIn(im)
  BY <1>1, <1>2, NodesAre
<1> QED BY <1>1, <1>2, <1>3, <1>4 DEF Ready, Counted

\* What a node's chain is before a call that changes it.
LEMMA ChainOfNode ==
  ASSUME NEW im, Ready(im), NEW x \in Node
  PROVE  /\ hashOf[x] \in Hash /\ FoundIn(im)[hashOf[x]] \in Seq(Node)
         /\ ChainOf(hashOf[x], FoundIn(im)[hashOf[x]])
         /\ x \in NodesIn(im) <=> x \in Range(FoundIn(im)[hashOf[x]])
         /\ Range(FoundIn(im)[hashOf[x]]) \subseteq NodesIn(im)
<1>1. Holds(im, FoundIn(im)) /\ Chains(FoundIn(im)) /\ hashOf[x] \in Hash
  BY NodesHaveHashes DEF Ready, Holds
<1>2. PICK v \in Seq(Node) : v = FoundIn(im)[hashOf[x]] /\ ChainOf(hashOf[x], v)
  BY <1>1 DEF Chains, ChainOf
<1>3. Range(v) \subseteq Node /\ \A y \in Range(v) : hashOf[y] = hashOf[x]
  BY <1>2 DEF Range, ChainOf
<1>4. \A y \in Node : y \in NodesIn(im) <=> y \in Range(FoundIn(im)[hashOf[y]])
  BY <1>1, NodesAre
<1> QED BY <1>1, <1>2, <1>3, <1>4

\* A node removed leaves its chain.
LEMMA RemoveKeeps ==
  ASSUME NEW im, Ready(im), NEW x \in NodesIn(im), x \in Node,
         NEW im3, im3 = OneLess(Replaced(im, x, << >>))
  PROVE  /\ Ready(im3) /\ im3.mask = im.mask /\ im3.n = im.n - 1
         /\ NodesIn(im3) = NodesIn(im) \ {x}
         /\ FoundIn(im3) = [FoundIn(im) EXCEPT ![hashOf[x]] =
                              RemoveAt(@, CHOOSE i \in DOMAIN @ : @[i] = x)]
<1>1. PICK F : F = FoundIn(im)
  OBVIOUS
<1>2. PICK g \in Hash, v \in Seq(Node) : g = hashOf[x] /\ v = F[g]
  BY <1>1, ChainOfNode
<1>3. /\ Holds(im, F) /\ Counted(im) /\ F \in [Hash -> Seq(Node)] /\ ChainOf(g, v)
      /\ x \in Range(v) /\ Range(v) \subseteq NodesIn(im) /\ im.n \in Int
  <2>1. Holds(im, F) /\ Counted(im) /\ F \in [Hash -> Seq(Node)] /\ im.n \in Int
    BY <1>1 DEF Ready, Holds, Chains, IsImpl
  <2> QED BY <1>1, <1>2, <2>1, ChainOfNode
<1>4. PICK s : s = Spliced(v, x, << >>)
  OBVIOUS
<1>5. /\ s = RemoveAt(v, CHOOSE j \in DOMAIN v : v[j] = x)
      /\ s \in Seq(Node) /\ IsInjective(s) /\ Range(s) = Range(v) \ {x}
  BY <1>3, <1>4, SplicedOut DEF ChainOf
<1>6. ChainOf(g, s)
  BY <1>3, <1>5 DEF ChainOf
<1>7. PICK im2 : im2 = Replaced(im, x, << >>)
  OBVIOUS
<1>8. PICK G : G = [F EXCEPT ![g] = s]
  OBVIOUS
<1>9. Holds(im2, G) /\ im2.mask = im.mask /\ im2.n = im.n
  <2>1. /\ Holds(im, F) /\ x \in Range(F[hashOf[x]])
        /\ s = Spliced(F[hashOf[x]], x, << >>) /\ ChainOf(hashOf[x], s)
    BY <1>2, <1>3, <1>4, <1>6
  <2>2. /\ Holds(im2, [F EXCEPT ![hashOf[x]] = s])
        /\ im2.mask = im.mask /\ im2.n = im.n
    BY <1>7, <2>1, ReplacedIs
  <2> QED BY <1>2, <1>8, <2>2
<1>10. Holds(im3, G) /\ im3.mask = im.mask /\ im3.n = im.n - 1
  <2>1. PICK k \in Int : k = im2.n - 1 /\ k = im.n - 1
    BY <1>3, <1>9
  <2>2. im3 = [im2 EXCEPT !.n = k]
    BY <1>7, <2>1 DEF OneLess
  <2>3. PICK u, m : u = im3 /\ m = im2
    OBVIOUS
  <2>4. Holds(m, G) /\ u = [m EXCEPT !.n = k]
    BY <1>9, <2>2, <2>3
  <2>5. Holds(u, G) /\ u.mask = m.mask /\ u.n = k
    BY <2>4, CountIsApart
  <2> QED BY <1>9, <2>1, <2>3, <2>5
<1>11. FoundIn(im3) = G
  BY <1>10, FoundAre
<1>12. NodesIn(im3) = NodesIn(im) \ {x}
  <2>0. Holds(im, F) /\ Holds(im3, G) /\ G[g] = s /\ \A h \in Hash : h # g => G[h] = F[h]
    BY <1>3, <1>8, <1>10
  <2>1. NodesIn(im3) = (NodesIn(im) \ Range(F[g])) \cup Range(G[g])
    BY <2>0, NodesChange
  <2> QED BY <1>2, <1>3, <1>5, <2>0, <2>1
<1>13. Counted(im3)
  BY <1>3, <1>10, <1>12, FS_RemoveElement DEF Counted
<1>14. G = [F EXCEPT ![hashOf[x]] = RemoveAt(@, CHOOSE i \in DOMAIN @ : @[i] = x)]
  BY <1>2, <1>5, <1>8, Zenon
<1> QED BY <1>1, <1>10, <1>11, <1>12, <1>13, <1>14 DEF Ready

\* A replacement takes the place of the node.
LEMMA ReplaceKeeps ==
  ASSUME NEW im, Ready(im), NEW x \in NodesIn(im), x \in Node, NEW y \in Node, y \notin NodesIn(im),
         hashOf[x] = hashOf[y], NEW im2, im2 = Replaced(im, x, <<y>>)
  PROVE  /\ Ready(im2) /\ im2.mask = im.mask /\ im2.n = im.n
         /\ NodesIn(im2) = (NodesIn(im) \ {x}) \cup {y}
         /\ FoundIn(im2) = [FoundIn(im) EXCEPT ![hashOf[x]] = ReplaceAll(@, x, y)]
<1>1. PICK F : F = FoundIn(im)
  OBVIOUS
<1>2. PICK g \in Hash, v \in Seq(Node) : g = hashOf[x] /\ v = F[g]
  BY <1>1, ChainOfNode
<1>3. /\ Holds(im, F) /\ Counted(im) /\ F \in [Hash -> Seq(Node)] /\ ChainOf(g, v)
      /\ x \in Range(v) /\ Range(v) \subseteq NodesIn(im) /\ y \notin Range(v)
  <2>1. Holds(im, F) /\ Counted(im) /\ F \in [Hash -> Seq(Node)]
    BY <1>1 DEF Ready, Holds, Chains
  <2>2. ChainOf(g, v) /\ x \in Range(v) /\ Range(v) \subseteq NodesIn(im)
    BY <1>1, <1>2, ChainOfNode
  <2> QED BY <2>1, <2>2
<1>4. PICK s : s = Spliced(v, x, <<y>>)
  OBVIOUS
<1>5. /\ s = ReplaceAll(v, x, y)
      /\ s \in Seq(Node) /\ IsInjective(s) /\ Range(s) = (Range(v) \ {x}) \cup {y}
  BY <1>3, <1>4, SplicedIn DEF ChainOf
<1>6. ChainOf(g, s)
  BY <1>2, <1>3, <1>5 DEF ChainOf
<1>7. PICK G : G = [F EXCEPT ![g] = s]
  OBVIOUS
<1>8. Holds(im2, G) /\ im2.mask = im.mask /\ im2.n = im.n
  <2>1. /\ Holds(im, F) /\ x \in Range(F[hashOf[x]])
        /\ s = Spliced(F[hashOf[x]], x, <<y>>) /\ ChainOf(hashOf[x], s)
    BY <1>2, <1>3, <1>4, <1>6
  <2>2. /\ Holds(im2, [F EXCEPT ![hashOf[x]] = s])
        /\ im2.mask = im.mask /\ im2.n = im.n
    BY <2>1, ReplacedIs
  <2> QED BY <1>2, <1>7, <2>2
<1>9. FoundIn(im2) = G
  BY <1>8, FoundAre
<1>10. NodesIn(im2) = (NodesIn(im) \ {x}) \cup {y}
  <2>0. Holds(im, F) /\ Holds(im2, G) /\ G[g] = s /\ \A h \in Hash : h # g => G[h] = F[h]
    BY <1>3, <1>7, <1>8
  <2>1. NodesIn(im2) = (NodesIn(im) \ Range(F[g])) \cup Range(G[g])
    BY <2>0, NodesChange
  <2> QED BY <1>2, <1>3, <1>5, <2>0, <2>1
<1>11. Counted(im2)
  <2>1. /\ IsFiniteSet(NodesIn(im) \ {x}) /\ y \notin NodesIn(im) \ {x}
        /\ Cardinality(NodesIn(im) \ {x}) = Cardinality(NodesIn(im)) - 1
        /\ Cardinality(NodesIn(im)) \in Nat
    BY <1>3, FS_RemoveElement, FS_CardinalityType DEF Counted
  <2>2. /\ IsFiniteSet((NodesIn(im) \ {x}) \cup {y})
        /\ Cardinality((NodesIn(im) \ {x}) \cup {y}) = Cardinality(NodesIn(im) \ {x}) + 1
    BY <2>1, FS_AddElement
  <2>3. Cardinality((NodesIn(im) \ {x}) \cup {y}) = Cardinality(NodesIn(im))
    BY <2>1, <2>2
  <2> QED BY <1>3, <1>8, <1>10, <2>2, <2>3 DEF Counted
<1>12. G = [F EXCEPT ![hashOf[x]] = ReplaceAll(@, x, y)]
  BY <1>2, <1>5, <1>7, Zenon
<1> QED BY <1>1, <1>8, <1>9, <1>10, <1>11, <1>12 DEF Ready

-----------------------------------------------------------------------------
(***************************************************************************)
(* The invariant is inductive.                                             *)
(***************************************************************************)

LEMMA Initially == Init => IInv
<1> SUFFICES ASSUME Init
             PROVE  IInv
  OBVIOUS
<1>1. PICK b \in Basis : impl = NewImpl(0, b, 0)
  BY DEF Init
<1>2. call = None /\ goal = -1
  BY DEF Init
<1>3. PICK F : F = [g \in Hash |-> << >>]
  OBVIOUS
<1>4. Holds(impl, F)
  <2>1. Holds(NewImpl(0, b, 0), F)
    BY <1>3, NewHolds
  <2> QED BY <1>1, <2>1
<1>5. FoundIn(impl) = F
  BY <1>4, FoundAre
<1>6. impl.mask = 0 /\ impl.n = 0
  BY <1>1 DEF NewImpl
<1>7. NodesIn(impl) = {}
  <2>1. \A x \in Node : hashOf[x] \in Hash /\ F[hashOf[x]] = << >>
    BY <1>3, NodesHaveHashes
  <2>2. \A x \in Node : x \notin Range(F[hashOf[x]])
    BY <2>1 DEF Range
  <2> QED BY <1>4, <2>2, NodesAre
<1>8. Counted(impl)
  BY <1>6, <1>7, FS_EmptySet DEF Counted
<1>9. IsMask(impl.mask) /\ Size = impl.mask
  BY <1>2, <1>6, MaskStarts DEF Size
<1>10. Due = 0
  BY <1>2, <1>6 DEF Due
<1>11. Fits(0, 0)
  <2>1. PICK p \in Nat, q \in Nat :
           /\ calc_max_n(0) = (p - 1) \div 100 /\ calc_min_n(0) = (q - 1) \div 100
           /\ 100 <= p /\ q <= 100
    BY LimitsAre
  <2>2. 0 <= (p - 1) \div 100 /\ (q - 1) \div 100 <= 0
    BY <2>1
  <2> QED BY <2>1, <2>2 DEF Fits
<1> QED BY <1>2, <1>4, <1>5, <1>6, <1>8, <1>9, <1>10, <1>11 DEF IInv, Ready

\* While no call is at work, the size is that of the map.
LEMMA IdleMeans ==
  ASSUME IInv, Idle
  PROVE  Size = impl.mask /\ Due = impl.n /\ Fits(impl.mask, impl.n) /\ impl.mask \in Nat /\ impl.n \in Nat
<1>1. call = None /\ goal = -1
  BY DEF Idle
<1>2. impl.n \in Nat
  BY FS_CardinalityType DEF IInv, Ready, Counted
<1>3. Size = impl.mask /\ Due = impl.n
  BY <1>1, <1>2 DEF Size, Due
<1> QED BY <1>2, <1>3 DEF IInv, IsMask

LEMMA InsertStep ==
  ASSUME IInv, NEW x \in Node, cmap_insert(x)
  PROVE  IInv' /\ impl' = impl
<1>1. impl' = impl /\ call' = x /\ x \notin NodesIn(impl) /\ Idle
  BY DEF cmap_insert, Stored
<1>2. PICK m \in Nat, n \in Nat : m = impl.mask /\ n = impl.n /\ Fits(m, n) /\ IsMask(m)
  BY <1>1, IdleMeans DEF IInv
<1>3. goal' = IF n >= calc_max_n(m) THEN 2 * m + 1 ELSE -1
  BY <1>2 DEF cmap_insert
<1>4. x # None
  BY CmapAssumption
<1>5. Due' = n + 1
  BY <1>1, <1>2, <1>4 DEF Due
<1>6. Size' = IF n >= calc_max_n(m) THEN 2 * m + 1 ELSE m
  <2>1. 2 * m + 1 # -1
    OBVIOUS
  <2> QED BY <1>1, <1>2, <1>3, <2>1 DEF Size
<1>7. Fits(Size', Due')
  BY <1>2, <1>5, <1>6, GrowthFits
<1>8. IsMask(Size')
  BY <1>2, <1>6, MaskDoubles
<1>9. goal' \in Nat \cup {-1}
  BY <1>3
<1>10. /\ Ready(impl') /\ call' \in Node \cup {None} /\ call' \notin NodesIn(impl') /\ IsMask(impl'.mask)
  BY <1>1 DEF IInv
<1> QED BY <1>1, <1>7, <1>8, <1>9, <1>10 DEF IInv, Stored

LEMMA InsertNodeStep ==
  ASSUME IInv, InsertNode
  PROVE  /\ IInv'
         /\ \/ impl' = impl
            \/ /\ call \in Node /\ call \notin NodesIn(impl) /\ impl'.n = impl.n + 1
               /\ FoundIn(impl') = [FoundIn(impl) EXCEPT ![hashOf[call]] = <<call>> \o @]
<1>1. call \in Node /\ call # None /\ goal = -1 /\ call \notin NodesIn(impl) /\ Ready(impl)
  BY DEF InsertNode, IInv, Stored
<1>2. impl.n \in Nat
  BY <1>1, FS_CardinalityType DEF Ready, Counted
<1>3. Size = impl.mask /\ Due = impl.n + 1 /\ IsMask(impl.mask) /\ Fits(impl.mask, impl.n + 1)
  BY <1>1 DEF Size, Due, IInv
<1>4. CASE TryInsert(impl, hashOf[call], <<call>>) # {}
  <2>1. PICK im \in TryInsert(impl, hashOf[call], <<call>>) : impl' = [im EXCEPT !.n = @ + 1]
    BY <1>4 DEF InsertNode
  <2>2. call' = None /\ goal' = -1
    BY <1>1, <1>4 DEF InsertNode
  <2>3. /\ Ready(impl') /\ impl'.mask = impl.mask /\ impl'.n = impl.n + 1
        /\ FoundIn(impl') = [FoundIn(impl) EXCEPT ![hashOf[call]] = <<call>> \o @]
    <3>1. PICK x, i0, i1 : x = call /\ i0 = impl /\ i1 = impl'
      OBVIOUS
    <3>2. /\ Ready(i0) /\ x \in Node /\ x \notin NodesIn(i0)
          /\ im \in TryInsert(i0, hashOf[x], <<x>>) /\ i1 = OneMore(im)
      BY <1>1, <2>1, <3>1 DEF OneMore
    <3>3. /\ Ready(i1) /\ i1.mask = i0.mask /\ i1.n = i0.n + 1
          /\ FoundIn(i1) = [FoundIn(i0) EXCEPT ![hashOf[x]] = <<x>> \o @]
      BY <3>2, InsertKeeps
    <3> QED BY <3>1, <3>3, Zenon
  <2>4. Size' = impl.mask /\ Due' = impl.n + 1
    BY <1>2, <2>2, <2>3 DEF Size, Due
  <2> QED BY <1>1, <1>3, <2>2, <2>3, <2>4 DEF IInv
<1>5. CASE TryInsert(impl, hashOf[call], <<call>>) = {}
  <2>1. impl' = impl /\ call' = call /\ goal' = impl.mask
    BY <1>5 DEF InsertNode
  <2>2. impl.mask \in Nat
    BY <1>3 DEF IsMask
  <2>3. Size' = impl.mask /\ Due' = impl.n + 1
    BY <1>1, <2>1, <2>2 DEF Size, Due
  <2> QED BY <1>1, <1>3, <2>1, <2>2, <2>3 DEF IInv, Stored
<1> QED BY <1>4, <1>5

LEMMA RehashStep ==
  ASSUME IInv, NEW b \in Basis, Rehash(b)
  PROVE  IInv' /\ impl'.n = impl.n /\ FoundIn(impl') = FoundIn(impl)
<1>1. goal # -1 /\ impl' \in TryRehash(impl, goal, b) /\ goal' = -1 /\ call' = call
  BY DEF Rehash
<1>2. goal \in Nat /\ Ready(impl) /\ Size = goal /\ IsMask(goal) /\ Fits(goal, Due)
  BY <1>1 DEF IInv, Size
<1>3. /\ Ready(impl') /\ impl'.mask = goal /\ impl'.n = impl.n
      /\ NodesIn(impl') = NodesIn(impl) /\ FoundIn(impl') = FoundIn(impl)
  BY <1>1, <1>2, RehashKeeps
<1>4. Size' = goal /\ Due' = Due
  BY <1>1, <1>3 DEF Size, Due
<1> QED BY <1>1, <1>2, <1>3, <1>4 DEF IInv, Stored

LEMMA RemoveStep ==
  ASSUME IInv, NEW x \in Node, cmap_remove(x)
  PROVE  /\ IInv' /\ x \in NodesIn(impl) /\ impl'.n = impl.n - 1
         /\ FoundIn(impl') = [FoundIn(impl) EXCEPT ![hashOf[x]] =
                                RemoveAt(@, CHOOSE i \in DOMAIN @ : @[i] = x)]
<1>1. /\ Idle /\ x \in NodesIn(impl) /\ call' = call
      /\ impl' = [Replaced(impl, x, << >>) EXCEPT !.n = @ - 1]
      /\ goal' = IF impl'.n < calc_min_n(impl.mask) THEN impl.mask \div 2 ELSE -1
  BY DEF cmap_remove, Stored
<1>2. Ready(impl)
  BY DEF IInv
<1>3. /\ Ready(impl') /\ impl'.mask = impl.mask /\ impl'.n = impl.n - 1
      /\ FoundIn(impl') = [FoundIn(impl) EXCEPT ![hashOf[x]] =
                             RemoveAt(@, CHOOSE i \in DOMAIN @ : @[i] = x)]
  <2>1. PICK i0, i1 : i0 = impl /\ i1 = impl'
    OBVIOUS
  <2>2. Ready(i0) /\ x \in NodesIn(i0) /\ i1 = OneLess(Replaced(i0, x, << >>))
    BY <1>1, <1>2, <2>1 DEF OneLess
  <2>3. /\ Ready(i1) /\ i1.mask = i0.mask /\ i1.n = i0.n - 1
        /\ FoundIn(i1) = [FoundIn(i0) EXCEPT ![hashOf[x]] =
                             RemoveAt(@, CHOOSE i \in DOMAIN @ : @[i] = x)]
    BY <2>2, RemoveKeeps
  <2> QED BY <2>1, <2>3, Zenon
<1>4. PICK m \in Nat, n \in Nat : m = impl.mask /\ n = impl.n /\ Fits(m, n) /\ IsMask(m)
  BY <1>1, IdleMeans DEF IInv
<1>5. n >= 1
  <2>1. n # 0
    BY <1>1, <1>2, <1>4, FS_EmptySet DEF Ready, Counted
  <2> QED BY <2>1
<1>6. /\ Fits(IF n - 1 < calc_min_n(m) THEN m \div 2 ELSE m, n - 1)
      /\ IsMask(IF n - 1 < calc_min_n(m) THEN m \div 2 ELSE m)
  BY <1>4, <1>5, ShrinkFits
<1>7. goal' = IF n - 1 < calc_min_n(m) THEN m \div 2 ELSE -1
  BY <1>1, <1>3, <1>4
<1>8. m \div 2 \in Nat
  OBVIOUS
<1>9. Size' = (IF n - 1 < calc_min_n(m) THEN m \div 2 ELSE m) /\ Due' = n - 1
  <2>1. call' = None /\ impl'.n = n - 1 /\ impl'.mask = m /\ n - 1 \in Nat
    BY <1>1, <1>3, <1>4, <1>5 DEF Idle
  <2>2. Due' = n - 1
    BY <2>1 DEF Due
  <2>3. CASE n - 1 < calc_min_n(m)
    <3>1. goal' # -1
      BY <1>7, <1>8, <2>3
    <3> QED BY <1>7, <2>2, <2>3, <3>1 DEF Size
  <2>4. CASE ~(n - 1 < calc_min_n(m))
    BY <1>7, <2>1, <2>2, <2>4 DEF Size
  <2> QED BY <2>3, <2>4
<1>10. call' = None /\ goal' \in Nat \cup {-1} /\ IsMask(impl'.mask)
  BY <1>1, <1>3, <1>4, <1>7, <1>8 DEF Idle
<1>11. IsMask(Size') /\ Fits(Size', Due')
  BY <1>6, <1>9
<1>12. IInv'
  BY <1>3, <1>10, <1>11 DEF IInv
<1> QED BY <1>1, <1>3, <1>12

LEMMA ReplaceStep ==
  ASSUME IInv, NEW x \in Node, NEW y \in Node, cmap_replace(x, y)
  PROVE  /\ IInv' /\ x \in NodesIn(impl) /\ y \notin NodesIn(impl) /\ impl'.n = impl.n
         /\ FoundIn(impl') = [FoundIn(impl) EXCEPT ![hashOf[x]] = ReplaceAll(@, x, y)]
<1>1. /\ Idle /\ x \in NodesIn(impl) /\ y \notin NodesIn(impl) /\ hashOf[x] = hashOf[y]
      /\ impl' = Replaced(impl, x, <<y>>) /\ call' = call /\ goal' = goal
  BY DEF cmap_replace, Stored
<1>2. Ready(impl) /\ IsMask(impl.mask) /\ IsMask(Size) /\ Fits(Size, Due) /\ goal \in Nat \cup {-1}
  BY DEF IInv
<1>3. /\ Ready(impl') /\ impl'.mask = impl.mask /\ impl'.n = impl.n
      /\ FoundIn(impl') = [FoundIn(impl) EXCEPT ![hashOf[x]] = ReplaceAll(@, x, y)]
  BY <1>1, <1>2, ReplaceKeeps
<1>4. call = None
  BY <1>1 DEF Idle
<1>5. Size' = Size /\ Due' = Due
  BY <1>1, <1>3 DEF Size, Due
<1>6. IInv'
  BY <1>1, <1>2, <1>3, <1>4, <1>5 DEF IInv
<1> QED BY <1>1, <1>3, <1>6

LEMMA StutterStep ==
  ASSUME IInv, UNCHANGED vars
  PROVE  IInv'
BY DEF IInv, vars, Stored, Size, Due

LEMMA Inductive == IInv /\ [Next]_vars => IInv'
<1> SUFFICES ASSUME IInv, [Next]_vars
             PROVE  IInv'
  OBVIOUS
<1>1. ASSUME NEW x \in Node, cmap_insert(x)
      PROVE  IInv'
  BY <1>1, InsertStep
<1>2. ASSUME NEW x \in Node, cmap_remove(x)
      PROVE  IInv'
  BY <1>2, RemoveStep
<1>3. ASSUME NEW x \in Node, NEW y \in Node, cmap_replace(x, y)
      PROVE  IInv'
  BY <1>3, ReplaceStep
<1>4. CASE InsertNode
  BY <1>4, InsertNodeStep
<1>5. ASSUME NEW b \in Basis, Rehash(b)
      PROVE  IInv'
  BY <1>5, RehashStep
<1>6. CASE UNCHANGED vars
  BY <1>6, StutterStep
<1> QED BY <1>1, <1>2, <1>3, <1>4, <1>5, <1>6 DEF Next

LEMMA Invariant == Spec => []IInv
BY Initially, Inductive, PTL DEF Spec

-----------------------------------------------------------------------------
(***************************************************************************)
(* What follows for every run.                                             *)
(***************************************************************************)

LEMMA HoldsOneChain ==
  ASSUME Holds(impl, FoundIn(impl))
  PROVE  OneChainPerHash
<1>1. PICK F : F = FoundIn(impl) /\ Holds(impl, F) /\ IsImpl(impl) /\ Chains(F)
  BY DEF Holds
<1>2. DOMAIN impl.buckets = 0 .. impl.mask
  BY <1>1 DEF IsImpl, Table
<1>3. \A b, i : i \in Slot \ EmptySlots(impl, b) <=> i \in Slot /\ Used(impl, b, i)
  BY DEF EmptySlots, Used, ChainAt
<1>4. ASSUME NEW b \in 0 .. impl.mask, NEW i \in Slot, Used(impl, b, i)
      PROVE  /\ \A c \in 0 .. impl.mask : \A j \in Slot \ EmptySlots(impl, c) :
                  HashAt(impl, c, j) = HashAt(impl, b, i) => c = b /\ j = i
             /\ b \in Range(Candidates(impl, HashAt(impl, b, i)))
             /\ IsInjective(ChainAt(impl, b, i))
             /\ \A x \in Range(ChainAt(impl, b, i)) : hashOf[x] = HashAt(impl, b, i)
  <2>1. PICK g \in Hash : /\ g = HashAt(impl, b, i) /\ ChainAt(impl, b, i) = F[g]
                          /\ Foremost(impl, g, b, i)
    BY <1>1, <1>4 DEF Holds, InPlace
  <2>2. ChainOf(g, F[g])
    BY <1>1 DEF Chains
  <2>3. b \in Range(Candidates(impl, g))
    BY <1>1, <2>1, CandidatesAre DEF Foremost
  <2>4. ASSUME NEW c \in 0 .. impl.mask, NEW j \in Slot, Used(impl, c, j), HashAt(impl, c, j) = g
        PROVE  c = b /\ j = i
    <3>1. Sits(impl, g, c, j) /\ Sits(impl, g, b, i)
      BY <1>4, <2>1, <2>4 DEF Sits
    <3> QED BY <1>1, <3>1, OnlyOne
  <2> QED BY <1>3, <2>1, <2>2, <2>3, <2>4 DEF ChainOf
<1> QED BY <1>2, <1>3, <1>4 DEF OneChainPerHash, HashAt, ChainAt

LEMMA InvGivesMap == IInv => MapInv
<1> SUFFICES ASSUME IInv
             PROVE  MapInv
  OBVIOUS
<1>1. Holds(impl, FoundIn(impl)) /\ IsImpl(impl) /\ Counted(impl)
  BY DEF IInv, Ready, Holds
<1>2. impl.n \in Nat
  BY <1>1, FS_CardinalityType DEF Counted
<1>3. TypeOK
  BY <1>1, <1>2 DEF TypeOK, IsImpl, Table, Content, IInv
<1>4. NothingHidden
  <2>1. ASSUME NEW x \in NodesIn(impl)
        PROVE  x \in Range(find(impl, hashOf[x]))
    <3>1. x \in Node /\ x \in Range(FoundIn(impl)[hashOf[x]])
      BY <1>1, NodesAre
    <3>2. hashOf[x] \in Hash
      BY <3>1, NodesHaveHashes
    <3> QED BY <3>1, <3>2 DEF FoundIn
  <2> QED BY <2>1 DEF NothingHidden, Stored
<1>5. CountExact
  <2>1. ASSUME Idle
        PROVE  impl.n <= calc_max_n(impl.mask) /\ impl.n >= calc_min_n(impl.mask)
    <3>1. PICK m \in Nat : m = impl.mask /\ Fits(m, impl.n)
      BY <2>1, IdleMeans
    <3>2. calc_max_n(m) \in Int /\ calc_min_n(m) \in Int
      BY LimitsAre
    <3> QED BY <1>2, <3>1, <3>2 DEF Fits
  <2> QED BY <1>1, <2>1 DEF CountExact, Stored, Counted
<1> QED BY <1>1, <1>3, <1>4, <1>5, HoldsOneChain DEF MapInv

\* Whatever insertions move and rehashes build again, every hash in use has one
\* slot, in one of its two buckets, with a chain of its nodes; a search finds
\* every node; n counts the nodes and, between calls, is within the limits of
\* the size.
THEOREM MapKept == Spec => []MapInv
BY Invariant, InvGivesMap, PTL

LEMMA InvMakesRoutesSimple == IInv => RoutesAreSimple
<1> SUFFICES ASSUME IInv, NEW h \in Hash, Crowded(impl, h), NEW r \in RoutesFound(impl, h)
             PROVE  IsInjective(StepsTo(impl, h, r))
  BY DEF RoutesAreSimple
<1>1. Holds(impl, FoundIn(impl))
  BY DEF IInv, Ready
<1> QED BY <1>1, RoutesAreSimpleIn

LEMMA InvKeepsVisible == IInv => VisibleWhileMoved
<1> SUFFICES ASSUME IInv, CanInsertNode,
                    NEW plan \in Plans(impl, hashOf[call], <<call>>), NEW k \in 0 .. Len(plan),
                    NEW x \in Stored
             PROVE  x \in Range(find(Applied(impl, SubSeq(plan, 1, k)), hashOf[x]))
  BY DEF VisibleWhileMoved
<1>1. PICK F : F = FoundIn(impl)
  OBVIOUS
<1>2. Holds(impl, F) /\ call \in Node /\ call \notin NodesIn(impl)
  BY <1>1 DEF IInv, Ready, CanInsertNode, Stored
<1>3. MayGain(impl, F, hashOf[call], <<call>>)
  BY <1>2, NodeInFront
<1>4. x \in Node /\ x \in Range(F[hashOf[x]])
  BY <1>2, NodesAre DEF Stored
<1>5. hashOf[x] \in Hash /\ F[hashOf[x]] # << >>
  BY <1>4, NodesHaveHashes DEF Range
<1>6. Range(F[hashOf[x]]) \subseteq Range(find(Applied(impl, SubSeq(plan, 1, k)), hashOf[x]))
  BY <1>3, <1>5, StoresFind
<1> QED BY <1>4, <1>6

\* The path that makes room visits no bucket twice, and after every store of an
\* insertion, however many slots it moves, a search finds every node of the map.
THEOREM MovesSafe == Spec => []MovesInv
<1>1. IInv => MovesInv
  BY InvMakesRoutesSimple, InvKeepsVisible DEF MovesInv
<1> QED BY <1>1, Invariant, PTL

LEMMA AbstractStarts == Init => Abstract!Init
<1> SUFFICES ASSUME Init
             PROVE  Abstract!Init
  OBVIOUS
<1>1. PICK b \in Basis : impl = NewImpl(0, b, 0)
  BY DEF Init
<1>2. PICK F : F = [g \in Hash |-> << >>]
  OBVIOUS
<1>3. Holds(impl, F)
  <2>1. Holds(NewImpl(0, b, 0), F)
    BY <1>2, NewHolds
  <2> QED BY <1>1, <2>1
<1>4. FoundIn(impl) = F
  BY <1>3, FoundAre
<1>5. impl.n = 0
  BY <1>1 DEF NewImpl
<1> QED BY <1>2, <1>4, <1>5 DEF Abstract!Init, Abstract!Hash, Hash, FoundIn

\* A node is in the abstract map when it is in this one.
LEMMA AbstractIn ==
  ASSUME IInv, NEW x \in Node
  PROVE  Abstract!In(x) <=> x \in NodesIn(impl)
<1>1. Ready(impl)
  BY DEF IInv
<1>2. x \in NodesIn(impl) <=> x \in Range(FoundIn(impl)[hashOf[x]])
  BY <1>1, ChainOfNode
<1> QED BY <1>2, Zenon DEF Abstract!In, Abstract!Range, Range, FoundIn, Abstract!Hash, Hash

LEMMA AbstractSteps == IInv /\ [Next]_vars => [Abstract!Next]_<<FoundIn(impl), impl.n>>
<1> DEFINE Stays == FoundIn(impl') = FoundIn(impl) /\ impl'.n = impl.n
           Goal  == Abstract!Next \/ Stays
<1> SUFFICES ASSUME IInv, [Next]_vars
             PROVE  Goal
  OBVIOUS
<1>1. ASSUME NEW x \in Node, cmap_insert(x)
      PROVE  Goal
  BY <1>1, InsertStep
<1>2. ASSUME NEW x \in Node, cmap_remove(x)
      PROVE  Goal
  <2>1. /\ x \in NodesIn(impl) /\ impl'.n = impl.n - 1
        /\ FoundIn(impl') = [FoundIn(impl) EXCEPT ![hashOf[x]] =
                               RemoveAt(@, CHOOSE i \in DOMAIN @ : @[i] = x)]
    BY <1>2, RemoveStep
  <2>2. Abstract!In(x)
    BY <2>1, AbstractIn
  <2>3. Abstract!cmap_remove(x)
    BY <2>1, <2>2, Zenon DEF Abstract!cmap_remove, Abstract!RemoveAt, RemoveAt, FoundIn
  <2> QED BY <2>3 DEF Abstract!Next
<1>3. ASSUME NEW x \in Node, NEW y \in Node, cmap_replace(x, y)
      PROVE  Goal
  <2>1. /\ x \in NodesIn(impl) /\ y \notin NodesIn(impl) /\ impl'.n = impl.n
        /\ FoundIn(impl') = [FoundIn(impl) EXCEPT ![hashOf[x]] = ReplaceAll(@, x, y)]
    BY <1>3, ReplaceStep
  <2>2. Abstract!In(x) /\ ~Abstract!In(y) /\ hashOf[x] = hashOf[y]
    BY <1>3, <2>1, AbstractIn DEF cmap_replace
  <2>3. Abstract!cmap_replace(x, y)
    BY <2>1, <2>2, Zenon DEF Abstract!cmap_replace, Abstract!ReplaceAll, ReplaceAll, FoundIn
  <2> QED BY <2>3 DEF Abstract!Next
<1>4. CASE InsertNode
  <2>1. CASE impl' = impl
    BY <2>1
  <2>2. CASE /\ call \in Node /\ call \notin NodesIn(impl) /\ impl'.n = impl.n + 1
             /\ FoundIn(impl') = [FoundIn(impl) EXCEPT ![hashOf[call]] = <<call>> \o @]
    <3>1. ~Abstract!In(call)
      BY <2>2, AbstractIn
    <3>2. Abstract!cmap_insert(call)
      BY <2>2, <3>1, Zenon DEF Abstract!cmap_insert, FoundIn
    <3> QED BY <2>2, <3>2 DEF Abstract!Next
  <2> QED BY <1>4, <2>1, <2>2, InsertNodeStep
<1>5. ASSUME NEW b \in Basis, Rehash(b)
      PROVE  Goal
  BY <1>5, RehashStep
<1>6. CASE UNCHANGED vars
  BY <1>6 DEF vars
<1> HIDE DEF Goal
<1> QED BY <1>1, <1>2, <1>3, <1>4, <1>5, <1>6 DEF Next

\* For its writer the map is a chain per hash: an insertion puts the node in
\* front of its chain at the step that succeeds, a removal and a replacement
\* change the one chain, and a rehash is not seen.
THEOREM ImplementsMap == Spec => ImplementsNodeMap
<1>1. Init => Abstract!Init
  BY AbstractStarts
<1>2. IInv /\ [Next]_vars => [Abstract!Next]_<<[h \in Hash |-> find(impl, h)], impl.n>>
  BY AbstractSteps DEF FoundIn
<1> QED BY <1>1, <1>2, Invariant, PTL DEF Spec, ImplementsNodeMap, Abstract!Spec

=============================================================================
