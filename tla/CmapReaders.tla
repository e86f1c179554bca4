---------------------------- MODULE CmapReaders ----------------------------
(***************************************************************************)
(* The promise of OVS/cmap.h: one writer may insert, remove and replace    *)
(* while any number of threads search or iterate.  The writer of Cmap is   *)
(* taken apart into its single stores, and a reader into its single loads. *)
(* Readers write nothing, so one reader stands for any number of them, and *)
(* each hash of a batch (cmap_find_batch) for a search of its own.         *)
(*                                                                         *)
(* The fields are plain ones, so what happens depends on the build.  As    *)
(* written, loads and stores happen in the order of the source (optimised  *)
(* is FALSE: the build of CMakeLists.txt, which asks for no optimisation). *)
(* At the -O3 of the makefile, g++ drops the first store to the counter of *)
(* a bucket, which the second overwrites, and every load of a counter, for *)
(* nothing it can see changes one.                                         *)
(*                                                                         *)
(* A rehash frees the buckets that a reader may be looking at: what such a *)
(* reader sees is undefined, and it is lost.                               *)
(***************************************************************************)
EXTENDS Integers, Sequences, FiniteSetsExt, SequencesExt

CONSTANTS
  Node, hashOf, None, CMAP_K,              (* As in Cmap.                  *)
  MAX_DEPTH, MAX_QUEUE, MaxLoad, MinLoad, Basis,
  hash_finish(_, _),
  Filled,     (* Calls before the readers start: see AfterCalls.           *)
  MaxCalls    (* Bound on the calls of the writer from then on.            *)

ASSUME ReadersAssumption == MaxCalls \in Nat /\ None \notin Node

VARIABLES
  optimised,  \* whether the build is the makefile's
  impl,       \* mask, basis, n and buckets of counter, hashes and nodes
  next,       \* the next member of every node
  call, goal, \* as in Cmap
  todo,       \* the stores that the call of the writer has yet to make
  calls,      \* the number of calls of the writer
  rd,         \* the reader
  seen        \* history: what a reader must and may come across

vars == <<optimised, impl, next, call, goal, todo, calls, rd, seen>>

-----------------------------------------------------------------------------
(***************************************************************************)
(* The map as its writer sees it.                                          *)
(***************************************************************************)

\* The list that begins at a node.
ChainFrom(x) ==
  LET list[k \in 0 .. Cardinality(Node), y \in Node \cup {None}] ==
        IF k = 0 \/ y = None THEN << >> ELSE <<y>> \o list[k - 1, next[y]]
  IN  list[Cardinality(Node), x]

View ==
  [mask |-> impl.mask, basis |-> impl.basis, n |-> impl.n,
   buckets |-> [b \in 0 .. impl.mask |-> [i \in 1 .. CMAP_K |->
                  [hash  |-> impl.buckets[b].hashes[i],
                   chain |-> ChainFrom(impl.buckets[b].nodes[i])]]]]

Map == INSTANCE Cmap WITH impl <- View

First(chain) == IF chain = << >> THEN None ELSE chain[1]

\* The buckets that Cmap describes by their chains; all counters are even.
Built(im) ==
  [mask |-> im.mask, basis |-> im.basis, n |-> im.n,
   buckets |-> [b \in 0 .. im.mask |->
                  [counter |-> 0,
                   hashes  |-> [i \in Map!Slot |-> im.buckets[b][i].hash],
                   nodes   |-> [i \in Map!Slot |-> First(im.buckets[b][i].chain)]]]]

\* The node that follows x in one of the chains.
After(chains, x) ==
  LET follows(y) == \E c \in chains : \E k \in 2 .. Len(c) : c[k - 1] = x /\ c[k] = y
  IN  IF \E y \in Node : follows(y) THEN CHOOSE y \in Node : follows(y) ELSE None

WriterIdle == Map!Idle /\ todo = << >>

\* What calls one after the other may have made of an empty map: a node is
\* inserted when it comes first and removed when it comes again.
Resized(im, mask) == UNION {Map!TryRehash(im, mask, b) : b \in Basis}

AfterCall(ims, x) ==
  UNION {IF x \in Map!NodesIn(im)
           THEN LET left == [Map!Replaced(im, x, << >>) EXCEPT !.n = @ - 1]
                IN  IF left.n < Map!calc_min_n(im.mask) THEN Resized(left, im.mask \div 2) ELSE {left}
           ELSE LET grown == IF im.n >= Map!calc_max_n(im.mask) THEN Resized(im, 2 * im.mask + 1)
                                                                ELSE {im}
                IN  {[made EXCEPT !.n = @ + 1] :
                       made \in UNION {Map!TryInsert(g, hashOf[x], <<x>>) : g \in grown}}
         : im \in ims}

AfterCalls(xs) == FoldLeft(AfterCall, {Map!NewImpl(0, b, 0) : b \in Basis}, xs)

NoReader == [pc |-> "idle"]
Nothing  == [must |-> {}, may |-> {}, steady |-> TRUE]

Init ==
  /\ optimised \in BOOLEAN
  /\ \E xs \in Filled : \E im \in AfterCalls(xs) :
       /\ impl = Built(im)
       /\ next = [x \in Node |-> After(Map!ChainsIn(im), x)]
  /\ call = None /\ goal = -1 /\ todo = << >> /\ calls = 0
  /\ rd = NoReader
  /\ seen = Nothing

-----------------------------------------------------------------------------
(***************************************************************************)
(* The writer.  A call prepares what no reader can see yet, and then makes *)
(* its stores, each a step.                                                *)
(***************************************************************************)

Count(b, by)      == [to |-> "counter", bucket |-> b, by |-> by]
Hashes(b, i, h)   == [to |-> "hashes", bucket |-> b, slot |-> i, value |-> h]
Nodes(b, i, x)    == [to |-> "nodes", bucket |-> b, slot |-> i, value |-> x]
NextOf(x, y)      == [to |-> "next", node |-> x, value |-> y]
Size(by)          == [to |-> "n", by |-> by]

\* A slip: the second store to the counter is forgotten.
SetBucketLeftOdd(b, i, x, h) == <<Count(b, 1), Nodes(b, i, x), Hashes(b, i, h)>>

\* A slip: the counter is only moved when all is done.
SetBucketCountedLate(b, i, x, h) == <<Nodes(b, i, x), Hashes(b, i, h), Count(b, 2)>>

cmap_set_bucket(b, i, x, h) ==
  IF optimised THEN <<Nodes(b, i, x), Hashes(b, i, h), Count(b, 2)>>
               ELSE <<Count(b, 1), Nodes(b, i, x), Hashes(b, i, h), Count(b, 1)>>

\* A slip: the slots are moved from the start of the path.
StoresForward(plan) ==
  FoldRight(LAMBDA s, stores : stores \o cmap_set_bucket(s.bucket, s.slot, First(s.chain), s.hash),
            plan, << >>)

\* The stores of a plan of Cmap, in its order.
Stores(plan) ==
  FoldLeft(LAMBDA stores, s : stores \o cmap_set_bucket(s.bucket, s.slot, First(s.chain), s.hash),
           << >>, plan)

\* The contract of cmap.h: a node that was removed is not inserted again while
\* a reader may be on it.
Fresh(x) == x \notin Map!Stored /\ x \notin seen.may

Of(x) == IF rd.pc # "idle" /\ rd.hash \in {None, hashOf[x]} THEN {x} ELSE {}

cmap_insert(x) ==
  /\ WriterIdle /\ calls < MaxCalls
  /\ Fresh(x)
  /\ next' = [next EXCEPT ![x] = None]
  /\ call' = x
  /\ goal' = IF impl.n >= Map!calc_max_n(impl.mask) THEN 2 * impl.mask + 1 ELSE -1
  /\ calls' = calls + 1
  /\ seen' = [seen EXCEPT !.may = @ \cup Of(x), !.steady = FALSE]
  /\ UNCHANGED <<optimised, impl, todo, rd>>

\* cmap_try_insert has found a way, or there is none.  A node that joins a
\* chain is linked to it first and published by a single store.
InsertNode ==
  LET hash  == hashOf[call]
      c     == Map!Candidates(View, hash)
      plans == Map!Plans(View, hash, <<call>>)
      joins == UNION {Map!DupPlans(View, hash, <<call>>, b) : b \in Range(c)} # {}
  IN
  /\ call # None /\ goal = -1 /\ todo = << >>
  /\ \/ /\ plans = {}
        /\ goal' = impl.mask
        /\ UNCHANGED <<next, todo>>
     \/ \E plan \in plans :
        /\ IF joins
             THEN LET s == plan[1] IN
                  /\ next' = [next EXCEPT ![call] = impl.buckets[s.bucket].nodes[s.slot]]
                  /\ todo' = <<Nodes(s.bucket, s.slot, call), Size(1)>>
             ELSE /\ todo' = Append(Stores(plan), Size(1))
                  /\ UNCHANGED next
        /\ UNCHANGED goal
  /\ UNCHANGED <<optimised, impl, call, calls, rd, seen>>

\* The store that makes the list skip x, or take y in its place: into the slot
\* if x is the first of its list, else into the node before it.
Relink(x, y) ==
  LET slots  == {s \in (0 .. impl.mask) \X Map!Slot : impl.buckets[s[1]].nodes[s[2]] = x}
      before == {z \in Map!Stored : next[z] = x}
  IN  {Nodes(s[1], s[2], y) : s \in slots} \cup {NextOf(z, y) : z \in before}

cmap_remove(x) ==
  /\ WriterIdle /\ calls < MaxCalls
  /\ x \in Map!Stored
  /\ \E store \in Relink(x, next[x]) : todo' = <<store, Size(-1)>>
  /\ calls' = calls + 1
  /\ seen' = [seen EXCEPT !.must = @ \ {x}]
  /\ UNCHANGED <<optimised, impl, next, call, goal, rd>>

cmap_replace(x, y) ==
  /\ WriterIdle /\ calls < MaxCalls
  /\ x \in Map!Stored /\ Fresh(y) /\ hashOf[x] = hashOf[y]
  /\ next' = [next EXCEPT ![y] = next[x]]
  /\ \E store \in Relink(x, y) : todo' = <<store>>
  /\ calls' = calls + 1
  /\ seen' = [seen EXCEPT !.must = @ \ {x}, !.may = @ \cup Of(y)]
  /\ UNCHANGED <<optimised, impl, call, goal, rd>>

\* The next store.  The one to n is the last of a call, which may then go on
\* to shrink the map.
MakeStore ==
  /\ todo # << >>
  /\ todo' = Tail(todo)
  /\ LET s == Head(todo) IN
     \/ /\ s.to = "counter"
        /\ impl' = [impl EXCEPT !.buckets[s.bucket].counter = @ + s.by]
        /\ UNCHANGED <<next, call, goal>>
     \/ /\ s.to \in {"nodes", "hashes"}
        /\ impl' = [impl EXCEPT !.buckets[s.bucket][s.to][s.slot] = s.value]
        /\ UNCHANGED <<next, call, goal>>
     \/ /\ s.to = "next"
        /\ next' = [next EXCEPT ![s.node] = s.value]
        /\ UNCHANGED <<impl, call, goal>>
     \/ /\ s.to = "n"
        /\ impl' = [impl EXCEPT !.n = @ + s.by]
        /\ call' = None
        /\ goal' = IF s.by < 0 /\ impl'.n < Map!calc_min_n(impl.mask) THEN impl.mask \div 2 ELSE -1
        /\ UNCHANGED next
  /\ UNCHANGED <<optimised, calls, rd, seen>>

\* cmap_rehash builds out of sight, publishes, and frees the old buckets.
Rehash(basis) ==
  /\ goal # -1
  /\ \E im \in Map!TryRehash(View, goal, basis) : impl' = Built(im)
  /\ goal' = -1
  /\ rd' = IF rd.pc = "idle" THEN rd ELSE [rd EXCEPT !.freed = TRUE]
  /\ UNCHANGED <<optimised, next, call, todo, calls, seen>>

-----------------------------------------------------------------------------
(***************************************************************************)
(* A reader: a search for a hash, followed to the end of the list it finds *)
(* (CMAP_FOR_EACH_WITH_HASH), or a cursor over all nodes (CMAP_FOR_EACH).  *)
(* Its pc names the load that comes next: of the counter of bucket k, of   *)
(* the hash or the node of slot i, of the counter again, of the counter of *)
(* the first bucket once both are searched, or of the next member of node. *)
(***************************************************************************)

\* The nodes of a call that is not over: those it brings, and what is in the map
\* but for these and a node that it takes out.
Links   == {s \in Range(todo) : s.to \in {"nodes", "next"}}
Coming  == Node \cap ({call} \cup {s.value : s \in Links})
Settled == {x \in Map!Stored \ {call} : call # None \/ ~\E s \in Links : s \in Relink(x, s.value)}

StartReader(pc, hash, b) ==
  LET of(S) == {x \in S : hash \in {None, hashOf[x]}} IN
  /\ rd.pc = "idle"
  /\ rd' = [pc |-> pc, hash |-> hash, b |-> b, c |-> <<0, 0>>, k |-> 1, i |-> 1,
            node |-> None, visited |-> << >>, freed |-> FALSE]
  /\ seen' = [must |-> of(Settled), may |-> of(Map!Stored \cup Coming),
              steady |-> call = None]
  /\ UNCHANGED <<optimised, impl, next, call, goal, todo, calls>>

cmap_find(hash) == StartReader("even", hash, Map!Candidates(impl, hash))

cmap_cursor_start == StartReader("cursor", None, <<0, 0>>)

\* A load from the buckets at pc, which changes the reader's own state only.
Loads(pc) ==
  /\ rd.pc = pc /\ ~rd.freed
  /\ UNCHANGED <<optimised, impl, next, call, goal, todo, calls, seen>>

Bucket == impl.buckets[rd.b[rd.k]]

\* A slip: the counter that a search remembers is never read again.
ReadNoCounter ==
  /\ Loads("even")
  /\ optimised \/ Bucket.counter % 2 = 0
  /\ rd' = [rd EXCEPT !.i = 1, !.pc = "hash"]

\* read_even_counter turns until the counter is even.
ReadEvenCounter ==
  /\ Loads("even")
  /\ optimised \/ Bucket.counter % 2 = 0
  /\ rd' = [rd EXCEPT !.c[rd.k] = Bucket.counter, !.i = 1, !.pc = "hash"]

\* cmap_find_in_bucket, a slot at a time.
ReadHash ==
  /\ Loads("hash")
  /\ rd' = IF Bucket.hashes[rd.i] = rd.hash THEN [rd EXCEPT !.pc = "node"]
           ELSE IF rd.i < CMAP_K THEN [rd EXCEPT !.i = @ + 1]
           ELSE [rd EXCEPT !.node = None, !.pc = "changed"]

ReadNode ==
  /\ Loads("node")
  /\ rd' = [rd EXCEPT !.node = Bucket.nodes[rd.i], !.pc = "changed"]

counter_changed(k) == ~optimised /\ impl.buckets[rd.b[k]].counter # rd.c[k]

\* The loops of cmap_find__ around one bucket.
CheckBucket ==
  /\ Loads("changed")
  /\ rd' = IF counter_changed(rd.k) THEN [rd EXCEPT !.pc = "even"]
           ELSE IF rd.node # None    THEN [rd EXCEPT !.pc = "walk"]
           ELSE IF rd.k = 1          THEN [rd EXCEPT !.k = 2, !.pc = "even"]
           ELSE [rd EXCEPT !.pc = "again"]

\* A slip: a miss in both buckets is taken at its word.
NotFound ==
  /\ Loads("again")
  /\ rd' = [rd EXCEPT !.pc = "done"]

\* Its outer loop: the list may have moved from the second bucket to the first.
CheckFirstBucketAgain ==
  /\ Loads("again")
  /\ rd' = IF counter_changed(1) THEN [rd EXCEPT !.k = 1, !.pc = "even"]
                                 ELSE [rd EXCEPT !.pc = "done"]

\* CMAP_NODE_FOR_EACH: nodes stay allocated while a reader may be on them.
Walk ==
  /\ rd.pc = "walk"
  /\ rd' = [rd EXCEPT !.visited = Append(@, rd.node), !.node = next[rd.node],
                      !.pc = IF next[rd.node] = None THEN "done" ELSE "walk"]
  /\ UNCHANGED <<optimised, impl, next, call, goal, todo, calls, seen>>

\* A cursor's own place is bucket b[1] and slot i.
Arrived(r, x) == IF x = None THEN [r EXCEPT !.node = None]
                 ELSE [r EXCEPT !.node = x, !.visited = Append(@, x)]

\* A slip: the place is not moved on.
CursorSlotAgain ==
  /\ Loads("cursor")
  /\ rd.node = None /\ rd.b[1] <= impl.mask
  /\ rd' = Arrived([rd EXCEPT !.b[1] = IF rd.i = CMAP_K THEN @ + 1 ELSE @,
                              !.i = IF rd.i = CMAP_K THEN 1 ELSE 2],
                   impl.buckets[rd.b[1]].nodes[1])

\* cmap_cursor_advance: the rest of a list, then the slots in order.
CursorList ==
  /\ rd.pc = "cursor" /\ rd.node # None
  /\ rd' = Arrived(rd, next[rd.node])
  /\ UNCHANGED <<optimised, impl, next, call, goal, todo, calls, seen>>

CursorSlot ==
  /\ Loads("cursor")
  /\ rd.node = None /\ rd.b[1] <= impl.mask
  /\ rd' = Arrived([rd EXCEPT !.b[1] = IF rd.i = CMAP_K THEN @ + 1 ELSE @,
                              !.i = IF rd.i = CMAP_K THEN 1 ELSE @ + 1],
                   impl.buckets[rd.b[1]].nodes[rd.i])

CursorEnd ==
  /\ Loads("cursor")
  /\ rd.node = None /\ rd.b[1] > impl.mask
  /\ rd' = [rd EXCEPT !.pc = "done"]

\* A load from buckets that are freed: nothing is known of it.
ReadFreed ==
  /\ rd.pc \notin {"idle", "walk", "done", "lost"} /\ rd.freed
  /\ rd.pc = "cursor" => rd.node = None
  /\ rd' = [rd EXCEPT !.pc = "lost"]
  /\ UNCHANGED <<optimised, impl, next, call, goal, todo, calls, seen>>

EndReader ==
  /\ rd.pc \in {"done", "lost"}
  /\ rd' = NoReader
  /\ seen' = Nothing
  /\ UNCHANGED <<optimised, impl, next, call, goal, todo, calls>>

ReaderStep ==
  \/ ReadEvenCounter \/ ReadHash \/ ReadNode \/ CheckBucket \/ CheckFirstBucketAgain \/ Walk
  \/ CursorList \/ CursorSlot \/ CursorEnd \/ ReadFreed

Next ==
  \/ \E x \in Node : cmap_insert(x) \/ cmap_remove(x) \/ \E y \in Node : cmap_replace(x, y)
  \/ InsertNode \/ MakeStore
  \/ \E b \in Basis : Rehash(b)
  \/ \E h \in Map!Hash : cmap_find(h)
  \/ cmap_cursor_start
  \/ ReaderStep
  \/ EndReader

(***************************************************************************)
(* The threads of both are scheduled.  Calls are bounded, so the writer    *)
(* comes to rest; a writer that never does may hold up a search for ever.  *)
(* The second conjunct is WF_vars(InsertNode), with ENABLED written out,   *)
(* which TLC evaluates faster.                                             *)
(***************************************************************************)
CanInsertNode == call # None /\ goal = -1 /\ todo = << >>

Fairness ==
  /\ WF_vars(ReaderStep) /\ WF_vars(MakeStore)
  /\ []<>~CanInsertNode \/ []<><<InsertNode>>_vars

Spec == Init /\ [][Next]_vars /\ Fairness

-----------------------------------------------------------------------------
\* Each variable has its type, and a counter is odd only while a store of the
\* writer is due that makes it even.
TypeOK ==
  /\ optimised \in BOOLEAN
  /\ next \in [Node -> Node \cup {None}]
  /\ call \in Node \cup {None} /\ goal \in Nat \cup {-1} /\ calls \in 0 .. MaxCalls
  /\ \A b \in 0 .. impl.mask :
       /\ impl.buckets[b].hashes \in [Map!Slot -> Map!Hash \cup {Map!Zero}]
       /\ impl.buckets[b].nodes \in [Map!Slot -> Node \cup {None}]
       /\ impl.buckets[b].counter % 2 = 1 => \E s \in Range(todo) : s.to = "counter" /\ s.bucket = b
  /\ rd.pc \in {"idle", "even", "hash", "node", "changed", "again", "walk", "cursor", "done", "lost"}

\* Whatever the writer is in the middle of, and in either build, every list is
\* in full in the first slot with its hash of one of its two buckets: no node
\* disappears while slots are moved.
NoneDisappears ==
  \A x \in Settled : \E b \in Range(Map!Candidates(impl, hashOf[x])) :
    x \in Range(Map!find_in_bucket(View, b, hashOf[x]))

\* A search reliably visits each node with its hash that was in the map all the
\* time, as the source is written.
SearchVisitsAll ==
  rd.pc = "done" /\ rd.hash # None /\ ~optimised => seen.must \subseteq Range(rd.visited)

\* A search visits only nodes with its hash that were in the map at some time
\* during it, as the source is written.
SearchVisitsOnly ==
  rd.pc \in {"walk", "done"} /\ rd.hash # None /\ ~optimised =>
    Range(rd.visited) \cup {rd.node} \subseteq seen.may \cup {None}

\* Without insertions an iteration visits every node once, in either build; a
\* node being removed or put in at most once.
CursorVisitsOnce ==
  rd.pc # "idle" /\ rd.pc # "lost" /\ rd.hash = None /\ seen.steady =>
    /\ IsInjective(rd.visited) /\ Range(rd.visited) \subseteq seen.may
    /\ rd.pc = "done" => seen.must \subseteq Range(rd.visited)

\* A search or an iteration that is begun comes to an end.
ReadersEnd == rd.pc \notin {"idle", "done", "lost"} ~> rd.pc \in {"idle", "done", "lost"}

=============================================================================
