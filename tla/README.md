# HybridTSS in TLA+

HybridTSS is a packet classifier in C++: given a set of rules (ranges over
five header fields, each with a priority) it answers, for a packet, the
greatest priority of the rules that match. This directory holds TLA+ models of
the classifiers of the repository, the TLC configurations that check them on
small instances, and TLAPS proofs of what holds for every instance. Paths below
are relative to `src/`.

To check a run: `tlc -config PSTSS.cfg MCPSTSS`. To check the proofs:
`tlapm M.tla` for each of `FoldLemmas`, `RulesProofs`, `PSTSSProofs`, `TupleMergeProofs`,
`SubHybridProofs`, `CmapProofs`, `CutTSSProofs` and `HybridTSSProofs`.

## 1. Inventory

| Component | State | Operations | What is hard about it | What makes it correct |
|---|---|---|---|---|
| **Rules and `PacketClassifier`** (`ElementaryClasses.h`) | rules, packets | `MatchesPacket`, `InsertSortedByPriority`, `InsertRule`, `DeleteRule`, `ClassifyAPacket` | two rules may have one priority, one rule may be inserted twice | a lookup answers what a linear scan would |
| **PSTSS** (`OVS/TupleSpaceSearch`) | hash table of tuples by prefix lengths, sorted vector of tuples; per tuple a `cmap` of rules, a multiset of priorities, the greatest one | insert, delete (drops empty tuples, may `exit(0)`), lookup with early exit | five indexes of the same rules change at different places; a delete finds its node by priority only | the indexes agree; the early exit loses nothing; no delete exits |
| **TupleMerge** (`TupleMerge/TupleMergeOnline`, `SlottedTable`) | list of tables sorted by greatest priority, the table of each rule (`assignments`), tables as in PSTSS but with a mask over five fields | insert with table split, delete, lookup | a split moves rules one by one into a table that may exist already or be the same one | no rule lost, doubled or put where lookups do not look; `assignments` follows |
| **SubHybridTSS tree** (`HybridTSS/SubHybridTSS`, the build loop of `HybridTSS.cpp`) | tree of Hash nodes, list leaves, TupleMerge leaves, a `bigClassifier` per node, `maxBigPriority` | construct by action with rewards, insert, delete, lookup, `getKey` | state set by the build and not by updates; null children; short prefixes | lookups and updates come to the same leaf; lookups are exact |
| **HybridTSS lifecycle** (`HybridTSS.cpp`, `docs/htq1-model-contract.md`) | root, `QTable`, `qtable_loaded_`, error text, files | `ConstructClassifierSafe`, `LoadQTable`, `SaveQTable`, `ConstructBaseline`, `IsReady` | a step of several fails; crash or full disk while saving; sizes of table and index differ | a classifier that says it is ready is; a file that loads is a whole trained table |
| **HybridTSS training** (`HybridTSS.cpp`, OpenMP) | per-thread Q-tables and update counts, progress counters, the merged table | `train` | threads, a smaller team than asked for, striping, a check before and in a critical section, weighted merge | every update is counted once; no progress is announced that there is not; it ends |
| **cmap** (`OVS/cmap`) | buckets of five slots with a counter, node chains | insert, replace, remove, rehash, find, cursor | cuckoo displacement, slots that keep the hash of a removed node, readers without locks, fields without fences, buckets freed under readers | a node inserted and not removed is found, also by a reader that races the writer |
| **CutTSS** (`CutTSS/CutTSS`) | four subsets by prefix lengths with their greatest priorities, cut trees with list and PSTSS leaves | construct, insert, delete, lookup | two codes choose the subset; updates follow one path, missing children; a list deletes by priority | constructed rules stay reachable; a lookup is a scan of the rules it is led to |
| **Driver** (`main.cpp`, `cli.cpp`) | options, timings | parse, run classifiers and updates, print | - | it shows what clients do: build, then delete and insert rules of the same set |
| **Hash, random, utilities** (`OVS/hash.h`, `OVS/random.h`, `OVS/MapExtensions`) | - | Murmur and Bernstein mixing | - | a function of its arguments |
| **Generators, scripts, build files** | - | - | - | - |

How they interact: the driver calls the classifiers through
`PacketClassifier`, in one thread. `PSTSS` and `TupleMerge` keep their nodes in
`cmap`s. `HybridTSS` owns a tree of `SubHybridTSS` nodes, each TM leaf of which
owns a `TupleMerge`; `CutTSS` owns `PSTSS` leaves. Only training runs threads
(OpenMP), on trees and tables of their own, joined by a merge. `cmap` was
written for one writer and many lock-free readers; here it has one thread, but
its header still promises the readers a protocol.

The hazards these parts are exposed to are listed in `PROJECT.json`, each at
its line and with the properties that would catch it.

## 2. Modules

| Module | Models | Composes |
|---|---|---|
| `Rules` | rules, packets, the match relation, the linear scan | |
| `Classifier` | the contract of `PacketClassifier`: an abstract specification | `Rules` |
| `PSTSS` | `PriorityTuple`, `PriorityTupleSpaceSearch` | `Rules`; implements `Classifier` |
| `PSTSSProofs` | its proofs | `PSTSS` |
| `TupleMerge` | `TupleMergeOnline`, `SlottedTable` | `Rules`; implements `Classifier` |
| `TupleMergeProofs` | its proofs, and lemmas on what one table and one split do | `TupleMerge` |
| `RuleLists` | lists of rules by descending priority: `InsertSortedByPriority`, `RemoveMatchingRule`, the search for the first match | `Rules` |
| `SubHybrid` | the tree, the greedy build loop | `RuleLists` |
| `SubHybridProofs` | its proofs | `SubHybrid` |
| `FoldLemmas`, `RulesProofs` | lemmas all proofs share: induction over finite sets, folds, sums, sequences; the linear scan; lists and what they count | `RuleLists` |
| `NodeMap` | what a `cmap` promises its writer: an abstract specification | |
| `Cmap` | `OVS/cmap.cpp` as its writer sees it | implements `NodeMap` |
| `CmapProofs` | its proofs | `Cmap` |
| `CmapReaders` | the single stores of the writer and the single loads of searches and cursors | `Cmap`, whose plans the writer carries out |
| `CutTSS` | `CutTSS.cpp`: subsets, cut trees, updates, lookups | `RuleLists` |
| `CutTSSProofs` | its proofs | `CutTSS` |
| `QTraining` | the parallel training of a Q-table | |
| `HybridTSS` | objects, options, construction, saving and loading, crashes | `QTraining` |
| `HybridTSSProofs` | its proofs, and those about the training | `HybridTSS` |
| `MCPSTSS`, `MCTupleMerge`, `MCSubHybrid`, `MCCmap`, `MCCmapReaders`, `MCCutTSS`, `MCHybridTSS` | the small instances | |

### Classifier

`live` counts the copies of each rule the client has inserted, `ret` is what
the last call returned. A lookup returns the linear scan of the live rules. A
client deletes only what it has inserted, as the driver and the tests do, and
inserts at most `MaxCopies` copies (a bound).

### PSTSS

| Variable | Code |
|---|---|
| `all_priority_tuples`, `priority_tuples_vector` | the members of these names; a tuple is named by its prefix lengths, which its key packs without collisions |
| `map_in_tuple[k][h]` | the `cmap` of tuple `k`: the chain of nodes per hash |
| `priority_container[k]`, `maxPriority[k]` | the multiset and the cached greatest priority |
| `running` | FALSE after the `exit(0)` in `DeleteRule` |

`InsertRule`, `DeleteRule` and `ClassifyAPacket` are one action each, with the
sort of the vector, the drop of an empty tuple and the exit. `std::sort` leaves
ties in any order, and the model takes every one. `Deletion` unlinks the first node
of the chain with the priority of the rule, as the code does. `Lookup` is the
loop with its `break`.

What a client owes (`HashAssumption`): the low end of an address range has no
host bits, for a rule is hashed by its low end and a packet by its masked
address. `loadrule` does not mask it, so this is a contract on the rule file.

### TupleMerge

`tables` is the list in lookup order, `slotted` the tables by mask,
`assignments` the partial function the code keeps by priority and id. A mask
names its table, since `FindOrMake` never makes a second one. An insertion with
its split is one action: `Insertion`, `SplitTuple`, `FindOrMake`, the moves, the
changes of `assignments`, the re-sort. `Deletion` and `Insertion` thread
`priority_change` through the split because the code does not reset it.

Protocol lengths (255 and 127) make `Mask` shift by more than the width of the word,
which is undefined; the outcomes that builds give are the values of `ProtoGrain`.

What a client owes is `PrefixAssumption`: a prefix length is one of a prefix that all points of the rule's
range share, as `loadrule` computes it, and a packet has five fields. `TupleMergeAssumption` says
that priority and id name a rule, by which the code keys `assignments`.

### SubHybrid

A node is named by its path, the keys from the root (`Big` for a
`bigClassifier`); a null pointer is a path without a node. `BuildNode` is one
turn of the build loop. `policy` records the greedy action of each row of the
Q-table as it is looked at: any action, the same one for equal states, so the
model builds the trees of every Q-table. A TM leaf is kept as a list: that TupleMerge
answers like a list is the refinement the run `TupleMerge` checks. `Served(r)` says
which inserted rules lookups can find: on the way to the rule every
`bigClassifier` exists and was built with no lower priority. `reward` is what the
construction adds to each node above a TM leaf: what training learns from. The build
mode and the training mode add it alike.

`InsertRule` puts a rule into a leaf where `lower_bound` of its priority points (`InsertSortedByPriority` of `RuleLists`). Two assumptions name what the code takes
for granted. `PrefixAssumption`: packets and ranges are naturals, and a prefix length is that of a
prefix all points of the range share, or of a shorter one. `PowersAssumption` lists what the proofs know of
powers of two (2^0 is 1, each is twice the one before, up to 2^30, the largest table); TLC works it out.

### Cmap

| Variable | Code |
|---|---|
| `impl` | `cmap_impl`: `mask`, `basis`, `n`, and `buckets` of slots; a slot is a hash and the chain of nodes it points to |
| `call` | the node `cmap_insert` is at work on |
| `goal` | the mask for which `cmap_rehash` is looking for a basis, or -1 |

An insertion is a plan, the sequence of `cmap_set_bucket` stores it makes, from
the first of the ways in `cmap_try_insert` that works. The breadth-first search
is stated by what it finds, a shortest path and the first of these in the order of the
queue, instead of by its queue; it finds nothing if `MAX_QUEUE` paths are `Ahead` in the queue of the
one to be prolonged. The two loops that wait for a better basis make a call
several steps: `cmap_insert` (grow first?), `InsertNode` (one turn of the loop), `Rehash(basis)`
(a draw that works; one that fails changes nothing).

### CmapReaders

| Variable | Code |
|---|---|
| `impl`, `next` | the buckets with counter, hashes and node pointers, and the `next` member of every node |
| `call`, `goal` | as in `Cmap` |
| `todo` | the stores that the writer's call has yet to make; each is a step |
| `rd` | a reader: which load comes next (`pc`), the buckets and counters it remembers, the place in a list, the nodes it has visited |
| `seen` | history: the nodes a reader has to come across, and may |
| `optimised` | which build it is |

The writer's calls are those of `Cmap`, seen through the refinement mapping `View`
(chains instead of links); `Stores` takes a plan apart into the stores of
`cmap_set_bucket`. Readers write nothing, so one stands for any number; a batch is a search
per hash. The contract of `cmap.h:51-55`, a removed node is not inserted again
while a reader may be on it, is the guard `Fresh`.

The counter and the other fields are plain members, so the build decides what a race
does. As written (`optimised` is FALSE) every load and store happens in source
order; that is what a build without optimisation does, such as the one of `CMakeLists.txt` with no build type. At `-O3`,
the flag of the `makefile`, g++ drops the first of the two stores to the counter and all loads of it; this was read off
the assembly of `cmap.cpp`. Stores and loads that remain are taken to keep their order, as
on x86. Other compilers may do otherwise.

A rehash frees the old buckets at once (`cmap.cpp:1028`). A reader that still needs
them is `lost`: the model claims nothing of it. Nodes stay allocated, so a reader
that has come to a list goes on.

### CutTSS

| Variable | Code |
|---|---|
| `subset`, `maxPri` | the members of these names |
| `nodes` | the nodes of the three trees and `PSbig` (as tree 3), by name: tree, depth, and slot of each cut field |
| `built` | history: the rules a tree was constructed from, at first or when its subset got its first rule |

All nodes of one tree cut into equally many slots, or are leaves, so a node is where
the points of a slot come to. `ConstructCutTSSTrie` gives the tree by levels, `Reached` is
the loop of `trieLookup`, `Place` the same loop for the low ends of a rule, as in `trieInsert` and
`trieDelete`. A PSTSS leaf is a list of its rules (`PSTSS` shows that it answers like one).
`LinearWithout` deletes what `lower_bound` finds, the first rule of no greater priority, as the code does;
so of two rules with one priority a leaf may lose the wrong one, and `TreeInv` counts the rules that a leaf does not
tell from each other (`Confused`). The construction gets its rules by descending priority, those of equal priority in any order.

`AddressAssumption` says what `loadrule` makes of a prefix: a range of W-bit addresses, the low end first.
`CutTSSAssumption` bounds the thresholds and cuts and says that priority and id name a rule; `PowersAssumption`
lists what the proofs know of powers of two, up to 2^W.

### QTraining and HybridTSS

| Variable | Code |
|---|---|
| `team`, `pc`, `i`, `done` | the threads of the region, where each is, its loop variable and its copy of the counter |
| `Qlocal`, `countLocal` | `localQ`, `localCount` |
| `progressCounter`, `nextPrint`, `announced` | the two atomics; the last line printed |
| `unmerged`, `QTable`, `QCount` | the entries the merge has left, the merged table and its counts |
| `root`, `table`, `qtable_loaded_`, `last_error_` | the members of each object; `root` is named by the table that built it |
| `call` | the call under way: preparing, training, opening, writing block `n`, building |
| `file` | the blocks at each path: header, then rows |

What an episode learns is a constant of the instance (`Lessons`): an episode works on a tree and a generator of its
thread, and reads no table that another thread writes. (Its exploration depends on `seed` and thread number; `getAction`
reads `QTable`, which nobody writes before the join.) Values are integers, with all divisions of the instance exact. The critical section is one
step; the check before it is another. OpenMP may give a smaller team than
`omp_get_max_threads()` said, and then the episodes of the missing threads are not run: the loop
strides by the number asked for. `EpisodesRun` says which are.

A save opens and truncates, then writes block by block; it may fail to open, fail at any block, lose the last one at
the close without a word, since `out.good()` is asked before the stream is destroyed, or be cut off by `Crash`. The loader reads
the whole file before it swaps tables, so that a load is one step.

What links `Cmap` to `PSTSS` and `TupleMerge`: they take a `cmap` to be a chain per
hash with new nodes in front and removal in place, and that is `NodeMap`. They use no
other promise of the map.

## 3. Runs

| Run | Instance | What it shows |
|---|---|---|
| `PSTSS` | six rules over three tuples, two copies each, hash collisions in a chain; live priorities distinct | `IndexInv` (the indexes agree), `PruningLosesNothing` (early exit and hashing lose nothing), `LookupIsLinearScan`, `NeverExits`, and `ImplementsClassifier` |
| `PSTSSDup` | the same rules, equal priorities allowed | **violated**: `DeleteKeepsNeighbours` |
| `TupleMerge` | six rules, `collideLimit` 1, single copies, equal priorities | `TablesInv`, `SplitConserves` (a split adds one node and loses and doubles none), `ImplementsClassifier` |
| `TupleMergeCopies` | three rules, two copies | `TablesInv`, `NothingLost` (no lookup misses a rule still inserted), `SplitShortensChain` |
| `SubHybrid` | every tree from every non-empty subset of six rules, then every order of updates | `TreeInv` (shape, queue, leaves hold what was inserted, built rules stay served), `LookupServes`, `KeysTerminate`, `RewardIsCostBelow` (the reward of a node is minus the rules in the TM leaves below it) |
| `SubHybridDropped` | the same | **violated**: `InsertedIsStored` |
| `SubHybridStale` | the same | **violated**: `LookupIsScanOfTree` |
| `Cmap` | six nodes, five hashes, up to four buckets of two slots, two bases | `MapInv` (a hash is in use in one slot, in one of its buckets, hidden by no stale slot; the count is exact and within the load limits), `MovesInv` (the path that makes room visits no bucket twice, and after each store of an insertion a search finds every node), `ImplementsNodeMap`, `CallsReturn` |
| `CmapProtected` | the same | **violated**: `ProtectedIsLikeFind` |
| `CmapReaders` | the same six nodes, three filled maps, two calls of the writer, a search or a cursor; both builds | `NoneDisappears` (at every store every list is whole in one of its buckets), `SearchVisitsAll`, `SearchVisitsOnly` (as written), `CursorVisitsOnce`, `ReadersEnd` |
| `CutTSS` | every construction from a non-empty subset of seven rules, then every order of updates, one copy more than one each | `SubsetsExact` (subsets and greatest priorities follow all updates), `TreeInv`, `BuiltServed` (a constructed rule is reached by every packet it matches), `LookupServes` |
| `HybridTSS` | two objects, one file, two threads, three episodes, two trainings; three choices of options | `ProgressIsHonest`, `MergedIsMean` (every value learnt is counted once, and what is merged is their mean), `OnlyTrainedTables`, `FileIsLastSave`, `ResultIsState`, `CallReturns` |

Bounds, and why they are enough. An address has 2 bits in `PSTSS`, 12 in `TupleMerge`
(where the relaxation of lengths depends on the length) and 4 in `SubHybrid`;
rules are chosen so that chains hold rules of different and of equal priority,
tuples empty and return, splits aim at addresses, ports and protocol and at
existing tables, and trees reach depth two with list, TM and missing
children, key collisions and `bigClassifier`s present and absent. `MaxCopies` of 2
is the least with which a multiset and a set differ. `collideLimit` 1 makes
splits happen with two rules (10 in the code). `binth` 2, `rtssleaf` 1 and
`inflation` 2 put all three kinds of leaf within reach of six rules. `LeastBit`
and `Op` shrink the fields of 32 bits with 12 to 27 bits looked at to fields of
4 with 2 to 4. In `Cmap`, buckets of 2 slots instead of 5, a search of depth 2 instead
of 4 and a least load of 40 instead of 20 percent make candidates full, paths of one
and two hops, insertions and rehashes that fail, and shrinking all happen with six
nodes; one hash is zero, which empty slots carry as well. `MAX_QUEUE` (4) never ends a search of the
instance (with 2, 4 or 100 instead TLC reaches the same states); the proofs are for every value.

In `CmapReaders` the maps
are filled so that the first call of the writer has to move one slot, or two, or a list back to its first bucket, or
fails and rehashes; two calls let a list leave a bucket and come back to it during one
search. In `CutTSS` an address has 5 bits, a cut of two fields makes 2 slots of each and one of a single field 4
(8 and 64 in the code), and `binth` 1 and `rtssleaf` 1 make list leaves, TSS leaves,
missing children and trees of depth two; two rules share a priority. In
`HybridTSS` two threads with three episodes give one thread two, the team may be one
thread short, and a key is learnt by both threads; one file is shared by objects of equal and of other
bits, and the second training overwrites what the first saved.

Fairness. In `Cmap` the writer goes on with a call it has begun,
and `random_uint32` draws every basis again and again, so that a basis which
works is drawn (`Fairness`). Under it `CallsReturn` shows that the load limits leave
every insertion and rehash of the instance some basis that works. In
`CmapReaders` the writer's stores and the reader's loads go on (`WF_vars`): both threads
are scheduled. A search may be held up as long as the writer keeps changing its buckets, so
`ReadersEnd` rests on the bound `MaxCalls`: between calls there is rest. In `HybridTSS` the thread that made a call, and
each thread of the team, goes on while the process lives (`WF_vars` of each), as OpenMP and the operating system
promise; that a client calls is not assumed, nor that nothing crashes. Elsewhere a
call is one step and nothing must happen eventually. That the build loop ends follows from `NodesHang` in `TreeInv`: every level hashes
a field its ancestors have not hashed. `CHECK_DEADLOCK` stays on in every run.

Each property of a passing run has a mutant in `PROJECT.json`: a slip in
one definition (named "a slip" in the modules) that makes TLC find it violated.

## 4. Proofs

`PSTSSProofs` proves, for all rules, packets, hashes, widths, copies and both
values of `DistinctPriorities`:

| Theorem | Statement |
|---|---|
| `TypeCorrect` | `Spec => []TypeOK` |
| `IndexCorrect` | `Spec => []IndexInv` |
| `DeleteNeverExits` | `Spec => []NeverExits` |
| `PruningCorrect` | `Spec => []PruningLosesNothing` |
| `LookupCorrect` | `Spec => []LookupIsLinearScan` |
| `Refinement` | under `DistinctPriorities`, `Spec => ImplementsClassifier` |

Assumptions: the named `ASSUME`s of `Rules` (finitely many rules, priorities
natural) and `PSTSS` (`CopiesAssumption`, `HashAssumption`); TLC evaluates
them on the instance.

The argument. `NeverExits` and the early exit both need the vector, the map and
the multisets to agree. The multiset of a tuple is decremented by the priority
of the rule deleted, while the chain loses a node that merely has that
priority, possibly another rule's. So "the chains hold the live rules" is not an
invariant when priorities repeat. What is inductive is a count: of each
priority a chain holds as many nodes as the client has live copies of rules
with that tuple, hash and priority (`ChainsCountCopies`), and the multiset as
many as of that tuple and priority (`ContainerCountsCopies`). From these a
delete always finds a node, a tuple is empty in one index exactly when it is
in all, and `exit(0)` is out of reach. `ChainsHoldLive` is the stronger fact
that holds while live priorities are distinct; it gives `LookupIsLinearScan` and
the refinement. `PruningLosesNothing` follows from `VectorSorted` and
`MaxPriorityExact`: a tuple not reached has no better rule, and one reached searches
the chain where any rule that matches must be.

`TupleMergeProofs` proves, for all rules, packets, hash functions, collide limits, both outcomes of
`ProtoGrain` and, where nothing else is said, any number of copies:

| Theorem | Statement |
|---|---|
| `TypeCorrect` | `Spec => []TypeOK` |
| `TablesCorrect` | `Spec => []TablesInv` |
| `NothingLostAlways` | `Spec => []NothingLost` |
| `SplitConservesAlways` | `Spec => SplitConserves` |
| `SplitShortensChainAlways` | `Spec => SplitShortensChain` |
| `Refinement` | with `MaxCopies` 1, `Spec => ImplementsClassifier`, equal priorities or not |

Assumptions: `RuleAssumption`, `TupleMergeAssumption`, `PrefixAssumption`.

The argument. `Inv` has four parts. `Fine`: in each table the multiset and the cached greatest priority are
those of its nodes, and its mask hashes no field past the prefix of a rule in it. `Listed`: the tables are listed once
each, by descending greatest priority. `Placed`: a rule that is assigned has a node in the table it is assigned to.
`Counted`: over all tables, a rule has at least as many nodes as live copies. It may have more, since
the first delete of a rule with two copies removes its assignment and the second then does nothing;
with single copies the two numbers are equal, and just the live rules are assigned, which the refinement needs. An insertion is proved as the code makes it: the rule goes
into the first table that takes it, then a split moves the rules of one chain one after the other. The split is a fold, so its
lemma is an induction over the rules moved, which relates the table a rule leaves and the
one it comes to at every step. `NothingLost` is `Fine` with `Listed`: a table the early exit skips has no better rule, and
in one that is looked at the packet's chain is the rule's, because the mask is within the prefix.

`SubHybridProofs` proves, for all rules, fields and widths, bits looked at, thresholds and Q-tables:

| Theorem | Statement |
|---|---|
| `TypeCorrect` | `Spec => []TypeOK` |
| `TreeCorrect` | `Spec => []TreeInv` |
| `KeysTerminateAlways` | with `inflation` or `binth` at least 2 (the code has 10 and 8), `Spec => []KeysTerminate` |
| `RewardIsCostBelowAlways` | `Spec => []RewardIsCostBelow` |
| `LookupServesAlways` | `Spec => []LookupServes` |

Assumptions: `RuleAssumption`, `SubHybridAssumption`, `PrefixAssumption`, `PowersAssumption`.

The argument. A rule has a way down from the root: the children of its keys, or the `bigClassifier` where its
prefix is too short. The way has one end (`OneEnd`), and the node there is the only one to hold the rule (`Holds`); a
rule that no node holds is one whose way ends at a `bigClassifier` the construction did not make (`Stored`). Building a Hash node moves each of its
rules one step further on its way, and every other step of the construction and every update leaves all Hash nodes alone, so that all
ways stay as they are (`Tamed`). `ServedIn` keeps the constructed rules served: the `bigClassifier`s on
their ways exist and their `maxBigPriority` is no lower. `RewardIsCostBelow` needs `Rewarded`: the rules of the TM leaves below a
node are the disjoint union of those below its children. The lookup is a recursive function over paths,
whose values no rule of the prover gives. `AnswersExist` constructs such a function by recursion over the
fields that are not hashed yet, of which each level has one less, and shows that the chosen one satisfies its equation;
then `Right` (an answer is that of a live rule that matches, or none, and no better rule that is served below is
missed) is an induction over the same set (`AnswersRight`). That rule and packet choose the same child is `KeysAgree`, from `PrefixAssumption`.

`CutTSSProofs` proves, for all rules, packets, address widths, cuts, thresholds and copies:

| Theorem | Statement |
|---|---|
| `TypeCorrect` | `Spec => []TypeOK` |
| `SubsetsExactAlways` | `Spec => []SubsetsExact` |
| `TreeCorrect` | `Spec => []TreeInv` |
| `BuiltServedAlways` | `Spec => []BuiltServed` |
| `LookupServesAlways` | `Spec => []LookupServes` |

Assumptions: `RuleAssumption`, `CutTSSAssumption`, `AddressAssumption`, `PowersAssumption`.

The argument. `Inv` has six parts. `Lists` and `Greatest` are `SubsetsExact`: construction and updates find one subset for a rule (`FirstIs`).
`Shaped` says where nodes hang: below one that cuts, whose slots still have points.
So the way of a point ends at a leaf exactly if the point falls into it (`ReachedIs`), at whatever depth the loop
stops. `Holding` says that a leaf has the live rules whose low ends fall into it, as far as it tells
rules from each other: two different rules stand for one another in it only if the deletion may take one for the other, and by
these classes every update changes a leaf by one (`LeafGains`, `LeafLoses`). `Rooted` has a tree wherever a subset has
rules. `BuiltUncut` says of each constructed rule that both its ends fall into the same
child of every node that cuts on its way; then all points between do (`NameBetween`), which is `BuiltServed`.

Updates change only lists, so all but the construction is bookkeeping. The construction deals a node's rules to a
child by whether their ranges meet the slot, while an update looks at the low ends only. That both come to the
same leaf is proved along the levels of the tree (`LevelsAre`): no rule of a node that cuts lies in two slots, for
`CalcCutsn` would not have gone on doubling, so a rule that meets a node falls into it with its low ends (`Node`),
and with both ends into one child (`CutName`). The arithmetic is that of slots inside slots: a quotient by a product is a quotient of a
quotient (`QuotientTwice`). `LookupServes` then follows tree by tree: what a leaf or a list answers is the priority of a rule it holds, or of one
it takes for it (`LeafAnswers`), and a subset passed over by `maxPri` has no rule above the answer so far (`AskedIs`).

`CmapProofs` proves, for all nodes and hashes of theirs, mixing functions and bases, slots per bucket, depths and queues of
the search:

| Theorem | Statement |
|---|---|
| `MapKept` | `Spec => []MapInv` |
| `MovesSafe` | `Spec => []MovesInv` |
| `ImplementsMap` | `Spec => ImplementsNodeMap` |

Assumptions: `CmapAssumption` (the load limits leave room for a hysteresis, `2 * MinLoad < MaxLoad`, and the map of one
bucket is never too empty and never full with one node, `CMAP_K * MinLoad <= 100 <= CMAP_K * MaxLoad`; the code has 5
slots, 20 and 85 percent) and `HashAssumption` (a mixed hash gives two natural numbers).

The argument. `MapInv` is not inductive: it says nothing of the slots that an insertion is about to fill, nor of a map in the middle of a
rehash. `Holds(im, F)` says that the map `im` holds the chains `F`, one per hash: a slot in use is
the `Foremost` with its hash, the one a search comes to first, and has the chain of `F`; and a hash with a chain
has such a slot. Emptied slots may keep hashes, so a store must be shown to hide no slot in use and to come before all stale
ones. A single store of a new chain keeps `Holds` for `F` with that chain (`StoreKeeps`). The stores
of a path together move the content of every slot one place on along it and put the new chain into the first
(`PathPlanMoves`), since no store overwrites a slot that is still to be copied; that needs a path that visits
no bucket twice, and a shortest one does not: else a shorter one could be cut out of it
(`RouteIsSimple`). Each content moved comes to its other bucket, where it is foremost, because the buckets on the way are
full, so that no stale slot is among them (`MoveKeeps`). In the middle of the moves a hash may sit in two slots with the same
chain: the search comes first to the one it was in or to the one it goes to, and finds the chain in either
(`PartMovedFinds`, for every beginning of the stores). It also matters that the search
runs only when both buckets of the hash are full and neither has it. A rehash inserts the chains of the old slots one
after the other, an induction over their places. For the count, masks are 2^k - 1 (`IsMask`) and the number of nodes
fits the size that the call at hand will leave (`Fits(Size, Due)`): one that has
grown, or shrunk by half, is within the limits again. `IInv` joins these. The refinement maps a map to the chains `F`.

`HybridTSSProofs` proves, for all objects, options, paths, rows and columns, threads, episodes and
lessons:

| Theorem | Statement |
|---|---|
| `TypeCorrect` | `Spec => []TypeOK` |
| `OnlyTrainedTablesAlways` | `Spec => []OnlyTrainedTables` |
| `FileIsLastSaveAlways` | `Spec => []FileIsLastSave` |
| `ResultIsStateAlways` | `Spec => []ResultIsState` |
| `ProgressIsHonestAlways` | `Spec => []ProgressIsHonest` |
| `EveryValueCountsAlways` | `Spec => []EveryValueCounts`, the first part of `MergedIsMean` |

They rest on `HybridAssumption` (finitely many rows, numbered from 0; paths of options are paths) and
`TrainingAssumption`.

The argument. `ResultIsState` needs to know what holds while a construction is under way: there is no
tree and no error, and once it saves or builds the table is loaded (`ConstructionInv`). `OnlyTrainedTables` is not
inductive, for tables come back from files: a file must be the beginning of what a trained
table serialises to (`FilesInv`), which a step of a save keeps only if the save writes a trained table and stands
at the right block (`SaveInv`). `ModelInv` joins them with `WholeInv`: a table has every row and column, without
which a file could not give it back. `LoadedIs` is the lemma at the core: from a
beginning of a file one reads nothing or, if it is the whole, the table that was saved. `ProgressIsHonest` follows
from `ProgressInv`: what a thread remembers of the counter, the counter has by now at least.

That the counter stays within the episodes (part of `TypeOK`) is not inductive either: threads count one by one, each up to its
own last episode. `CounterInv` says that the counter is the number of episodes begun, those below the loop
variable of their thread and the one it is in; two episodes of a thread are `NumThreads` apart (`Remainder`), so
that each is begun once. In the merge no divisor is zero, because an entry is there only for a key its
thread has met (`Knowledge`). `EveryValueCounts` rests on `CountInv`: a thread has counted as many values of a key as
the episodes below its loop variable have for it (`LearntFromIs`, an induction over the lessons of an
episode), and the merged count is that of the threads whose entry is merged. A thread that was not in the team has its first
episode still before it, one that left the region has none: together these are the `EpisodesRun`.

Shared lemmas. A fold of the community modules (`FoldLeft`, `MapThenFoldSet`, sums) is a chosen function with a
recursive equation. `RecursionExists` shows once that there is one for any step over the subsets of a finite set, and
`SubsetInduct` proves what it computes: both take sets, no operators.

Only model-checked:

- liveness: `CallReturns`, `CallsReturn`, `ReadersEnd`. The prover has no rules for fairness.
- the mean in `MergedIsMean`: it holds where all divisions are exact, as in the instance, and not for all constants.
- `CmapReaders` with all its properties: what `CmapProofs` says of whole plans would have to be said again of
  the stores a plan is taken apart into, with lists of links instead of chains; this was not attempted.

## 5. Findings

1. `Tuple::Deletion` deletes by priority (`OVS/TupleSpaceSearch.cpp:25`): with
   two rules of equal priority in one chain the neighbour is deleted (`PSTSSDup`).
   Rules numbered by `loadrule` have distinct priorities, and the theorems hold for them.
2. `SubHybridTSS::InsertRule` drops a rule that belongs in a `bigClassifier` the
   build did not make (`HybridTSS/SubHybridTSS.cpp:249`, run `SubHybridDropped`).
3. It does not raise `maxBigPriority`, so a rule inserted above it is stored and
   not found (`HybridTSS/SubHybridTSS.cpp:177`, run `SubHybridStale`).

4. `cmap_find_protected` computes the second bucket from the client's hash
   instead of the mixed one (`OVS/cmap.cpp:632`) and misses nodes there, unlike
   `cmap_find` (run `CmapProtected`). Nothing in the repository calls it.

Rules of the set the tree was built from are unaffected by 2 and 3: they stay
served whatever is deleted and inserted again, which is what the driver does.

Observations that no run of its own shows:

- At `-O3` the counters of the buckets are compiled away, and a search that races the
  writer may visit a node of another hash: without the condition `~optimised` TLC
  finds `SearchVisitsOnly` violated in `CmapReaders`. What a search has to find it still finds on the instance's
  moves (`NoneDisappears`), unless the list moves between its two looks.
- A reader of buckets that a rehash frees is undefined, against `cmap.h:41-43`
  (`cmap.cpp:1028`). The repository has one thread and is not affected by either.
- `CutTSS::trieInsert` stores a rule in the one leaf its low ends lead to, or in none where a
  child is missing (`CutTSS.cpp:597`); it stays in `subset`. A rule that spans slots is then found by some of its packets
  only. `LookupServes` says exactly which; constructed rules are not affected (`BuiltServed`).
- `ValidateQTableBits` accepts bits that are too few for the states and actions a tree encodes
  (`HybridTSS.cpp:489`); the models take bits that suffice.
- A save that fails after an online training leaves `qtable_loaded_` set, with no tree; `IsReady` is
  FALSE all the same, for it asks for both (`ResultIsState`). A baseline built after a table was loaded
  calls itself ready.

## 6. Not modelled, and plan

Every classifier is modelled, and so are construction, training and files. What is left out:
option parsing and output (`main.cpp`, `cli.cpp`), text parsing of rule and
trace files, generators and scripts, the mixing inside the hashes (`OVS/hash.h`: any
function of its arguments, as the models take it), memory figures and statistics,
debugging traversals, `cmap_next_position`, `cmap_largest_chain`, and the class
`TupleSpaceSearch` itself, which nothing constructs. PSTSS leaves of `SubHybrid` are left
out because `getAction` makes none.

What is left to prove is `CmapReaders`: `NoneDisappears`, for which `MovesSafe` has the step along a path when a store sets
hash and chain at once, while a reader may see the two apart; and what follows from it for
searches and cursors.
