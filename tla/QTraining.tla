----------------------------- MODULE QTraining -----------------------------
(***************************************************************************)
(* The training of a Q-table (HybridTSS::train): the episodes are dealt    *)
(* out to the threads of an OpenMP team, each thread learns in a table of  *)
(* its own, and after the join the tables are merged.                      *)
(*                                                                         *)
(* What an episode learns, the Hash nodes of a tree built by the actions   *)
(* of its thread's random generator, is an input here.  It does depend on  *)
(* nothing another thread does: the generator and the tree are the         *)
(* thread's, and QTable is written only after the join.  Module SubHybrid  *)
(* shows what the rewards of such a tree are.                              *)
(*                                                                         *)
(* Values are integers where the code has doubles; the instances keep all  *)
(* divisions exact.                                                        *)
(***************************************************************************)
EXTENDS Integers, Sequences, FiniteSetsExt, SequencesExt

CONSTANTS
  State, Action,   (* The rows and the columns of the table.               *)
  NumThreads,      (* omp_get_max_threads().                               *)
  loopNum,         (* The episodes of a training.                          *)
  progressStep,    (* How often progress is announced, in per cent.        *)
  lr, decay,       (* The learning rate and its decay.                     *)
  Lessons          (* What trainings may learn: functions from an episode  *)
                   (* to a sequence of <<key, value>>.                     *)

Thread  == 0 .. NumThreads - 1
Episode == 0 .. loopNum - 1
Key     == State \X Action

ASSUME TrainingAssumption ==
  /\ NumThreads \in Nat \ {0} /\ loopNum \in Nat \ {0} /\ progressStep \in Nat \ {0}
  /\ lr \in Nat /\ decay \in Nat
  /\ \A f \in Lessons : f \in [Episode -> Seq(Key \X Int)]

VARIABLES
  phase,            \* "idle", "team" (the parallel region), "merge" or "trained"
  lessons,          \* what the episodes of this training learn
  team,             \* the threads that the region was given
  pc,               \* where each thread is
  i, done,          \* its local variables: the next episode, its progress
  Qlocal,           \* its table: the values of the keys it has met
  countLocal,       \* how often it has met them
  progressCounter,  \* the episodes begun
  nextPrint,        \* the per cent to be announced next
  announced,        \* the per cent announced last
  unmerged,         \* the entries <<thread, key>> that are still to be merged
  QTable, QCount    \* the merged table

trainVars == <<phase, lessons, team, pc, i, done, Qlocal, countLocal, progressCounter,
               nextPrint, announced, unmerged, QTable, QCount>>

Zero == [k \in Key |-> 0]

-----------------------------------------------------------------------------
TrainInit ==
  /\ phase = "idle"
  /\ lessons = << >> /\ team = {} /\ unmerged = {}
  /\ pc = [t \in Thread |-> "out"]
  /\ i = [t \in Thread |-> t]
  /\ done = [t \in Thread |-> 0]
  /\ Qlocal = [t \in Thread |-> << >>]
  /\ countLocal = [t \in Thread |-> Zero]
  /\ progressCounter = 0 /\ nextPrint = progressStep /\ announced = 0
  /\ QTable = Zero /\ QCount = Zero

\* The variables of a training go with it; the next one has its own.
ResetTraining ==
  /\ phase' = "idle"
  /\ lessons' = << >> /\ team' = {} /\ unmerged' = {}
  /\ pc' = [t \in Thread |-> "out"]
  /\ i' = [t \in Thread |-> t]
  /\ done' = [t \in Thread |-> 0]
  /\ Qlocal' = [t \in Thread |-> << >>]
  /\ countLocal' = [t \in Thread |-> Zero]
  /\ progressCounter' = 0 /\ nextPrint' = progressStep /\ announced' = 0
  /\ QTable' = Zero /\ QCount' = Zero

\* The region is entered by all threads asked for, or by fewer: OpenMP may give
\* a smaller team than omp_get_max_threads() told.
EnterRegion ==
  /\ phase = "idle"
  /\ phase' = "team"
  /\ lessons' \in Lessons
  /\ \E n \in 1 .. NumThreads :
       /\ team' = 0 .. n - 1
       /\ pc' = [t \in Thread |-> IF t < n THEN "begin" ELSE "out"]
  /\ UNCHANGED <<i, done, Qlocal, countLocal, progressCounter, nextPrint, announced,
                 unmerged, QTable, QCount>>

\* ++progressCounter, atomically.
BeginEpisode(t) ==
  /\ pc[t] = "begin" /\ i[t] < loopNum
  /\ progressCounter' = progressCounter + 1
  /\ done' = [done EXCEPT ![t] = progressCounter + 1]
  /\ pc' = [pc EXCEPT ![t] = "check"]
  /\ UNCHANGED <<phase, lessons, team, i, Qlocal, countLocal, nextPrint, announced,
                 unmerged, QTable, QCount>>

Due(t) == (done[t] * 100) \div loopNum >= nextPrint

\* The check before the critical section...
CheckProgress(t) ==
  /\ pc[t] = "check"
  /\ pc' = [pc EXCEPT ![t] = IF Due(t) THEN "critical" ELSE "episode"]
  /\ UNCHANGED <<phase, lessons, team, i, done, Qlocal, countLocal, progressCounter,
                 nextPrint, announced, unmerged, QTable, QCount>>

\* A slip: what was due before the critical section is announced in it.
AnnounceUnchecked(t) == TRUE

\* ...and the one in it.
AnnounceIf(t) == Due(t)

\* The critical section: one thread at a time, and nobody else writes nextPrint.
Announce(t) ==
  /\ pc[t] = "critical"
  /\ IF AnnounceIf(t)
       THEN announced' = nextPrint /\ nextPrint' = nextPrint + progressStep
       ELSE UNCHANGED <<announced, nextPrint>>
  /\ pc' = [pc EXCEPT ![t] = "episode"]
  /\ UNCHANGED <<phase, lessons, team, i, done, Qlocal, countLocal, progressCounter,
                 unmerged, QTable, QCount>>

\* One update of a thread's table: the first value is taken as it is, a later
\* one moves the value by the decaying learning rate.
Learnt(know, key, val) ==
  [q |-> IF key \in DOMAIN know.q
           THEN [know.q EXCEPT ![key] = @ + (lr * (val - @)) \div (1 + decay * know.count[key])]
           ELSE [k \in DOMAIN know.q \cup {key} |-> IF k = key THEN val ELSE know.q[k]],
   count |-> [know.count EXCEPT ![key] = @ + 1]]

\* A slip: every thread runs all episodes from its first on.
NextOfByOne(t) == i[t] + 1

NextOf(t) == i[t] + NumThreads

\* An episode, and on to the next of the thread's stripe.
RunEpisode(t) ==
  LET know == FoldLeft(LAMBDA k, lesson : Learnt(k, lesson[1], lesson[2]),
                       [q |-> Qlocal[t], count |-> countLocal[t]], lessons[i[t]])
  IN
  /\ pc[t] = "episode"
  /\ Qlocal' = [Qlocal EXCEPT ![t] = know.q]
  /\ countLocal' = [countLocal EXCEPT ![t] = know.count]
  /\ i' = [i EXCEPT ![t] = NextOf(t)]
  /\ pc' = [pc EXCEPT ![t] = "begin"]
  /\ UNCHANGED <<phase, lessons, team, done, progressCounter, nextPrint, announced,
                 unmerged, QTable, QCount>>

\* A slip: one past the end is still waited for.
LeaveRegionLate(t) ==
  /\ pc[t] = "begin" /\ i[t] > loopNum
  /\ pc' = [pc EXCEPT ![t] = "out"]
  /\ UNCHANGED <<phase, lessons, team, i, done, Qlocal, countLocal, progressCounter,
                 nextPrint, announced, unmerged, QTable, QCount>>

LeaveRegion(t) ==
  /\ pc[t] = "begin" /\ i[t] >= loopNum
  /\ pc' = [pc EXCEPT ![t] = "out"]
  /\ UNCHANGED <<phase, lessons, team, i, done, Qlocal, countLocal, progressCounter,
                 nextPrint, announced, unmerged, QTable, QCount>>

\* The region ends for all at once.
Join ==
  /\ phase = "team" /\ \A t \in team : pc[t] = "out"
  /\ phase' = "merge"
  /\ unmerged' = {e \in Thread \X Key : e[2] \in DOMAIN Qlocal[e[1]]}
  /\ UNCHANGED <<lessons, team, pc, i, done, Qlocal, countLocal, progressCounter,
                 nextPrint, announced, QTable, QCount>>

\* A slip: every thread's value weighs the same.
WeightPlain(t, k) == 1

\* An entry weighs as much as the updates it is made of.
Weight(t, k) == countLocal[t][k]

\* Thread by thread; the entries of a thread in the order its hash map has.
MergeEntry(t, k) ==
  /\ phase = "merge" /\ <<t, k>> \in unmerged /\ \A e \in unmerged : t <= e[1]
  /\ QTable' = [QTable EXCEPT ![k] =
       (@ * QCount[k] + Qlocal[t][k] * Weight(t, k)) \div (QCount[k] + Weight(t, k))]
  /\ QCount' = [QCount EXCEPT ![k] = @ + Weight(t, k)]
  /\ unmerged' = unmerged \ {<<t, k>>}
  /\ UNCHANGED <<phase, lessons, team, pc, i, done, Qlocal, countLocal, progressCounter,
                 nextPrint, announced>>

EndMerge ==
  /\ phase = "merge" /\ unmerged = {}
  /\ phase' = "trained"
  /\ UNCHANGED <<lessons, team, pc, i, done, Qlocal, countLocal, progressCounter,
                 nextPrint, announced, unmerged, QTable, QCount>>

ThreadStep(t) ==
  BeginEpisode(t) \/ CheckProgress(t) \/ Announce(t) \/ RunEpisode(t) \/ LeaveRegion(t)

MergeStep == Join \/ (\E t \in Thread, k \in Key : MergeEntry(t, k)) \/ EndMerge

-----------------------------------------------------------------------------
\* Each variable has its type.
TrainTypeOK ==
  /\ phase \in {"idle", "team", "merge", "trained"}
  /\ phase # "idle" => lessons \in Lessons
  /\ team \subseteq Thread /\ unmerged \subseteq Thread \X Key
  /\ pc \in [Thread -> {"begin", "check", "critical", "episode", "out"}]
  /\ i \in [Thread -> Nat] /\ done \in [Thread -> 0 .. loopNum]
  /\ \A t \in Thread : DOMAIN Qlocal[t] \subseteq Key /\ Range(Qlocal[t]) \subseteq Int
  /\ countLocal \in [Thread -> [Key -> Nat]]
  /\ progressCounter \in 0 .. loopNum /\ nextPrint \in Nat /\ announced \in Nat
  /\ QTable \in [Key -> Int] /\ QCount \in [Key -> Nat]

\* No more progress is announced than there is, however the threads race from
\* the check before the critical section to the one in it.
ProgressIsHonest == announced * loopNum <= progressCounter * 100

\* The episodes of the threads that were in the team, and what they learnt of k.
EpisodesRun == {e \in Episode : e % NumThreads \in team}

ValuesOf(k) ==
  {v \in UNION {{e} \X DOMAIN lessons[e] : e \in EpisodesRun} : lessons[v[1]][v[2]][1] = k}

\* Each value learnt for a key is counted once, whatever the threads, the team
\* and the order of the merge.
EveryValueCounts == phase = "trained" => \A k \in Key : QCount[k] = Cardinality(ValuesOf(k))

\* With lr = decay = 1, the merged value of a key is the mean of all values
\* learnt for it, each counted once; that makes the trained table that of the
\* seed.
MergedIsMean ==
  /\ EveryValueCounts
  /\ phase = "trained" /\ lr = 1 /\ decay = 1 =>
       \A k \in Key : QTable[k] * QCount[k] =
         MapThenSumSet(LAMBDA v : lessons[v[1]][v[2]][2], ValuesOf(k))

=============================================================================
