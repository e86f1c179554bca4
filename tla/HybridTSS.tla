----------------------------- MODULE HybridTSS -----------------------------
(***************************************************************************)
(* HybridTSS objects and the Q-table files they share (HybridTSS.cpp and   *)
(* docs/htq1-model-contract.md): construction by training or by loading,   *)
(* saving, the baseline, and the end of the process at any moment.         *)
(*                                                                         *)
(* A file is the sequence of its blocks: the header, then a row each.  A   *)
(* block that is written in part counts as missing, as the loader has it.  *)
(* All tables have as many rows here; the bits in a header tell them       *)
(* apart.  Training is that of module QTraining, and the tree a table      *)
(* makes is that of module SubHybrid, whose operations are not repeated.   *)
(***************************************************************************)
EXTENDS QTraining

CONSTANTS
  Object,          (* The objects of the process...                        *)
  Options,         (* ...and what HybridOptions they may be made with:     *)
                   (* bits, train_online, in and out (qtable_in_path,      *)
                   (* qtable_out_path).                                    *)
  ValidBits,       (* The state and action bits that are accepted.         *)
  Path, NoPath,    (* The files there may be; an empty path.               *)
  NoFile,          (* What a path without a file holds.                    *)
  NoTable,         (* An empty QTable.                                     *)
  MaxTrainings     (* Bound: trainings.                                    *)

(***************************************************************************)
(* A state of the tree encodes 20 bits and an action 6: the rows and       *)
(* columns it selects exist only in tables of at least as many bits, which *)
(* ValidateQTableBits does not ask for.  ValidBits holds bits that suffice.*)
(***************************************************************************)
ASSUME HybridAssumption ==
  /\ IsFiniteSet(State) /\ State = 0 .. Cardinality(State) - 1
  /\ \A opts \in Options, o \in Object :
       /\ opts[o].train_online \in BOOLEAN
       /\ {opts[o].in, opts[o].out} \subseteq Path \cup {NoPath}
  /\ MaxTrainings \in Nat

VARIABLES
  options,         \* the options of each object
  root,            \* of each object: NoTree, Baseline, or BuiltBy(a table)
  table,           \* its QTable: its bits and values, or NoTable
  qtable_loaded_,
  last_error_,     \* whether the string is not empty
  call,            \* the call under way, or what a construction returned
  file,            \* the blocks at each path
  trained,         \* history: the tables that trainings ended with
  saving,          \* history: the table of the last save begun at each path
  trainings        \* history: how many there were

objectVars  == <<options, root, table, qtable_loaded_, last_error_>>
historyVars == <<trained, saving, trainings>>
vars == <<trainVars, objectVars, call, file, historyVars>>

\* A root that is null, or built without a table, or by one.
NoTree     == [by |-> "nothing"]
Baseline   == [by |-> "baseline"]
BuiltBy(t) == [by |-> "table", table |-> t]

IsReady(o) == root[o] # NoTree /\ qtable_loaded_[o]

NoCall == [at |-> "none"]

Constructed(o, ok) == [at |-> "constructed", obj |-> o, ok |-> ok]

Idle == call.at \in {"none", "constructed"}

-----------------------------------------------------------------------------
(***************************************************************************)
(* Files.                                                                  *)
(***************************************************************************)

Serialized(t) ==
  <<<<t.bits>>>> \o [n \in 1 .. Cardinality(State) |-> [a \in Action |-> t.q[<<n - 1, a>>]]]

\* A slip: rows that cannot be read stay zero.
LoadedAnyway(content, bits) ==
  IF content = NoFile \/ content = << >> THEN NoTable
  ELSE IF content[1] # <<bits>> THEN NoTable
  ELSE [bits |-> bits, q |-> [k \in Key |-> IF k[1] + 2 \in DOMAIN content
                                              THEN content[k[1] + 2][k[2]] ELSE 0]]

\* The table that LoadQTable reads for these bits, NoTable if it refuses:
\* there is no file, or no header, or that of other bits, or a row is missing.
Loaded(content, bits) ==
  IF \/ content = NoFile
     \/ Len(content) < 1 + Cardinality(State)
     \/ content[1] # <<bits>>
    THEN NoTable
    ELSE [bits |-> bits, q |-> [k \in Key |-> content[k[1] + 2][k[2]]]]

\* A slip: an old file is overwritten without being truncated first.
OpenedAsIs(content) == IF content = NoFile THEN << >> ELSE content

Opened(content) == << >>

Written(content, n, block) ==
  SubSeq(content, 1, n - 1) \o <<block>> \o SubSeq(content, n + 1, Len(content))

-----------------------------------------------------------------------------
(***************************************************************************)
(* ConstructClassifierSafe: reset, prepareQTable, build.                   *)
(***************************************************************************)

Init ==
  /\ TrainInit
  /\ options \in Options
  /\ root = [o \in Object |-> NoTree]
  /\ table = [o \in Object |-> NoTable]
  /\ qtable_loaded_ = [o \in Object |-> FALSE]
  /\ last_error_ = [o \in Object |-> FALSE]
  /\ call = NoCall
  /\ file = [p \in Path |-> NoFile]
  /\ trained = {} /\ saving = [p \in Path |-> NoTable]
  /\ trainings = 0

\* A slip: the old tree is kept for the case of a failure.
KeptRoot(o) == root

DeletedRoot(o) == [root EXCEPT ![o] = NoTree]

\* The old tree is gone before anything else is tried.
ConstructClassifierSafe(o) ==
  /\ Idle
  /\ options[o].train_online => trainings < MaxTrainings
  /\ root' = DeletedRoot(o)
  /\ qtable_loaded_' = [qtable_loaded_ EXCEPT ![o] = FALSE]
  /\ last_error_' = [last_error_ EXCEPT ![o] = FALSE]
  /\ call' = [at |-> "prepare", obj |-> o]
  /\ UNCHANGED <<trainVars, options, table, file, historyVars>>

\* The bits are not accepted, or there is nothing to load from.
RefuseOptions ==
  LET o == call.obj IN
  /\ call.at = "prepare"
  /\ \/ options[o].bits \notin ValidBits
     \/ ~options[o].train_online /\ options[o].in = NoPath
  /\ last_error_' = [last_error_ EXCEPT ![o] = TRUE]
  /\ call' = Constructed(o, FALSE)
  /\ UNCHANGED <<trainVars, options, root, table, qtable_loaded_, file, historyVars>>

\* train(): the training of QTraining, from an empty table.
StartTraining ==
  /\ call.at = "prepare"
  /\ options[call.obj].bits \in ValidBits /\ options[call.obj].train_online
  /\ trainings' = trainings + 1
  /\ call' = [at |-> "train", obj |-> call.obj]
  /\ EnterRegion
  /\ UNCHANGED <<objectVars, file, trained, saving>>

Training ==
  /\ call.at = "train"
  /\ (\E t \in Thread : ThreadStep(t)) \/ MergeStep
  /\ UNCHANGED <<objectVars, call, file, historyVars>>

\* The training is over: the merged table is the object's own, the local
\* variables are gone.
EndTraining ==
  LET o == call.obj
      t == [bits |-> options[o].bits, q |-> QTable]
  IN
  /\ call.at = "train" /\ phase = "trained"
  /\ table' = [table EXCEPT ![o] = t]
  /\ trained' = trained \cup {t}
  /\ qtable_loaded_' = [qtable_loaded_ EXCEPT ![o] = TRUE]
  /\ call' = IF options[o].out = NoPath
               THEN [at |-> "build", obj |-> o]
               ELSE [at |-> "open", obj |-> o, path |-> options[o].out, construct |-> TRUE]
  /\ ResetTraining
  /\ UNCHANGED <<options, root, last_error_, file, saving, trainings>>

\* buildTreeFromQTable.
BuildTree ==
  LET o == call.obj IN
  /\ call.at = "build"
  /\ root' = [root EXCEPT ![o] = BuiltBy(table[o])]
  /\ call' = Constructed(o, TRUE)
  /\ UNCHANGED <<trainVars, options, table, qtable_loaded_, last_error_, file, historyVars>>

\* No table is touched; an old tree is leaked, and qtable_loaded_ stays.
ConstructBaseline(o) ==
  /\ Idle
  /\ root' = [root EXCEPT ![o] = Baseline]
  /\ call' = NoCall
  /\ UNCHANGED <<trainVars, options, table, qtable_loaded_, last_error_, file, historyVars>>

-----------------------------------------------------------------------------
(***************************************************************************)
(* LoadQTable, by a client or by prepareQTable.  QTable is swapped with a  *)
(* table that has been read as a whole, so that one step stands for all.   *)
(***************************************************************************)

Load(o, path, accepted, refused) ==
  LET t == IF options[o].bits \in ValidBits THEN Loaded(file[path], options[o].bits)
                                            ELSE NoTable
  IN
  /\ \/ /\ t # NoTable
        /\ table' = [table EXCEPT ![o] = t]
        /\ qtable_loaded_' = [qtable_loaded_ EXCEPT ![o] = TRUE]
        /\ last_error_' = [last_error_ EXCEPT ![o] = FALSE]
        /\ call' = accepted
     \/ /\ t = NoTable
        /\ last_error_' = [last_error_ EXCEPT ![o] = TRUE]
        /\ call' = refused
        /\ UNCHANGED <<table, qtable_loaded_>>
  /\ UNCHANGED <<trainVars, options, root, file, historyVars>>

LoadQTable(o, path) ==
  /\ Idle
  /\ Load(o, path, NoCall, NoCall)

PrepareByLoading ==
  LET o == call.obj IN
  /\ call.at = "prepare"
  /\ options[o].bits \in ValidBits /\ ~options[o].train_online /\ options[o].in # NoPath
  /\ Load(o, options[o].in, [at |-> "build", obj |-> o],
          Constructed(o, FALSE))

-----------------------------------------------------------------------------
(***************************************************************************)
(* SaveQTable, by a client or at the end of prepareQTable.                 *)
(***************************************************************************)

SaveQTable(o, path) ==
  /\ Idle
  /\ \/ /\ table[o] = NoTable
        /\ call' = NoCall
     \/ /\ table[o] # NoTable
        /\ call' = [at |-> "open", obj |-> o, path |-> path, construct |-> FALSE]
  /\ UNCHANGED <<trainVars, objectVars, file, historyVars>>

\* A save ends; the error of one that fails reaches last_error_ only by way of
\* prepareQTable, which leaves qtable_loaded_ set.
EndSave(ok) ==
  LET o == call.obj IN
  /\ \/ /\ call.construct /\ ok
        /\ call' = [at |-> "build", obj |-> o]
        /\ UNCHANGED last_error_
     \/ /\ call.construct /\ ~ok
        /\ call' = Constructed(o, FALSE)
        /\ last_error_' = [last_error_ EXCEPT ![o] = TRUE]
     \/ /\ ~call.construct
        /\ call' = NoCall
        /\ UNCHANGED last_error_
  /\ UNCHANGED <<trainVars, options, root, table, qtable_loaded_, trained, trainings>>

\* The file is opened and truncated...
OpenFile ==
  /\ call.at = "open"
  /\ file' = [file EXCEPT ![call.path] = Opened(@)]
  /\ saving' = [saving EXCEPT ![call.path] = table[call.obj]]
  /\ call' = [at |-> "write", obj |-> call.obj, path |-> call.path,
              construct |-> call.construct, n |-> 1]
  /\ UNCHANGED <<trainVars, objectVars, trained, trainings>>

\* ...or cannot be opened.
OpenFails ==
  /\ call.at = "open"
  /\ EndSave(FALSE)
  /\ UNCHANGED <<file, saving>>

Blocks == Serialized(table[call.obj])

WriteBlock ==
  /\ call.at = "write" /\ call.n <= Len(Blocks)
  /\ file' = [file EXCEPT ![call.path] = Written(@, call.n, Blocks[call.n])]
  /\ call' = [call EXCEPT !.n = @ + 1]
  /\ UNCHANGED <<trainVars, objectVars, historyVars>>

\* The medium is full; out.good() tells.
WriteFails ==
  /\ call.at = "write" /\ call.n <= Len(Blocks)
  /\ EndSave(FALSE)
  /\ UNCHANGED <<file, saving>>

\* The stream is destroyed after out.good() was asked: what its buffer still
\* holds, here the last row, is written then, or lost without a word.
CloseFile ==
  /\ call.at = "write"
  /\ \/ /\ call.n = Len(Blocks) + 1
        /\ EndSave(TRUE)
     \/ /\ call.n = Len(Blocks)
        /\ EndSave(TRUE)
  /\ UNCHANGED <<file, saving>>

-----------------------------------------------------------------------------
\* The process ends at any moment, and starts anew with the files it left.
Crash ==
  /\ ResetTraining
  /\ root' = [o \in Object |-> NoTree]
  /\ table' = [o \in Object |-> NoTable]
  /\ qtable_loaded_' = [o \in Object |-> FALSE]
  /\ last_error_' = [o \in Object |-> FALSE]
  /\ call' = NoCall
  /\ UNCHANGED <<options, file, trained, saving, trainings>>

Call ==
  \E o \in Object :
    \/ ConstructClassifierSafe(o)
    \/ ConstructBaseline(o)
    \/ \E path \in Path : LoadQTable(o, path) \/ SaveQTable(o, path)

CallStep ==
  \/ RefuseOptions \/ StartTraining \/ EndTraining \/ PrepareByLoading \/ BuildTree
  \/ OpenFile \/ OpenFails \/ WriteBlock \/ WriteFails \/ CloseFile

Next == Call \/ CallStep \/ Training \/ Crash

(***************************************************************************)
(* A call runs on, and so does every thread of the team, as long as the    *)
(* process lives; what a client calls is up to the client.                 *)
(***************************************************************************)
Fairness ==
  /\ WF_vars(CallStep)
  /\ WF_vars(call.at = "train" /\ MergeStep /\ UNCHANGED <<objectVars, call, file, historyVars>>)
  /\ \A t \in Thread :
       WF_vars(call.at = "train" /\ ThreadStep(t)
                 /\ UNCHANGED <<objectVars, call, file, historyVars>>)

Spec == Init /\ [][Next]_vars /\ Fairness

-----------------------------------------------------------------------------
IsTable(t) == t.bits \in {options[o].bits : o \in Object} /\ t.q \in [Key -> Int]

Calls ==
  {NoCall} \cup [at : {"constructed"}, obj : Object, ok : BOOLEAN]
    \cup [at : {"prepare", "train", "build"}, obj : Object]
    \cup [at : {"open"}, obj : Object, path : Path, construct : BOOLEAN]
    \cup [at : {"write"}, obj : Object, path : Path, construct : BOOLEAN, n : Nat]

\* Each variable has its type.
TypeOK ==
  /\ TrainTypeOK
  /\ \A o \in Object : /\ root[o] \in {NoTree, Baseline} \/ IsTable(root[o].table)
                       /\ table[o] = NoTable \/ IsTable(table[o])
  /\ qtable_loaded_ \in [Object -> BOOLEAN] /\ last_error_ \in [Object -> BOOLEAN]
  /\ options \in Options
  /\ call \in Calls
  /\ DOMAIN file = Path
  /\ \A t \in trained : IsTable(t)
  /\ trainings \in 0 .. MaxTrainings

\* A tree is built by, and an object that says it is ready has, a table that
\* some training of the same bits ended with: no crash in a save, no full disk
\* and no file of other bits ever gets a torn or foreign table into use.
OnlyTrainedTables ==
  \A o \in Object :
    /\ qtable_loaded_[o] => table[o] \in trained /\ table[o].bits = options[o].bits
    /\ root[o] \notin {NoTree, Baseline} =>
         /\ root[o].table \in trained /\ root[o].table.bits = options[o].bits
         /\ IsReady(o)

\* A file is what the last save there has written of its table, and nothing of
\* an older one: it is loaded as that table or refused.
FileIsLastSave ==
  \A p \in Path : file[p] # NoFile =>
    /\ IsPrefix(file[p], Serialized(saving[p]))
    /\ Loaded(file[p], saving[p].bits) \in {NoTable, saving[p]}

\* What a construction returns is what the object then is: ready and without an
\* error, or without a tree and with one.
ResultIsState ==
  call.at = "constructed" =>
    IF call.ok THEN IsReady(call.obj) /\ ~last_error_[call.obj]
               ELSE root[call.obj] = NoTree /\ last_error_[call.obj]

\* A call comes back, or ends with the process: no thread of a team waits for
\* another forever, and no failure leaves a call without a way out.
CallReturns == []<>Idle

=============================================================================
