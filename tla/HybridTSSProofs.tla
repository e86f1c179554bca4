-------------------------- MODULE HybridTSSProofs --------------------------
(***************************************************************************)
(* Proofs about HybridTSS objects, their Q-table files and training, for   *)
(* any number of objects, files, threads and episodes, any options, rows   *)
(* and columns, and whatever episodes learn.                               *)
(***************************************************************************)
EXTENDS HybridTSS, FoldLemmas, SequenceTheorems

-----------------------------------------------------------------------------
(***************************************************************************)
(* What a construction returns.                                            *)
(***************************************************************************)

\* The fields a call has, by where it is.
CallFields ==
  /\ call.at # "none" => call.obj \in Object
  /\ call.at \in {"open", "write"} => call.path \in Path /\ call.construct \in BOOLEAN
  /\ call.at = "write" =>
       /\ call.n \in Nat
       /\ call = [at |-> "write", obj |-> call.obj, path |-> call.path,
                  construct |-> call.construct, n |-> call.n]

\* A construction that has not ended, and one whose table is there: a save is
\* part of a construction or a call of its own.
Constructing ==
  \/ call.at \in {"prepare", "train", "build"}
  \/ call.at \in {"open", "write"} /\ call.construct

HasTable == Constructing /\ call.at \notin {"prepare", "train"}

\* While a construction goes on there is no tree and no error, and one that is
\* past prepareQTable, or saves, has its table.
ConstructionInv ==
  /\ options \in Options /\ DOMAIN root = Object
  /\ qtable_loaded_ \in [Object -> BOOLEAN] /\ last_error_ \in [Object -> BOOLEAN]
  /\ CallFields
  /\ ResultIsState
  /\ Constructing => root[call.obj] = NoTree /\ ~last_error_[call.obj]
  /\ HasTable => qtable_loaded_[call.obj]

LEMMA ConstructionInvInit == Init => ConstructionInv
  BY DEF Init, ConstructionInv, ResultIsState, NoCall, CallFields, Constructing, HasTable

LEMMA ConstructionInvNext == ConstructionInv /\ [Next]_vars => ConstructionInv'
<1> SUFFICES ASSUME ConstructionInv, [Next]_vars PROVE ConstructionInv'
  OBVIOUS
<1> USE DEF ConstructionInv, ResultIsState, IsReady, CallFields, Constructing, HasTable
<1>1. ASSUME NEW o \in Object, ConstructClassifierSafe(o) PROVE ConstructionInv'
  BY <1>1 DEF ConstructClassifierSafe, DeletedRoot, Constructed
<1>2. ASSUME NEW o \in Object, ConstructBaseline(o) PROVE ConstructionInv'
  BY <1>2 DEF ConstructBaseline, NoCall
<1>3. ASSUME NEW o \in Object, NEW path \in Path, LoadQTable(o, path) PROVE ConstructionInv'
  <2>1. call' = NoCall /\ root' = root /\ options' = options
    BY <1>3 DEF LoadQTable, Load
  <2>2. qtable_loaded_' \in [Object -> BOOLEAN] /\ last_error_' \in [Object -> BOOLEAN]
    BY <1>3 DEF LoadQTable, Load
  <2> QED BY <2>1, <2>2 DEF NoCall
<1>4. ASSUME NEW o \in Object, NEW path \in Path, SaveQTable(o, path) PROVE ConstructionInv'
  <2>1. UNCHANGED <<root, qtable_loaded_, last_error_, options>>
    BY <1>4 DEF SaveQTable, objectVars
  <2>2. CASE call' = NoCall
    BY <2>1, <2>2 DEF NoCall
  <2>3. CASE call' = [at |-> "open", obj |-> o, path |-> path, construct |-> FALSE]
    BY <2>1, <2>3
  <2> QED BY <1>4, <2>2, <2>3 DEF SaveQTable
<1>5. CASE RefuseOptions
  BY <1>5 DEF RefuseOptions, Constructed
<1>6. CASE StartTraining
  BY <1>6 DEF StartTraining, objectVars, Constructed
<1>7. CASE EndTraining
  <2>1. UNCHANGED <<root, last_error_, options>>
    BY <1>7 DEF EndTraining
  <2>2. qtable_loaded_' = [qtable_loaded_ EXCEPT ![call.obj] = TRUE] /\ call.at = "train"
    BY <1>7 DEF EndTraining
  <2>3. CASE call' = [at |-> "build", obj |-> call.obj]
    BY <2>1, <2>2, <2>3
  <2>4. CASE /\ options[call.obj].out # NoPath
             /\ call' = [at |-> "open", obj |-> call.obj, path |-> options[call.obj].out,
                         construct |-> TRUE]
    <3>1. options[call.obj].out \in Path
      BY <2>2, <2>4, HybridAssumption
    <3> QED BY <2>1, <2>2, <2>4, <3>1
  <2> QED BY <1>7, <2>3, <2>4 DEF EndTraining
<1>8. CASE PrepareByLoading
  <2> DEFINE o == call.obj
  <2>1. root' = root /\ options' = options /\ call.at = "prepare" /\ o \in Object
    BY <1>8 DEF PrepareByLoading, Load
  <2>2. CASE /\ call' = [at |-> "build", obj |-> o]
             /\ qtable_loaded_' = [qtable_loaded_ EXCEPT ![o] = TRUE]
             /\ last_error_' = [last_error_ EXCEPT ![o] = FALSE]
    BY <2>1, <2>2
  <2>3. CASE /\ call' = Constructed(o, FALSE)
             /\ qtable_loaded_' = qtable_loaded_
             /\ last_error_' = [last_error_ EXCEPT ![o] = TRUE]
    BY <2>1, <2>3 DEF Constructed
  <2> QED BY <1>8, <2>2, <2>3 DEF PrepareByLoading, Load
<1>9. CASE BuildTree
  BY <1>9 DEF BuildTree, Constructed, BuiltBy, NoTree
<1>10. CASE OpenFile
  BY <1>10 DEF OpenFile, objectVars, Constructed
<1>11. ASSUME NEW ok \in BOOLEAN, EndSave(ok), call.at \in {"open", "write"} PROVE ConstructionInv'
  <2>1. UNCHANGED <<options, root, qtable_loaded_>> /\ call.obj \in Object
    BY <1>11 DEF EndSave
  <2>2. CASE /\ call.construct /\ ok /\ UNCHANGED last_error_
             /\ call' = [at |-> "build", obj |-> call.obj]
    BY <1>11, <2>1, <2>2
  <2>3. CASE /\ call.construct /\ ~ok
             /\ call' = Constructed(call.obj, FALSE)
             /\ last_error_' = [last_error_ EXCEPT ![call.obj] = TRUE]
    BY <1>11, <2>1, <2>3 DEF Constructed
  <2>4. CASE ~call.construct /\ call' = NoCall /\ UNCHANGED last_error_
    BY <1>11, <2>1, <2>4 DEF NoCall
  <2> QED BY <1>11, <2>2, <2>3, <2>4 DEF EndSave
<1>12. CASE OpenFails \/ WriteFails \/ CloseFile
  BY <1>11, <1>12 DEF OpenFails, WriteFails, CloseFile
<1>13. CASE WriteBlock
  BY <1>13 DEF WriteBlock, objectVars, Constructed
<1>15. CASE Training \/ vars' = vars
  BY <1>15 DEF Training, vars, objectVars
<1>16. CASE Crash
  BY <1>16 DEF Crash, NoCall
<1> QED
  BY <1>1, <1>2, <1>3, <1>4, <1>5, <1>6, <1>7, <1>8, <1>9, <1>10, <1>12, <1>13,
     <1>15, <1>16 DEF Next, Call, CallStep

\* A construction returns true exactly when its object is ready and has no
\* error: ConstructClassifierSafe and the last_error_ it documents.
THEOREM ResultIsStateAlways == Spec => []ResultIsState
<1>1. ConstructionInv => ResultIsState
  BY DEF ConstructionInv
<1> QED BY <1>1, ConstructionInvInit, ConstructionInvNext, PTL DEF Spec

-----------------------------------------------------------------------------
(***************************************************************************)
(* What is in a file.                                                      *)
(***************************************************************************)

Rows == Cardinality(State)

\* A table with all rows and columns.
Whole(t) == t = [bits |-> t.bits, q |-> t.q] /\ t.q = [k \in Key |-> t.q[k]]

\* The values of a row, as SaveQTable writes them.
Row(t, s) == [a \in Action |-> t.q[<<s, a>>]]

\* Every block of a table's file.
BlockOf(t) == {<<t.bits>>} \cup {Row(t, s) : s \in State}

\* The first n blocks of a file of table t.
Start(t, n) == [j \in 1 .. n |-> Serialized(t)[j]]

LEMMA RowsNat == Rows \in Nat /\ State = 0 .. Rows - 1
  BY HybridAssumption, FS_CardinalityType DEF Rows

\* The blocks of a table: its bits, then a row for each state.
LEMMA SerializedBlocks ==
  ASSUME NEW t
  PROVE  /\ Serialized(t) \in Seq(BlockOf(t))
         /\ Len(Serialized(t)) = Rows + 1
         /\ Serialized(t)[1] = <<t.bits>>
         /\ \A j \in 2 .. Rows + 1 : Serialized(t)[j] = Row(t, j - 2)
<1> DEFINE rows == [n \in 1 .. Rows |-> Row(t, n - 1)]
           head == <<<<t.bits>>>>
           S    == BlockOf(t)
<1>1. Rows \in Nat /\ State = 0 .. Rows - 1
  BY RowsNat
<1>2. rows \in Seq(S) /\ Len(rows) = Rows /\ \A n \in 1 .. Rows : rows[n] = Row(t, n - 1)
  <2>1. \A n \in 1 .. Rows : Row(t, n - 1) \in S
    BY <1>1 DEF BlockOf
  <2> HIDE DEF S
  <2>2. rows \in [1 .. Rows -> S]
    BY <2>1
  <2> QED BY <1>1, <2>2, SeqDef
<1>3. head \in Seq(S) /\ Len(head) = 1 /\ head[1] = <<t.bits>>
  BY DEF BlockOf
<1>4. Serialized(t) = head \o rows
  BY DEF Serialized, Rows, Row
<1> HIDE DEF head, rows, S
<1>5. /\ head \o rows \in Seq(S) /\ Len(head \o rows) = Rows + 1
      /\ (head \o rows)[1] = <<t.bits>>
      /\ \A j \in 2 .. Rows + 1 : (head \o rows)[j] = rows[j - 1]
  <2>1. /\ head \o rows \in Seq(S) /\ Len(head \o rows) = Len(head) + Len(rows)
        /\ \A j \in 1 .. Len(head) + Len(rows) :
             (head \o rows)[j] = IF j <= Len(head) THEN head[j] ELSE rows[j - Len(head)]
    <3>1. head \in Seq(S) /\ rows \in Seq(S)
      BY <1>2, <1>3
    <3> QED BY <3>1, ConcatProperties
  <2> QED BY <1>1, <1>2, <1>3, <2>1
<1>6. \A j \in 2 .. Rows + 1 : j - 1 \in 1 .. Rows /\ (j - 1) - 1 = j - 2
  BY <1>1
<1> QED BY <1>2, <1>4, <1>5, <1>6 DEF S

\* The first blocks are a sequence, and the beginning of the file.
LEMMA StartBlocks ==
  ASSUME NEW t, NEW n \in 0 .. Rows + 1
  PROVE  /\ Start(t, n) \in Seq(BlockOf(t))
         /\ Len(Start(t, n)) = n
         /\ \A j \in 1 .. n : Start(t, n)[j] = Serialized(t)[j]
         /\ IsPrefix(Start(t, n), Serialized(t))
<1> DEFINE S   == BlockOf(t)
           ser == Serialized(t)
<1>1. Rows \in Nat /\ ser \in Seq(S) /\ Len(ser) = Rows + 1
  BY RowsNat, SerializedBlocks
<1>2. \A j \in 1 .. n : ser[j] \in S
  <2> HIDE DEF S, ser
  <2> QED BY <1>1, ElementOfSeq
<1>3. Start(t, n) \in [1 .. n -> S] /\ \A j \in 1 .. n : Start(t, n)[j] = ser[j]
  <2> HIDE DEF S
  <2> QED BY <1>2 DEF Start
<1> HIDE DEF S, ser
<1>4. Start(t, n) \in Seq(S) /\ Len(Start(t, n)) = n
  BY <1>1, <1>3, SeqDef
<1>5. SubSeq(Start(t, n), 1, n) = SubSeq(ser, 1, n)
  <2>1. SubSeq(ser, 1, n) \in Seq(S) /\ Len(SubSeq(ser, 1, n)) = n
        /\ \A j \in 1 .. n : SubSeq(ser, 1, n)[j] = ser[j]
    BY <1>1, <1>2, SubSeqProperties
  <2>2. SubSeq(Start(t, n), 1, n) = Start(t, n)
    BY <1>4, SubSeqFull
  <2> QED BY <1>3, <1>4, <2>1, <2>2, SeqEqual
<1>6. IsPrefix(Start(t, n), ser)
  BY <1>1, <1>4, <1>5 DEF IsPrefix
<1> QED BY <1>3, <1>4, <1>6 DEF S, ser

\* What is read from the beginning of a file: nothing, or from the whole file
\* the table that was saved.
LEMMA LoadedIs ==
  ASSUME NEW t, Whole(t), NEW n \in 0 .. Rows + 1, NEW bits
  PROVE  Loaded(Start(t, n), bits) = NoTable \/ (Loaded(Start(t, n), bits) = t /\ bits = t.bits)
<1> DEFINE content == Start(t, n)
<1>1. Rows \in Nat /\ State = 0 .. Rows - 1
  BY RowsNat
<1>2. Len(content) = n /\ \A j \in 1 .. n : content[j] = Serialized(t)[j]
  BY StartBlocks
<1> HIDE DEF content
<1>3. SUFFICES ASSUME Len(content) >= 1 + Rows, content[1] = <<bits>>
               PROVE  /\ [bits |-> bits, q |-> [k \in Key |-> content[k[1] + 2][k[2]]]] = t
                      /\ bits = t.bits
  BY <1>1, <1>2 DEF Loaded, Rows, content
<1>4. n = Rows + 1
  BY <1>1, <1>2, <1>3
<1>5. <<bits>> = <<t.bits>>
  BY <1>1, <1>2, <1>3, <1>4, SerializedBlocks
<1>6. ASSUME NEW k \in Key PROVE content[k[1] + 2][k[2]] = t.q[k]
  <2>1. PICK s \in State, a \in Action : k = <<s, a>>
    BY DEF Key
  <2>2. s + 2 \in 2 .. Rows + 1 /\ s + 2 \in 1 .. n /\ (s + 2) - 2 = s
    BY <1>1, <1>4
  <2>3. content[s + 2] = Row(t, s)
    BY <1>2, <2>2, SerializedBlocks
  <2> QED BY <2>1, <2>3 DEF Row
<1> QED BY <1>5, <1>6 DEF Whole

\* A write of the next block makes the beginning one block longer.
LEMMA WrittenIs ==
  ASSUME NEW t, NEW n \in 1 .. Rows + 1
  PROVE  Written(Start(t, n - 1), n, Serialized(t)[n]) = Start(t, n)
<1> DEFINE S   == BlockOf(t)
           old == Start(t, n - 1)
           b   == Serialized(t)[n]
<1>1. n - 1 \in 0 .. Rows + 1 /\ n \in 0 .. Rows + 1 /\ Rows \in Nat
  BY RowsNat
<1>2. old \in Seq(S) /\ Len(old) = n - 1 /\ \A j \in 1 .. n - 1 : old[j] = Serialized(t)[j]
  BY <1>1, StartBlocks
<1>3. Start(t, n) \in Seq(S) /\ Len(Start(t, n)) = n
      /\ \A j \in 1 .. n : Start(t, n)[j] = Serialized(t)[j]
  BY <1>1, StartBlocks
<1>4. b \in S
  <2>1. Serialized(t) \in Seq(S) /\ n \in 1 .. Len(Serialized(t))
    BY <1>1, SerializedBlocks
  <2> HIDE DEF S
  <2> QED BY <2>1, ElementOfSeq
<1> HIDE DEF S, old
<1>5. SubSeq(old, 1, n - 1) = old
  BY <1>2, SubSeqFull
<1>6. SubSeq(old, n + 1, Len(old)) = << >>
  BY <1>2, SubSeqEmpty
<1>7. Written(old, n, b) = old \o <<b>>
  <2> HIDE DEF b
  <2>1. old \o <<b>> \in Seq(S)
    BY <1>2, <1>4
  <2>2. (old \o <<b>>) \o << >> = old \o <<b>>
    BY <2>1, ConcatEmptySeq
  <2> QED BY <1>5, <1>6, <2>2 DEF Written
<1>8. /\ old \o <<b>> \in Seq(S) /\ Len(old \o <<b>>) = n
      /\ \A j \in 1 .. n : (old \o <<b>>)[j] = Serialized(t)[j]
  <2>1. <<b>> \in Seq(S) /\ Len(<<b>>) = 1 /\ <<b>>[1] = b
    BY <1>4
  <2>2. /\ old \o <<b>> \in Seq(S) /\ Len(old \o <<b>>) = n
        /\ \A j \in 1 .. n : (old \o <<b>>)[j] = IF j <= n - 1 THEN old[j] ELSE <<b>>[j - (n - 1)]
    BY <1>1, <1>2, <2>1, ConcatProperties
  <2>3. \A j \in 1 .. n : j <= n - 1 \/ (j = n /\ j - (n - 1) = 1)
    BY <1>1
  <2> QED BY <1>2, <2>1, <2>2, <2>3
<1> QED BY <1>3, <1>7, <1>8, SeqEqual DEF old

-----------------------------------------------------------------------------
(***************************************************************************)
(* Which tables are in use.                                                *)
(***************************************************************************)

\* A table that a training of o's bits ended with.
Trained(t, o) == t \in trained /\ t.bits = options[o].bits

\* Whatever table there is, is a trained one.
TablesInv ==
  /\ DOMAIN table = Object
  /\ \A o \in Object : table[o] = NoTable \/ Trained(table[o], o)
  /\ \A o \in Object : qtable_loaded_[o] => Trained(table[o], o)
  /\ OnlyTrainedTables

\* A save writes a trained table, and has written the blocks before call.n.
SaveInv ==
  /\ call.at \in {"open", "write"} => Trained(table[call.obj], call.obj)
  /\ call.at = "write" =>
       /\ saving[call.path] = table[call.obj]
       /\ call.n \in 1 .. Rows + 2
       /\ file[call.path] = Start(table[call.obj], call.n - 1)

\* A file is the beginning of that of the trained table saved last.
FilesInv ==
  /\ DOMAIN file = Path /\ DOMAIN saving = Path
  /\ \A p \in Path : file[p] = NoFile \/
       /\ saving[p] \in trained
       /\ \E n \in 0 .. Rows + 1 : file[p] = Start(saving[p], n)

\* The merged table and the tables of ended trainings have all rows and columns.
WholeInv ==
  /\ QTable = [k \in Key |-> QTable[k]]
  /\ \A t \in trained : Whole(t)

\* The inductive invariant.
ModelInv == ConstructionInv /\ WholeInv /\ TablesInv /\ SaveInv /\ FilesInv

\* What is loaded, is a trained table.
LEMMA LoadedIsTrained ==
  ASSUME ModelInv, NEW o \in Object, NEW path \in Path,
         Loaded(file[path], options[o].bits) # NoTable
  PROVE  Trained(Loaded(file[path], options[o].bits), o)
<1>1. file[path] # NoFile
  BY DEF Loaded
<1>2. PICK n \in 0 .. Rows + 1 : file[path] = Start(saving[path], n)
  BY <1>1 DEF ModelInv, FilesInv
<1>3. saving[path] \in trained /\ Whole(saving[path])
  BY <1>1 DEF ModelInv, FilesInv, WholeInv
<1> QED BY <1>2, <1>3, LoadedIs DEF Trained

LEMMA ModelInvInit == Init => ModelInv
<1> SUFFICES ASSUME Init PROVE ModelInv
  OBVIOUS
<1>1. ConstructionInv
  BY ConstructionInvInit
<1>2. WholeInv
  BY DEF Init, TrainInit, Zero, WholeInv
<1>3. TablesInv
  BY DEF Init, TablesInv, OnlyTrainedTables
<1>4. SaveInv /\ FilesInv
  BY DEF Init, SaveInv, NoCall, FilesInv
<1> QED BY <1>1, <1>2, <1>3, <1>4 DEF ModelInv

\* Options stay, no table is forgotten, and a table is whole.
LEMMA WholeInvNext ==
  ASSUME ModelInv, [Next]_vars
  PROVE  options' = options /\ trained \subseteq trained' /\ WholeInv'
<1> USE DEF WholeInv
<1>0. WholeInv
  BY DEF ModelInv
<1>1. CASE ResetTraining /\ options' = options /\ trained' = trained
  BY <1>0, <1>1 DEF ResetTraining, Zero
<1>2. CASE QTable' = QTable /\ options' = options /\ trained' = trained
  BY <1>0, <1>2
<1>3. CASE EndTraining
  <2> DEFINE t == [bits |-> options[call.obj].bits, q |-> QTable]
  <2>1. Whole(t)
    BY <1>0 DEF Whole
  <2>2. trained' = trained \cup {t} /\ options' = options /\ ResetTraining
    BY <1>3 DEF EndTraining
  <2> QED BY <1>0, <2>1, <2>2 DEF ResetTraining, Zero
<1>4. CASE Training
  <2>1. options' = options /\ trained' = trained
    BY <1>4 DEF Training, objectVars, historyVars
  <2>2. QTable' = [k \in Key |-> QTable'[k]]
    BY <1>0, <1>4 DEF Training, ThreadStep, BeginEpisode, CheckProgress, Announce, RunEpisode,
       LeaveRegion, MergeStep, Join, MergeEntry, EndMerge
  <2> QED BY <1>0, <2>1, <2>2
<1>5. CASE vars' = vars
  BY <1>2, <1>5 DEF vars, trainVars, objectVars, historyVars
<1>6. CASE Crash
  BY <1>1, <1>6 DEF Crash
<1>7. CASE Call
  BY <1>2, <1>7 DEF Call, ConstructClassifierSafe, ConstructBaseline, LoadQTable, Load, SaveQTable,
     trainVars, objectVars, historyVars
<1>8. CASE RefuseOptions \/ PrepareByLoading \/ BuildTree
  BY <1>2, <1>8 DEF RefuseOptions, PrepareByLoading, Load, BuildTree, trainVars, historyVars
<1>9. CASE StartTraining
  BY <1>2, <1>9 DEF StartTraining, EnterRegion, objectVars
<1>10. CASE OpenFile \/ WriteBlock
  BY <1>2, <1>10 DEF OpenFile, WriteBlock, trainVars, objectVars, historyVars
<1>11. CASE OpenFails \/ WriteFails \/ CloseFile
  BY <1>2, <1>11 DEF OpenFails, WriteFails, CloseFile, EndSave, trainVars
<1> QED
  BY <1>3, <1>4, <1>5, <1>6, <1>7, <1>8, <1>9, <1>10, <1>11 DEF Next, CallStep

\* Every step keeps the tables in use to trained ones.
LEMMA TablesInvNext ==
  ASSUME ModelInv, [Next]_vars
  PROVE  TablesInv'
<1> USE DEF TablesInv, OnlyTrainedTables, IsReady, Trained
<1>0. /\ TablesInv /\ ConstructionInv
      /\ options' = options /\ trained \subseteq trained'
  BY WholeInvNext DEF ModelInv
<1>1. /\ qtable_loaded_ \in [Object -> BOOLEAN] /\ DOMAIN root = Object
      /\ call.at # "none" => call.obj \in Object
  BY <1>0 DEF ConstructionInv, CallFields
<1>2. CASE UNCHANGED <<root, table, qtable_loaded_>>
  BY <1>0, <1>2
<1>3. ASSUME NEW o \in Object, ConstructClassifierSafe(o) PROVE TablesInv'
  <2>1. /\ root' = [root EXCEPT ![o] = NoTree] /\ table' = table
        /\ qtable_loaded_' = [qtable_loaded_ EXCEPT ![o] = FALSE]
    BY <1>3 DEF ConstructClassifierSafe, DeletedRoot
  <2> QED BY <1>0, <1>1, <2>1
<1>4. ASSUME NEW o \in Object, ConstructBaseline(o) PROVE TablesInv'
  <2>1. root' = [root EXCEPT ![o] = Baseline] /\ UNCHANGED <<table, qtable_loaded_>>
    BY <1>4 DEF ConstructBaseline
  <2> QED BY <1>0, <1>1, <2>1
<1>5. ASSUME NEW o \in Object, NEW t, t \in trained', t.bits = options[o].bits, root' = root,
             table' = [table EXCEPT ![o] = t], qtable_loaded_' = [qtable_loaded_ EXCEPT ![o] = TRUE]
      PROVE  TablesInv'
  BY <1>0, <1>1, <1>5
<1>6. ASSUME NEW o \in Object, NEW path \in Path, NEW accepted, NEW refused,
             Load(o, path, accepted, refused)
      PROVE  TablesInv'
  <2>0. PICK t : t = Loaded(file[path], options[o].bits)
    OBVIOUS
  <2>1. CASE UNCHANGED <<root, table, qtable_loaded_>>
    BY <1>2, <2>1
  <2>2. CASE /\ t # NoTable /\ root' = root
             /\ table' = [table EXCEPT ![o] = t]
             /\ qtable_loaded_' = [qtable_loaded_ EXCEPT ![o] = TRUE]
    <3>1. Trained(t, o)
      BY <2>0, <2>2, LoadedIsTrained
    <3> QED BY <1>0, <1>5, <2>2, <3>1
  <2> QED BY <1>6, <2>0, <2>1, <2>2 DEF Load
<1>7. CASE EndTraining
  <2>0. PICK o \in Object : o = call.obj
    BY <1>1, <1>7 DEF EndTraining
  <2>1. PICK t : t = [bits |-> options[o].bits, q |-> QTable]
    OBVIOUS
  <2>2. /\ trained' = trained \cup {t} /\ root' = root
        /\ table' = [table EXCEPT ![o] = t]
        /\ qtable_loaded_' = [qtable_loaded_ EXCEPT ![o] = TRUE]
    BY <1>7, <2>0, <2>1 DEF EndTraining
  <2>3. t \in trained' /\ t.bits = options[o].bits
    BY <2>1, <2>2
  <2> QED BY <1>5, <2>2, <2>3
<1>8. CASE BuildTree
  <2> DEFINE o == call.obj
  <2>1. /\ o \in Object /\ qtable_loaded_[o]
        /\ root' = [root EXCEPT ![o] = BuiltBy(table[o])] /\ UNCHANGED <<table, qtable_loaded_>>
    BY <1>0, <1>1, <1>8 DEF BuildTree, ConstructionInv, HasTable, Constructing
  <2>2. Trained(table[o], o) /\ BuiltBy(table[o]).table = table[o]
    BY <1>0, <2>1 DEF BuiltBy
  <2> HIDE DEF o
  <2> QED BY <1>0, <1>1, <2>1, <2>2
<1>9. CASE Crash
  BY <1>0, <1>9 DEF Crash
<1>10. CASE PrepareByLoading
  <2>1. call.obj \in Object /\ options[call.obj].in \in Path
    BY <1>0, <1>1, <1>10, HybridAssumption DEF PrepareByLoading, ConstructionInv
  <2> QED BY <1>6, <1>10, <2>1 DEF PrepareByLoading
<1>11. CASE \E o \in Object, path \in Path : LoadQTable(o, path)
  BY <1>6, <1>11 DEF LoadQTable
<1>12. CASE \/ \E o \in Object, path \in Path : SaveQTable(o, path)
            \/ Training \/ StartTraining \/ OpenFile \/ WriteBlock
  BY <1>2, <1>12 DEF SaveQTable, Training, StartTraining, OpenFile, WriteBlock, objectVars
<1>13. CASE RefuseOptions \/ OpenFails \/ WriteFails \/ CloseFile \/ vars' = vars
  BY <1>2, <1>13 DEF RefuseOptions, OpenFails, WriteFails, CloseFile, EndSave, vars, objectVars
<1> QED
  BY <1>3, <1>4, <1>7, <1>8, <1>9, <1>10, <1>11, <1>12, <1>13 DEF Next, Call, CallStep

\* Every step keeps a file to what the last save there has written.
LEMMA FilesInvNext ==
  ASSUME ModelInv, [Next]_vars
  PROVE  SaveInv' /\ FilesInv'
<1> DEFINE o == call.obj
           p == call.path
<1>0. /\ SaveInv /\ FilesInv /\ CallFields /\ TablesInv /\ TablesInv'
      /\ options' = options /\ options \in Options /\ trained \subseteq trained'
  BY WholeInvNext, TablesInvNext DEF ModelInv, ConstructionInv
<1>1. ASSUME UNCHANGED <<file, saving>> PROVE FilesInv'
  BY <1>0, <1>1 DEF FilesInv
<1>2. ASSUME UNCHANGED <<file, saving>>, call'.at \notin {"open", "write"}
      PROVE  SaveInv' /\ FilesInv'
  BY <1>1, <1>2 DEF SaveInv
<1>3. CASE OpenFile
  <2>1. o \in Object /\ p \in Path /\ Trained(table[o], o)
    BY <1>0, <1>3 DEF OpenFile, CallFields, SaveInv
  <2>2. /\ file' = [file EXCEPT ![p] = << >>] /\ saving' = [saving EXCEPT ![p] = table[o]]
        /\ call'.at = "write" /\ call'.obj = o /\ call'.path = p /\ call'.n = 1
        /\ table' = table
    BY <1>3 DEF OpenFile, Opened, objectVars
  <2>3. << >> = Start(table[o], 0)
    BY DEF Start
  <2>4. file'[p] = Start(saving'[p], 0) /\ saving'[p] = table[o]
    BY <1>0, <2>1, <2>2, <2>3 DEF FilesInv
  <2>5. SaveInv'
    BY <1>0, <2>1, <2>2, <2>4, RowsNat DEF SaveInv, Trained
  <2>6. FilesInv'
    <3>1. DOMAIN file' = Path /\ DOMAIN saving' = Path
      BY <1>0, <2>2 DEF FilesInv
    <3>2. saving'[p] \in trained' /\ 0 \in 0 .. Rows + 1
      BY <1>0, <2>1, <2>4, RowsNat DEF Trained
    <3>3. ASSUME NEW r \in Path, r # p PROVE file'[r] = file[r] /\ saving'[r] = saving[r]
      BY <1>0, <2>2, <3>3 DEF FilesInv
    <3> QED BY <1>0, <2>4, <3>1, <3>2, <3>3 DEF FilesInv
  <2> QED BY <2>5, <2>6
<1>4. CASE WriteBlock
  <2> DEFINE t == table[o]
             n == call.n
  <2>1. /\ o \in Object /\ p \in Path /\ Trained(t, o) /\ saving[p] = t
        /\ n \in 1 .. Rows + 2 /\ file[p] = Start(t, n - 1)
    BY <1>0, <1>4 DEF WriteBlock, CallFields, SaveInv
  <2>2. n \in 1 .. Rows + 1 /\ n + 1 \in 1 .. Rows + 2 /\ (n + 1) - 1 = n /\ n \in 0 .. Rows + 1
    BY <1>4, <2>1, RowsNat, SerializedBlocks DEF WriteBlock, Blocks
  <2>3. /\ call'.at = "write" /\ call'.obj = o /\ call'.path = p /\ call'.n = n + 1
        /\ table' = table /\ saving' = saving
        /\ file' = [file EXCEPT ![p] = Written(@, n, Serialized(t)[n])]
    <3>1. call' = [call EXCEPT !.n = n + 1] /\ call.at = "write"
      BY <1>4 DEF WriteBlock
    <3>2. call = [at |-> "write", obj |-> o, path |-> p, construct |-> call.construct, n |-> n]
      BY <1>0, <3>1 DEF CallFields
    <3>3. call'.at = "write" /\ call'.obj = o /\ call'.path = p /\ call'.n = n + 1
      BY <3>1, <3>2
    <3> QED BY <1>4, <3>3 DEF WriteBlock, Blocks, objectVars, historyVars
  <2>4. file'[p] = Start(t, n)
    BY <1>0, <2>1, <2>2, <2>3, WrittenIs DEF FilesInv
  <2> HIDE DEF t, n
  <2>5. SaveInv'
    BY <1>0, <2>1, <2>2, <2>3, <2>4 DEF SaveInv, Trained, t
  <2>6. FilesInv'
    <3>1. DOMAIN file' = Path /\ DOMAIN saving' = Path
      BY <1>0, <2>3 DEF FilesInv
    <3>2. saving'[p] \in trained' /\ file'[p] = Start(saving'[p], n)
      BY <1>0, <2>1, <2>3, <2>4 DEF Trained
    <3>3. ASSUME NEW r \in Path, r # p PROVE file'[r] = file[r] /\ saving'[r] = saving[r]
      BY <1>0, <2>3, <3>3 DEF FilesInv
    <3> QED BY <1>0, <2>2, <3>1, <3>2, <3>3 DEF FilesInv
  <2> QED BY <2>5, <2>6
<1>5. ASSUME NEW x \in Object, NEW path \in Path, SaveQTable(x, path) PROVE SaveInv' /\ FilesInv'
  <2>1. UNCHANGED <<file, saving, table>>
    BY <1>5 DEF SaveQTable, historyVars, objectVars
  <2>2. CASE call' = NoCall
    BY <1>2, <2>1, <2>2 DEF NoCall
  <2>3. CASE /\ table[x] # NoTable
             /\ call' = [at |-> "open", obj |-> x, path |-> path, construct |-> FALSE]
    <3>1. Trained(table[x], x)
      BY <1>0, <2>3 DEF TablesInv
    <3>2. Trained(table[x], x)'
      BY <1>0, <2>1, <3>1 DEF Trained
    <3> QED BY <1>1, <2>1, <2>3, <3>2 DEF SaveInv
  <2> QED BY <1>5, <2>2, <2>3 DEF SaveQTable
<1>6. CASE EndTraining
  <2>1. PICK x \in Object : x = call.obj
    BY <1>0, <1>6 DEF EndTraining, CallFields
  <2>2. UNCHANGED <<file, saving>> /\ qtable_loaded_' = [qtable_loaded_ EXCEPT ![x] = TRUE]
    BY <1>6, <2>1 DEF EndTraining
  <2>3. qtable_loaded_'[x]
    BY <1>0, <2>2 DEF ModelInv, ConstructionInv
  <2>4. Trained(table[x], x)'
    BY <1>0, <2>3 DEF TablesInv
  <2>5. CASE call' = [at |-> "build", obj |-> x]
    BY <1>2, <2>2, <2>5
  <2>6. CASE call' = [at |-> "open", obj |-> x, path |-> options[x].out, construct |-> TRUE]
    BY <1>1, <2>2, <2>4, <2>6 DEF SaveInv
  <2> QED BY <1>6, <2>1, <2>5, <2>6 DEF EndTraining
<1>7. CASE Training
  BY <1>0, <1>2, <1>7 DEF Training, historyVars
<1>8. CASE Crash
  BY <1>2, <1>8 DEF Crash, NoCall
<1>9. CASE OpenFails \/ WriteFails \/ CloseFile
  BY <1>2, <1>9 DEF OpenFails, WriteFails, CloseFile, EndSave, NoCall, Constructed
<1>10. CASE RefuseOptions \/ StartTraining \/ PrepareByLoading \/ BuildTree
  BY <1>2, <1>10 DEF RefuseOptions, StartTraining, PrepareByLoading, Load, BuildTree, Constructed,
     historyVars
<1>11. ASSUME NEW x \in Object, ConstructClassifierSafe(x) \/ ConstructBaseline(x)
       PROVE  SaveInv' /\ FilesInv'
  BY <1>2, <1>11 DEF ConstructClassifierSafe, ConstructBaseline, NoCall, historyVars
<1>12. ASSUME NEW x \in Object, NEW path \in Path, LoadQTable(x, path) PROVE SaveInv' /\ FilesInv'
  BY <1>2, <1>12 DEF LoadQTable, Load, NoCall, historyVars
<1>13. CASE vars' = vars
  BY <1>0, <1>13 DEF vars, objectVars, historyVars, SaveInv, FilesInv, Trained
<1> QED
  BY <1>3, <1>4, <1>5, <1>6, <1>7, <1>8, <1>9, <1>10, <1>11, <1>12, <1>13 DEF Next, Call, CallStep

LEMMA ModelInvNext == ModelInv /\ [Next]_vars => ModelInv'
  BY ConstructionInvNext, WholeInvNext, TablesInvNext, FilesInvNext DEF ModelInv

\* No torn or foreign table is ever in use: LoadQTable, prepareQTable and
\* buildTreeFromQTable, whatever saves the process ended in.
THEOREM OnlyTrainedTablesAlways == Spec => []OnlyTrainedTables
<1>1. ModelInv => OnlyTrainedTables
  BY DEF ModelInv, TablesInv
<1> QED BY <1>1, ModelInvInit, ModelInvNext, PTL DEF Spec

\* A file holds what the last SaveQTable there has written of its table, and
\* LoadQTable reads that table or refuses.
THEOREM FileIsLastSaveAlways == Spec => []FileIsLastSave
<1>1. ASSUME ModelInv PROVE FileIsLastSave
  <2>1. ASSUME NEW p \in Path, file[p] # NoFile
        PROVE  /\ IsPrefix(file[p], Serialized(saving[p]))
               /\ Loaded(file[p], saving[p].bits) \in {NoTable, saving[p]}
    <3>1. PICK n \in 0 .. Rows + 1 : file[p] = Start(saving[p], n)
      BY <1>1, <2>1 DEF ModelInv, FilesInv
    <3>2. Whole(saving[p])
      BY <1>1, <2>1 DEF ModelInv, FilesInv, WholeInv
    <3> QED BY <3>1, <3>2, StartBlocks, LoadedIs
  <2> QED BY <2>1 DEF FileIsLastSave
<1> QED BY <1>1, ModelInvInit, ModelInvNext, PTL DEF Spec

-----------------------------------------------------------------------------
(***************************************************************************)
(* The progress of a training.                                             *)
(***************************************************************************)

LEMMA ProductIsMonotonic ==
  ASSUME NEW a \in Nat, NEW b \in Nat, NEW c \in Nat, a <= b
  PROVE  a * c <= b * c
<1>1. b * c = a * c + (b - a) * c /\ (b - a) * c >= 0
  OBVIOUS
<1> QED BY <1>1

LEMMA QuotientBounds ==
  ASSUME NEW a \in Nat, NEW b \in Nat \ {0}, NEW c \in Nat, a \div b >= c
  PROVE  c * b <= a
<1>1. a = b * (a \div b) + (a % b) /\ a % b >= 0 /\ a \div b \in Nat
  OBVIOUS
<1>2. c * b <= (a \div b) * b
  BY <1>1, ProductIsMonotonic
<1> QED BY <1>1, <1>2

\* What a thread has seen of the counter, it has by now at least.
ProgressInv ==
  /\ progressCounter \in Nat /\ announced \in Nat /\ nextPrint \in Nat
  /\ done \in [Thread -> Nat]
  /\ \A t \in Thread : done[t] <= progressCounter
  /\ ProgressIsHonest

LEMMA ProgressInvNext == ProgressInv /\ [Next]_vars => ProgressInv'
<1> SUFFICES ASSUME ProgressInv, [Next]_vars PROVE ProgressInv'
  OBVIOUS
<1> USE DEF ProgressInv, ProgressIsHonest
<1>0. loopNum \in Nat \ {0} /\ progressStep \in Nat
  BY TrainingAssumption
<1>1. CASE ResetTraining
  BY <1>0, <1>1 DEF ResetTraining
<1>2. CASE UNCHANGED <<progressCounter, announced, nextPrint, done>>
  BY <1>2
<1>3. ASSUME NEW t \in Thread, BeginEpisode(t) PROVE ProgressInv'
  <2>1. /\ progressCounter' = progressCounter + 1
        /\ done' = [done EXCEPT ![t] = progressCounter + 1]
        /\ UNCHANGED <<announced, nextPrint>>
    BY <1>3 DEF BeginEpisode
  <2>2. (progressCounter + 1) * 100 >= progressCounter * 100
    OBVIOUS
  <2>3. announced * loopNum \in Nat
    BY <1>0
  <2> QED BY <2>1, <2>2, <2>3
<1>4. ASSUME NEW t \in Thread, Announce(t) PROVE ProgressInv'
  <2>1. UNCHANGED <<progressCounter, done>>
    BY <1>4 DEF Announce
  <2>2. CASE UNCHANGED <<announced, nextPrint>>
    BY <2>1, <2>2
  <2>3. CASE Due(t) /\ announced' = nextPrint /\ nextPrint' = nextPrint + progressStep
    <3>1. done[t] * 100 \in Nat
      OBVIOUS
    <3>2. nextPrint * loopNum <= done[t] * 100
      BY <1>0, <2>3, <3>1, QuotientBounds DEF Due
    <3>3. done[t] * 100 <= progressCounter * 100
      OBVIOUS
    <3>4. nextPrint * loopNum \in Nat
      BY <1>0
    <3>5. nextPrint * loopNum <= progressCounter * 100
      BY <3>1, <3>2, <3>3, <3>4
    <3> QED BY <1>0, <2>1, <2>3, <3>5
  <2> QED BY <1>4, <2>2, <2>3 DEF Announce, AnnounceIf
<1>5. CASE Training
  <2>1. CASE \E t \in Thread : BeginEpisode(t) \/ Announce(t)
    BY <1>3, <1>4, <2>1
  <2>2. CASE MergeStep \/ \E t \in Thread : CheckProgress(t) \/ RunEpisode(t) \/ LeaveRegion(t)
    BY <1>2, <2>2 DEF MergeStep, Join, MergeEntry, EndMerge, CheckProgress, RunEpisode, LeaveRegion
  <2> QED BY <1>5, <2>1, <2>2 DEF Training, ThreadStep
<1>6. CASE StartTraining
  BY <1>2, <1>6 DEF StartTraining, EnterRegion
<1>7. CASE EndTraining \/ Crash
  BY <1>1, <1>7 DEF EndTraining, Crash
<1>8. CASE Call \/ vars' = vars
  BY <1>2, <1>8 DEF Call, ConstructClassifierSafe, ConstructBaseline, LoadQTable, Load, SaveQTable,
     trainVars, vars
<1>9. CASE \/ RefuseOptions \/ PrepareByLoading \/ BuildTree \/ OpenFile \/ WriteBlock
           \/ OpenFails \/ WriteFails \/ CloseFile
  BY <1>2, <1>9 DEF RefuseOptions, PrepareByLoading, Load, BuildTree, OpenFile, WriteBlock,
     OpenFails, WriteFails, CloseFile, EndSave, trainVars
<1> QED
  BY <1>5, <1>6, <1>7, <1>8, <1>9 DEF Next, CallStep

\* Threads never announce more progress than there is, though the counter, the
\* check and the critical section are steps of their own (HybridTSS::train).
THEOREM ProgressIsHonestAlways == Spec => []ProgressIsHonest
<1>1. Init => ProgressInv
  BY TrainingAssumption DEF Init, TrainInit, ProgressInv, ProgressIsHonest
<1>2. ProgressInv => ProgressIsHonest
  BY DEF ProgressInv
<1> QED BY <1>1, <1>2, ProgressInvNext, PTL DEF Spec

-----------------------------------------------------------------------------
(***************************************************************************)
(* The types of a training.                                                *)
(***************************************************************************)

LEMMA Remainder ==
  ASSUME NEW a \in Nat, NEW n \in Nat \ {0}
  PROVE  /\ a % n \in 0 .. n - 1 /\ a % n <= a
         /\ (a + n) % n = a % n
         /\ \A b \in Nat : a < b /\ b % n = a % n => a + n <= b
<1>1. ASSUME NEW c \in Nat
      PROVE  c = n * (c \div n) + (c % n) /\ c % n \in 0 .. n - 1 /\ c \div n \in Nat
  OBVIOUS
<1>2. a % n <= a
  <2>1. n * (a \div n) >= 0
    BY <1>1
  <2> QED BY <1>1, <2>1
<1>3. (a + n) % n = a % n
  <2>1. PICK q \in Nat, r \in 0 .. n - 1 : a = n * q + r /\ a % n = r
    BY <1>1
  <2>2. PICK p \in Nat, s \in 0 .. n - 1 : a + n = n * p + s /\ (a + n) % n = s
    <3>1. PICK c \in Nat : c = a + n
      OBVIOUS
    <3> QED BY <1>1, <3>1
  <2>3. n * (p - q - 1) = r - s /\ p - q - 1 \in Int
    BY <2>1, <2>2
  <2>4. PICK k \in Int : k = p - q - 1
    BY <2>3
  <2>5. n * k < n /\ -n < n * k
    BY <2>3, <2>4
  <2>6. ~(k >= 1) /\ ~(k <= -1)
    BY <2>5
  <2>7. k = 0
    BY <2>6
  <2> QED BY <2>1, <2>2, <2>3, <2>4, <2>7
<1>4. ASSUME NEW b \in Nat, a < b, b % n = a % n
      PROVE  a + n <= b
  <2>1. PICK q \in Nat, r \in 0 .. n - 1 : a = n * q + r /\ a % n = r
    BY <1>1
  <2>2. PICK p \in Nat : b = n * p + r
    BY <1>1, <1>4, <2>1
  <2>3. PICK k \in Int : k = p - q
    OBVIOUS
  <2>4. b - a = n * k
    BY <2>1, <2>2, <2>3
  <2>5. k >= 1
    BY <1>4, <2>4
  <2>6. n * k >= n
    BY <2>5
  <2> QED BY <2>4, <2>6
<1> QED BY <1>1, <1>2, <1>3, <1>4

\* What a thread knows: a value for each key it has met, and no other.
Knowledge ==
  {know \in [q : UNION {[K -> Int] : K \in SUBSET Key}, count : [Key -> Nat]] :
     \A k \in Key : k \in DOMAIN know.q <=> know.count[k] > 0}

LEMMA LearntIs ==
  ASSUME NEW know \in Knowledge, NEW key \in Key, NEW val \in Int
  PROVE  /\ Learnt(know, key, val) \in Knowledge
         /\ Learnt(know, key, val).count = [know.count EXCEPT ![key] = @ + 1]
<1> DEFINE K == DOMAIN know.q
           n == know.count[key]
           c == [know.count EXCEPT ![key] = @ + 1]
           q == IF key \in K
                  THEN [know.q EXCEPT ![key] = @ + (lr * (val - @)) \div (1 + decay * n)]
                  ELSE [k \in K \cup {key} |-> IF k = key THEN val ELSE know.q[k]]
<1>1. K \in SUBSET Key /\ know.q \in [K -> Int] /\ know.count \in [Key -> Nat] /\ n \in Nat
  BY DEF Knowledge
<1>2. c \in [Key -> Nat] /\ \A k \in Key : c[k] > 0 <=> (k = key \/ know.count[k] > 0)
  BY <1>1
<1>3. q \in [K \cup {key} -> Int]
  <2>1. CASE key \in K
    <3>1. lr \in Nat /\ 1 + decay * n \in Nat /\ 1 + decay * n > 0
      <4>1. decay \in Nat /\ lr \in Nat
        BY TrainingAssumption
      <4>2. decay * n \in Nat
        BY <1>1, <4>1
      <4> QED BY <4>1, <4>2
    <3>2. ASSUME NEW m \in Nat, m > 0, NEW x \in Int
          PROVE  x + (lr * (val - x)) \div m \in Int
      <4>1. lr * (val - x) \in Int
        BY <3>1
      <4> QED BY <3>2, <4>1
    <3>3. know.q[key] + (lr * (val - know.q[key])) \div (1 + decay * n) \in Int
      BY <1>1, <2>1, <3>1, <3>2
    <3>4. K \cup {key} = K
      BY <2>1
    <3> QED BY <1>1, <2>1, <3>3, <3>4
  <2>2. CASE key \notin K
    BY <1>1, <2>2
  <2> QED BY <2>1, <2>2
<1>4. Learnt(know, key, val) = [q |-> q, count |-> c]
  BY DEF Learnt
<1>5. \A k \in Key : k \in K <=> know.count[k] > 0
  BY DEF Knowledge
<1>6. K \cup {key} \in SUBSET Key /\ DOMAIN q = K \cup {key}
  BY <1>1, <1>3
<1> HIDE DEF q, c, K, n
<1>7. [q |-> q, count |-> c] \in [q : UNION {[L -> Int] : L \in SUBSET Key}, count : [Key -> Nat]]
  BY <1>2, <1>3, <1>6
<1>8. [q |-> q, count |-> c].count = c
  OBVIOUS
<1>9. Learnt(know, key, val).count = [know.count EXCEPT ![key] = @ + 1]
  BY <1>4, <1>8 DEF c
<1> QED BY <1>2, <1>4, <1>5, <1>6, <1>7, <1>9 DEF Knowledge

\* The updates that lesson e has for a key, each named by its place.
LessonsOf(e, lesson, T, k) == {v \in {e} \X T : lesson[v[2]][1] = k}

\* What it knows after an episode is what the episode's lessons make of it.
LearntFrom(know, lesson) ==
  FoldLeft(LAMBDA k, x : Learnt(k, x[1], x[2]), know, lesson)

LEMMA LearntFromIs ==
  ASSUME NEW know \in Knowledge, NEW lesson \in Seq(Key \X Int), NEW e
  PROVE  /\ LearntFrom(know, lesson) \in Knowledge
         /\ \A k \in Key :
              /\ IsFiniteSet(LessonsOf(e, lesson, DOMAIN lesson, k))
              /\ LearntFrom(know, lesson).count[k] =
                   know.count[k] + Cardinality(LessonsOf(e, lesson, DOMAIN lesson, k))
<1> DEFINE S == DOMAIN lesson
           V == Knowledge
           Solves(it) == it = [T \in SUBSET S |->
             IF T = {} THEN know
             ELSE Learnt(it[T \ {Max(T)}], lesson[Max(T)][1], lesson[Max(T)][2])]
           o == [T \in SUBSET S |-> [g \in [T -> V] |->
                   IF T = {} THEN know
                   ELSE Learnt(g[Max(T)], lesson[Max(T)][1], lesson[Max(T)][2])]]
           j == CHOOSE it : Solves(it)
<1>1. IsFiniteSet(S) /\ \A T \in SUBSET S : T # {} => Max(T) \in T
  <2>1. Len(lesson) \in Int /\ 1 \in Int /\ S = 1 .. Len(lesson)
    OBVIOUS
  <2>2. IsFiniteSet(S) /\ S \in SUBSET Nat
    BY <2>1, FS_Interval
  <2> HIDE DEF S
  <2> QED BY <2>2, FS_Subset, MaxIs
<1>2. \A x \in S : lesson[x][1] \in Key /\ lesson[x][2] \in Int
  OBVIOUS
<1> HIDE DEF S
<1>3. ASSUME NEW T \in SUBSET S, NEW g \in [T -> V]
      PROVE  o[T][g] \in V
  <2>1. CASE T = {}
    BY <2>1
  <2>2. CASE T # {}
    <3>1. PICK x \in T : x = Max(T)
      BY <1>1, <2>2
    <3>2. Learnt(g[x], lesson[x][1], lesson[x][2]) \in V
      BY <1>2, LearntIs
    <3> QED BY <2>2, <3>1, <3>2
  <2> QED BY <2>1, <2>2
<1>4. PICK it : Recurses(it, o, S, V)
  <2> HIDE DEF o, V
  <2>1. MapsInto(o, S, V)
    BY <1>3 DEF MapsInto
  <2> QED BY <1>1, <2>1, RecursionExists
<1>5. ASSUME NEW T \in SUBSET S
      PROVE  it[T] = IF T = {} THEN know
                     ELSE Learnt(it[T \ {Max(T)}], lesson[Max(T)][1], lesson[Max(T)][2])
  <2>1. Below(it, T) \in [T -> V]
    BY <1>4 DEF Below, Recurses
  <2>2. T # {} => Below(it, T)[Max(T)] = it[T \ {Max(T)}]
    BY <1>1 DEF Below
  <2>3. it[T] = o[T][Below(it, T)]
    BY <1>4 DEF Recurses
  <2> HIDE DEF V
  <2> QED BY <2>1, <2>2, <2>3
<1>6. Solves(j)
  <2>1. Solves(it)
    BY <1>4, <1>5 DEF Recurses
  <2> HIDE DEF Solves
  <2> QED BY <2>1
<1>7. LearntFrom(know, lesson) = j[S]
  BY DEF LearntFrom, FoldLeft, MapThenFoldSet, S
<1> HIDE DEF j
<1> DEFINE Fits(T) == \A k \in Key :
             /\ IsFiniteSet(LessonsOf(e, lesson, T, k))
             /\ j[T].count[k] = know.count[k] + Cardinality(LessonsOf(e, lesson, T, k))
           P == {T \in SUBSET S : j[T] \in V /\ Fits(T)}
<1>8. ASSUME NEW T \in SUBSET S, \A x \in T : T \ {x} \in P
      PROVE  T \in P
  <2>1. j[T] = IF T = {} THEN know
               ELSE Learnt(j[T \ {Max(T)}], lesson[Max(T)][1], lesson[Max(T)][2])
    BY <1>6
  <2>2. CASE T = {}
    <3>1. j[T] = know
      BY <2>1, <2>2
    <3>2. \A k \in Key : LessonsOf(e, lesson, T, k) = {} /\ know.count[k] \in Nat
      BY <2>2 DEF LessonsOf, Knowledge
    <3>3. IsFiniteSet({}) /\ Cardinality({}) = 0 /\ \A c \in Nat : c = c + 0
      BY FS_EmptySet
    <3>4. Fits(T)
      BY <3>1, <3>2, <3>3
    <3> QED BY <3>1, <3>4
  <2>3. CASE T # {}
    <3>1. PICK x \in T : x = Max(T)
      BY <1>1, <2>3
    <3>2. j[T \ {x}] \in V /\ Fits(T \ {x})
      BY <1>8
    <3>3. PICK h \in Knowledge : h = j[T \ {x}]
      BY <3>2
    <3>4. PICK key \in Key : key = lesson[x][1]
      BY <1>2
    <3>5. PICK val \in Int : val = lesson[x][2]
      BY <1>2
    <3>6. j[T] \in V /\ j[T].count = [h.count EXCEPT ![key] = @ + 1]
      <4>1. j[T] = Learnt(h, key, val)
        BY <2>1, <2>3, <3>1, <3>3, <3>4, <3>5
      <4>2. /\ Learnt(h, key, val) \in V
            /\ Learnt(h, key, val).count = [h.count EXCEPT ![key] = @ + 1]
        BY LearntIs
      <4> QED BY <4>1, <4>2
    <3>7. h.count \in [Key -> Nat]
      BY DEF Knowledge
    <3>8. ASSUME NEW k \in Key
          PROVE  /\ IsFiniteSet(LessonsOf(e, lesson, T, k))
                 /\ j[T].count[k] = know.count[k] + Cardinality(LessonsOf(e, lesson, T, k))
      <4> DEFINE A == LessonsOf(e, lesson, T \ {x}, k)
      <4>1. IsFiniteSet(A) /\ h.count[k] = know.count[k] + Cardinality(A)
        BY <3>2, <3>3
      <4>2. Cardinality(A) \in Nat /\ know.count[k] \in Nat
        BY <4>1, FS_CardinalityType DEF Knowledge
      <4>3. CASE k = key
        <5>1. LessonsOf(e, lesson, T, k) = A \cup {<<e, x>>} /\ <<e, x>> \notin A
          BY <3>4, <4>3 DEF LessonsOf
        <5>2. j[T].count[k] = h.count[k] + 1
          BY <3>6, <3>7, <4>3
        <5> HIDE DEF A
        <5>3. PICK c \in Nat, d \in Nat : c = Cardinality(A) /\ d = know.count[k]
          BY <4>2
        <5>4. IsFiniteSet(A \cup {<<e, x>>}) /\ Cardinality(A \cup {<<e, x>>}) = c + 1
          BY <4>1, <5>1, <5>3, FS_AddElement
        <5>5. h.count[k] = d + c /\ (d + c) + 1 = d + (c + 1)
          <6>1. (d + c) + 1 = d + (c + 1)
            OBVIOUS
          <6>2. h.count[k] = d + c
            BY <4>1, <5>3, Zenon
          <6> QED BY <6>1, <6>2
        <5>6. j[T].count[k] = d + (c + 1)
          BY <5>2, <5>5
        <5> QED BY <5>1, <5>3, <5>4, <5>6
      <4>4. CASE k # key
        <5>1. LessonsOf(e, lesson, T, k) = A
          BY <3>4, <4>4 DEF LessonsOf
        <5>2. j[T].count[k] = h.count[k]
          BY <3>6, <3>7, <4>4
        <5> QED BY <4>1, <5>1, <5>2
      <4> QED BY <4>3, <4>4
    <3> QED BY <3>6, <3>8
  <2> QED BY <2>2, <2>3
<1>9. \A T \in SUBSET S : T \in P
  <2> HIDE DEF P
  <2> QED BY <1>1, <1>8, SubsetInduct
<1>10. S \in P
  BY <1>9
<1> QED BY <1>7, <1>10 DEF S

\* The episodes begun: those of a thread before its next one, and that one too
\* once the thread has counted it.
Counted(t) == pc[t] \in {"check", "critical", "episode"}

Begun ==
  {e \in Episode : \/ e < i[e % NumThreads]
                   \/ e = i[e % NumThreads] /\ Counted(e % NumThreads)}

\* The threads and their stripes; no weight of an entry to be merged is zero.
ThreadInv ==
  /\ phase \in {"idle", "team", "merge", "trained"}
  /\ phase # "idle" => lessons \in Lessons
  /\ team \subseteq Thread
  /\ pc \in [Thread -> {"begin", "check", "critical", "episode", "out"}]
  /\ i \in [Thread -> Nat]
  /\ \A t \in Thread : /\ i[t] % NumThreads = t
                       /\ Counted(t) => i[t] < loopNum
                       /\ phase # "team" \/ t \notin team => pc[t] = "out"

TableInv ==
  /\ Qlocal = [t \in Thread |-> Qlocal[t]] /\ countLocal \in [Thread -> [Key -> Nat]]
  /\ \A t \in Thread : [q |-> Qlocal[t], count |-> countLocal[t]] \in Knowledge
  /\ unmerged \subseteq Thread \X Key /\ (phase # "merge" => unmerged = {})
  /\ \A e \in unmerged : countLocal[e[1]][e[2]] > 0
  /\ QTable \in [Key -> Int] /\ QCount \in [Key -> Nat]

CounterInv ==
  /\ progressCounter = Cardinality(Begun)
  /\ done \in [Thread -> 0 .. loopNum]

TrainInv == ThreadInv /\ TableInv /\ CounterInv

LEMMA ThreadsAre ==
  /\ NumThreads \in Nat \ {0} /\ loopNum \in Nat \ {0} /\ progressStep \in Nat
  /\ \A t \in Thread : t \in Nat /\ t % NumThreads = t
  /\ \A e \in Episode : e \in Nat /\ e % NumThreads \in Thread
  /\ IsFiniteSet(Episode) /\ Cardinality(Episode) = loopNum
<1>1. NumThreads \in Nat \ {0} /\ loopNum \in Nat \ {0} /\ progressStep \in Nat
  BY TrainingAssumption
<1>2. IsFiniteSet(Episode) /\ Cardinality(Episode) = loopNum
  <2>1. 0 \in Int /\ loopNum - 1 \in Int
    BY <1>1
  <2>2. /\ IsFiniteSet(0 .. loopNum - 1)
        /\ Cardinality(0 .. loopNum - 1) = IF 0 > loopNum - 1 THEN 0 ELSE (loopNum - 1) - 0 + 1
    BY <2>1, FS_Interval
  <2> QED BY <1>1, <2>2 DEF Episode
<1>3. ASSUME NEW t \in Thread
      PROVE  t \in Nat /\ t % NumThreads = t
  BY <1>1 DEF Thread
<1>4. ASSUME NEW e \in Episode
      PROVE  e \in Nat /\ e % NumThreads \in Thread
  <2>1. e \in Nat
    BY <1>1 DEF Episode
  <2> QED BY <1>1, <2>1, Remainder DEF Thread
<1> QED BY <1>1, <1>2, <1>3, <1>4

\* At most all episodes are begun.
LEMMA BegunFits ==
  ASSUME NEW E \in SUBSET Episode
  PROVE  IsFiniteSet(E) /\ Cardinality(E) \in 0 .. loopNum
<1>1. /\ IsFiniteSet(E) /\ Cardinality(E) \in Nat
      /\ Cardinality(E) <= Cardinality(Episode)
  BY ThreadsAre, FS_Subset, FS_CardinalityType
<1> QED BY <1>1, ThreadsAre

LEMMA BegunSame ==
  ASSUME i' = i, pc' = pc
  PROVE  Begun' = Begun
BY DEF Begun, Counted

\* A thread that enters or leaves the region, or goes on within its episode.
LEMMA BegunStays ==
  ASSUME ThreadInv, i' = i, \A t \in Thread : Counted(t)' <=> Counted(t)
  PROVE  Begun' = Begun
BY ThreadsAre DEF Begun

LEMMA BegunOneMore ==
  ASSUME ThreadInv, NEW t \in Thread, BeginEpisode(t)
  PROVE  Cardinality(Begun') = Cardinality(Begun) + 1
<1>1. /\ i' = i /\ i[t] < loopNum /\ i[t] \in Nat /\ i[t] % NumThreads = t /\ ~Counted(t)
      /\ pc' = [pc EXCEPT ![t] = "check"]
      /\ pc \in [Thread -> {"begin", "check", "critical", "episode", "out"}]
  BY DEF BeginEpisode, ThreadInv, Counted
<1>2. i[t] \in Episode /\ i[t] \notin Begun
  <2>1. i[t] \in 0 .. loopNum - 1
    BY <1>1, ThreadsAre
  <2>2. ~(i[t] < i[t])
    BY <1>1
  <2> QED BY <1>1, <2>1, <2>2 DEF Begun, Episode
<1>3. \A u \in Thread : Counted(u)' <=> u = t \/ Counted(u)
  BY <1>1 DEF Counted
<1>4. Begun' = Begun \cup {i[t]}
  <2> SUFFICES ASSUME NEW e \in Episode
               PROVE  e \in Begun' <=> e \in Begun \/ e = i[t]
    BY <1>2 DEF Begun
  <2>1. e \in Nat /\ e % NumThreads \in Thread
    BY ThreadsAre
  <2>2. CASE e % NumThreads = t
    BY <1>1, <1>3, <2>1, <2>2 DEF Begun
  <2>3. CASE e % NumThreads # t
    BY <1>1, <1>3, <2>1, <2>3 DEF Begun
  <2> QED BY <2>2, <2>3
<1>5. Begun \in SUBSET Episode
  BY DEF Begun
<1> QED BY <1>2, <1>4, <1>5, BegunFits, FS_AddElement

LEMMA BegunAfterEpisode ==
  ASSUME ThreadInv, NEW t \in Thread, RunEpisode(t)
  PROVE  Begun' = Begun /\ i'[t] % NumThreads = t
<1>1. /\ i[t] < loopNum /\ i[t] \in Nat /\ i[t] % NumThreads = t /\ Counted(t)
      /\ pc' = [pc EXCEPT ![t] = "begin"] /\ i' = [i EXCEPT ![t] = i[t] + NumThreads]
  BY DEF RunEpisode, NextOf, ThreadInv, Counted
<1>2. /\ pc \in [Thread -> {"begin", "check", "critical", "episode", "out"}]
      /\ i \in [Thread -> Nat]
  BY DEF ThreadInv
<1>3. /\ (i[t] + NumThreads) % NumThreads = t
      /\ \A e \in Nat : i[t] < e /\ e % NumThreads = t => i[t] + NumThreads <= e
  BY <1>1, ThreadsAre, Remainder
<1>4. ASSUME NEW e \in Episode
      PROVE  e \in Begun' <=> e \in Begun
  <2>1. e \in Nat /\ e % NumThreads \in Thread
    BY ThreadsAre
  <2>2. CASE e % NumThreads = t
    <3>1. e < i[t] + NumThreads <=> e <= i[t]
      BY <1>1, <1>3, <2>1, <2>2, ThreadsAre
    <3>2. i'[t] = i[t] + NumThreads /\ ~Counted(t)'
      BY <1>1, <1>2 DEF Counted
    <3>3. e \in Begun' <=> e < i'[t]
      BY <2>2, <3>2 DEF Begun
    <3>4. e \in Begun <=> e <= i[t]
      BY <1>1, <2>1, <2>2 DEF Begun
    <3> QED BY <3>1, <3>2, <3>3, <3>4
  <2>3. CASE e % NumThreads # t
    BY <1>1, <1>2, <2>1, <2>3 DEF Begun, Counted
  <2> QED BY <2>2, <2>3
<1>5. Begun' = Begun
  BY <1>4 DEF Begun
<1> QED BY <1>1, <1>2, <1>3, <1>5

\* What a step means for a training.
LEMMA TrainingSteps ==
  ASSUME [Next]_vars
  PROVE  \/ ResetTraining \/ EnterRegion \/ UNCHANGED trainVars
         \/ \E t \in Thread : ThreadStep(t)
         \/ MergeStep
<1>1. CASE EndTraining \/ Crash
  BY <1>1 DEF EndTraining, Crash
<1>2. CASE StartTraining \/ Training
  BY <1>2 DEF StartTraining, Training
<1>3. CASE Call \/ vars' = vars
  BY <1>3 DEF Call, ConstructClassifierSafe, ConstructBaseline, LoadQTable, Load, SaveQTable, vars
<1>4. CASE \/ RefuseOptions \/ PrepareByLoading \/ BuildTree \/ OpenFile \/ WriteBlock
           \/ OpenFails \/ WriteFails \/ CloseFile
  BY <1>4 DEF RefuseOptions, PrepareByLoading, Load, BuildTree, OpenFile, WriteBlock,
     OpenFails, WriteFails, CloseFile, EndSave
<1> QED BY <1>1, <1>2, <1>3, <1>4 DEF Next, CallStep

LEMMA NothingKnown ==
  /\ [q |-> << >>, count |-> Zero] \in Knowledge
  /\ Zero \in [Key -> Nat] /\ Zero \in [Key -> Int]
<1>1. Zero \in [Key -> Nat] /\ Zero \in [Key -> Int]
  BY DEF Zero
<1>2. << >> \in [{} -> Int] /\ DOMAIN << >> = {} /\ {} \in SUBSET Key
  OBVIOUS
<1>3. << >> \in UNION {[K -> Int] : K \in SUBSET Key}
  BY <1>2
<1>4. \A k \in Key : Zero[k] = 0
  BY DEF Zero
<1> HIDE DEF Zero
<1>5. [q |-> << >>, count |-> Zero] \in [q : UNION {[K -> Int] : K \in SUBSET Key}, count : [Key -> Nat]]
  BY <1>1, <1>3
<1> QED BY <1>1, <1>2, <1>4, <1>5 DEF Knowledge

\* Before any episode is begun.
LEMMA TrainInvInit == TrainInit => TrainInv
<1> SUFFICES ASSUME TrainInit PROVE TrainInv
  OBVIOUS
<1>1. ThreadInv
  BY ThreadsAre DEF TrainInit, ThreadInv, Counted
<1>2. TableInv
  BY NothingKnown DEF TrainInit, TableInv
<1>3. Begun = {}
  <2> SUFFICES ASSUME NEW e \in Episode PROVE e \notin Begun
    BY DEF Begun
  <2>1. e \in Nat /\ e % NumThreads \in Thread
    BY ThreadsAre
  <2>2. i[e % NumThreads] = e % NumThreads /\ ~Counted(e % NumThreads)
    BY <2>1 DEF TrainInit, Counted
  <2>3. e % NumThreads <= e /\ e % NumThreads \in Nat
    BY <2>1, ThreadsAre, Remainder
  <2> QED BY <2>1, <2>2, <2>3 DEF Begun
<1>4. CounterInv
  BY <1>3, ThreadsAre, FS_EmptySet DEF TrainInit, CounterInv
<1> QED BY <1>1, <1>2, <1>4 DEF TrainInv

LEMMA TrainInvReset == ResetTraining => TrainInv'
<1> SUFFICES ASSUME ResetTraining PROVE TrainInv'
  OBVIOUS
<1>1. ThreadInv'
  BY ThreadsAre DEF ResetTraining, ThreadInv, Counted
<1>2. TableInv'
  BY NothingKnown DEF ResetTraining, TableInv
<1>3. Begun' = {}
  <2> SUFFICES ASSUME NEW e \in Episode PROVE e \notin Begun'
    BY DEF Begun
  <2>1. e \in Nat /\ e % NumThreads \in Thread
    BY ThreadsAre
  <2>2. i'[e % NumThreads] = e % NumThreads /\ ~Counted(e % NumThreads)'
    BY <2>1 DEF ResetTraining, Counted
  <2>3. e % NumThreads <= e /\ e % NumThreads \in Nat
    BY <2>1, ThreadsAre, Remainder
  <2> QED BY <2>1, <2>2, <2>3 DEF Begun
<1>4. CounterInv'
  BY <1>3, ThreadsAre, FS_EmptySet DEF ResetTraining, CounterInv
<1> QED BY <1>1, <1>2, <1>4 DEF TrainInv

LEMMA ThreadInvNext ==
  ASSUME TrainInv, [Next]_vars
  PROVE  ThreadInv'
<1> USE DEF TrainInv, ThreadInv, Counted
<1>0. NumThreads \in Nat \ {0} /\ \A t \in Thread : t \in Nat
  BY ThreadsAre
<1>1. CASE ResetTraining
  BY <1>1, TrainInvReset
<1>2. CASE UNCHANGED trainVars
  BY <1>2 DEF trainVars
<1>3. CASE EnterRegion
  <2>1. PICK n \in 1 .. NumThreads :
          /\ team' = 0 .. n - 1
          /\ pc' = [t \in Thread |-> IF t < n THEN "begin" ELSE "out"]
    BY <1>3 DEF EnterRegion
  <2>2. phase' = "team" /\ lessons' \in Lessons /\ i' = i
    BY <1>3 DEF EnterRegion
  <2>3. team' \subseteq Thread
    BY <1>0, <2>1 DEF Thread
  <2>4. \A t \in Thread : t < n <=> t \in team'
    BY <1>0, <2>1
  <2> QED BY <2>1, <2>2, <2>3, <2>4
<1>4. ASSUME NEW t \in Thread, RunEpisode(t)
      PROVE  ThreadInv'
  <2>1. UNCHANGED <<phase, lessons, team>> /\ pc[t] = "episode"
        /\ pc' = [pc EXCEPT ![t] = "begin"] /\ i' = [i EXCEPT ![t] = i[t] + NumThreads]
    BY <1>4 DEF RunEpisode, NextOf
  <2>2. i'[t] % NumThreads = t /\ i[t] + NumThreads \in Nat
    BY <1>0, <1>4, BegunAfterEpisode
  <2> QED BY <2>1, <2>2
<1>5. ASSUME NEW t \in Thread, BeginEpisode(t) \/ CheckProgress(t) \/ Announce(t) \/ LeaveRegion(t)
      PROVE  ThreadInv'
  <2>1. UNCHANGED <<phase, lessons, team, i>> /\ pc[t] # "out"
    BY <1>5 DEF BeginEpisode, CheckProgress, Announce, LeaveRegion
  <2>2. PICK at \in {"begin", "check", "critical", "episode", "out"} :
          pc' = [pc EXCEPT ![t] = at]
            /\ (at \in {"check", "critical", "episode"} => i[t] < loopNum)
    BY <1>5 DEF BeginEpisode, CheckProgress, Announce, LeaveRegion
  <2> QED BY <2>1, <2>2
<1>6. CASE MergeStep
  BY <1>6 DEF MergeStep, Join, MergeEntry, EndMerge
<1> QED BY <1>1, <1>2, <1>3, <1>4, <1>5, <1>6, TrainingSteps DEF ThreadStep

LEMMA CounterInvNext ==
  ASSUME TrainInv, [Next]_vars
  PROVE  CounterInv'
<1>1. CASE ResetTraining
  BY <1>1, TrainInvReset DEF TrainInv
<1>2. CASE UNCHANGED trainVars \/ MergeStep
  <2>1. UNCHANGED <<pc, i, progressCounter, done>>
    BY <1>2 DEF trainVars, MergeStep, Join, MergeEntry, EndMerge
  <2> QED BY <2>1, BegunSame DEF TrainInv, CounterInv
<1>3. CASE EnterRegion
  <2>1. UNCHANGED <<i, progressCounter, done>> /\ phase = "idle"
    BY <1>3 DEF EnterRegion
  <2>2. \A t \in Thread : ~Counted(t)' /\ ~Counted(t)
    BY <1>3 DEF EnterRegion, Counted, TrainInv, ThreadInv
  <2> QED BY <2>1, <2>2, BegunStays DEF TrainInv, CounterInv
<1>4. ASSUME NEW t \in Thread, BeginEpisode(t)
      PROVE  CounterInv'
  <2>1. progressCounter' = progressCounter + 1 /\ done' = [done EXCEPT ![t] = progressCounter + 1]
    BY <1>4 DEF BeginEpisode
  <2>2. Cardinality(Begun') = Cardinality(Begun) + 1
    BY <1>4, BegunOneMore DEF TrainInv
  <2>3. Cardinality(Begun') \in 0 .. loopNum
    <3>1. Begun' \in SUBSET Episode
      BY DEF Begun
    <3> QED BY <3>1, BegunFits
  <2> QED BY <2>1, <2>2, <2>3 DEF TrainInv, CounterInv
<1>5. ASSUME NEW t \in Thread, RunEpisode(t)
      PROVE  CounterInv'
  BY <1>5, BegunAfterEpisode DEF TrainInv, CounterInv, RunEpisode
<1>6. ASSUME NEW t \in Thread, CheckProgress(t) \/ Announce(t) \/ LeaveRegion(t)
      PROVE  CounterInv'
  <2>1. UNCHANGED <<i, progressCounter, done>>
    BY <1>6 DEF CheckProgress, Announce, LeaveRegion
  <2>2. \A u \in Thread : Counted(u)' <=> Counted(u)
    BY <1>6 DEF CheckProgress, Announce, LeaveRegion, Counted, TrainInv, ThreadInv
  <2> QED BY <2>1, <2>2, BegunStays DEF TrainInv, CounterInv
<1> QED BY <1>1, <1>2, <1>3, <1>4, <1>5, <1>6, TrainingSteps DEF ThreadStep

LEMMA TableInvNext ==
  ASSUME TrainInv, [Next]_vars
  PROVE  TableInv'
<1>1. CASE ResetTraining
  BY <1>1, TrainInvReset DEF TrainInv
<1>2. CASE UNCHANGED trainVars
  BY <1>2 DEF trainVars, TrainInv, TableInv
<1>3. CASE EnterRegion
  BY <1>3 DEF EnterRegion, TrainInv, TableInv
<1>4. ASSUME NEW t \in Thread, RunEpisode(t)
      PROVE  TableInv'
  <2> DEFINE had == [q |-> Qlocal[t], count |-> countLocal[t]]
             has == LearntFrom(had, lessons[i[t]])
  <2>1. /\ Qlocal' = [Qlocal EXCEPT ![t] = has.q] /\ countLocal' = [countLocal EXCEPT ![t] = has.count]
        /\ UNCHANGED <<phase, unmerged, QTable, QCount>> /\ pc[t] = "episode"
    BY <1>4 DEF RunEpisode, LearntFrom
  <2>2. had \in Knowledge
    BY DEF TrainInv, TableInv
  <2>3. phase = "team" /\ i[t] \in Episode
    <3>1. i[t] \in Nat /\ i[t] < loopNum /\ phase = "team"
      BY <2>1 DEF TrainInv, ThreadInv, Counted
    <3>2. i[t] \in 0 .. loopNum - 1
      BY <3>1, ThreadsAre
    <3> QED BY <3>1, <3>2 DEF Episode
  <2>4. lessons[i[t]] \in Seq(Key \X Int)
    <3>1. lessons \in [Episode -> Seq(Key \X Int)]
      BY <2>3, TrainingAssumption DEF TrainInv, ThreadInv
    <3> QED BY <2>3, <3>1
  <2>5. has \in Knowledge
    BY <2>2, <2>4, LearntFromIs
  <2>6. PICK h \in Knowledge : h = has
    BY <2>5
  <2>7. h = [q |-> h.q, count |-> h.count] /\ h.count \in [Key -> Nat]
    BY DEF Knowledge
  <2> HIDE DEF has, had
  <2>8. countLocal' \in [Thread -> [Key -> Nat]]
    BY <2>1, <2>6, <2>7 DEF TrainInv, TableInv
  <2>9. /\ Qlocal' = [u \in Thread |-> IF u = t THEN h.q ELSE Qlocal[u]]
        /\ countLocal' = [u \in Thread |-> IF u = t THEN h.count ELSE countLocal[u]]
    BY <2>1, <2>6 DEF TrainInv, TableInv
  <2>10. ASSUME NEW u \in Thread
         PROVE  [q |-> Qlocal'[u], count |-> countLocal'[u]] \in Knowledge
    <3>1. CASE u = t
      BY <2>7, <2>9, <3>1
    <3>2. CASE u # t
      BY <2>9, <3>2 DEF TrainInv, TableInv
    <3> QED BY <3>1, <3>2
  <2>11. unmerged' = {}
    BY <2>1, <2>3 DEF TrainInv, TableInv
  <2> QED BY <2>1, <2>3, <2>8, <2>9, <2>10, <2>11 DEF TrainInv, TableInv
<1>5. ASSUME NEW t \in Thread, BeginEpisode(t) \/ CheckProgress(t) \/ Announce(t) \/ LeaveRegion(t)
      PROVE  TableInv'
  BY <1>5 DEF BeginEpisode, CheckProgress, Announce, LeaveRegion, TrainInv, TableInv
<1>6. CASE Join
  <2>1. /\ UNCHANGED <<Qlocal, countLocal, QTable, QCount>> /\ phase' = "merge"
        /\ unmerged' = {e \in Thread \X Key : e[2] \in DOMAIN Qlocal[e[1]]}
    BY <1>6 DEF Join
  <2>2. ASSUME NEW e \in unmerged'
        PROVE  e \in Thread \X Key /\ countLocal[e[1]][e[2]] > 0
    <3>1. PICK t \in Thread, k \in Key : e = <<t, k>> /\ k \in DOMAIN Qlocal[t]
      BY <2>1
    <3>2. PICK h \in Knowledge : h = [q |-> Qlocal[t], count |-> countLocal[t]]
      BY DEF TrainInv, TableInv
    <3>3. h.count[k] > 0
      BY <3>1, <3>2 DEF Knowledge
    <3> QED BY <3>1, <3>2, <3>3
  <2> QED BY <2>1, <2>2 DEF TrainInv, TableInv
<1>7. ASSUME NEW t \in Thread, NEW k \in Key, MergeEntry(t, k)
      PROVE  TableInv'
  <2>1. /\ <<t, k>> \in unmerged /\ unmerged' = unmerged \ {<<t, k>>}
        /\ UNCHANGED <<Qlocal, countLocal>> /\ phase = "merge" /\ phase' = phase
        /\ QTable' = [QTable EXCEPT ![k] =
             (@ * QCount[k] + Qlocal[t][k] * Weight(t, k)) \div (QCount[k] + Weight(t, k))]
        /\ QCount' = [QCount EXCEPT ![k] = @ + Weight(t, k)]
    BY <1>7 DEF MergeEntry
  <2>2. PICK h \in Knowledge : h = [q |-> Qlocal[t], count |-> countLocal[t]]
    BY DEF TrainInv, TableInv
  <2>3. Weight(t, k) \in Nat /\ Weight(t, k) > 0 /\ h.count[k] > 0
    BY <2>1, <2>2 DEF Weight, TrainInv, TableInv
  <2>4. Qlocal[t][k] \in Int
    <3>1. k \in DOMAIN h.q /\ h.q \in UNION {[K -> Int] : K \in SUBSET Key}
      BY <2>3 DEF Knowledge
    <3> QED BY <2>2, <3>1
  <2>5. ASSUME NEW a \in Int, NEW n \in Nat, NEW b \in Int, NEW w \in Nat, w > 0
        PROVE  (a * n + b * w) \div (n + w) \in Int
    <3>1. a * n \in Int /\ b * w \in Int
      OBVIOUS
    <3>2. a * n + b * w \in Int /\ n + w \in Nat \ {0}
      BY <2>5, <3>1
    <3>3. ASSUME NEW c \in Int, NEW d \in Nat \ {0} PROVE c \div d \in Int
      OBVIOUS
    <3> QED BY <3>2, <3>3
  <2>6. QTable[k] \in Int /\ QCount[k] \in Nat
    BY DEF TrainInv, TableInv
  <2>7. (QTable[k] * QCount[k] + Qlocal[t][k] * Weight(t, k)) \div (QCount[k] + Weight(t, k)) \in Int
    BY <2>3, <2>4, <2>5, <2>6
  <2>8. QTable' \in [Key -> Int]
    BY <2>1, <2>7 DEF TrainInv, TableInv
  <2>9. QCount' \in [Key -> Nat]
    <3>1. QCount[k] + Weight(t, k) \in Nat
      BY <2>3, <2>6
    <3> QED BY <2>1, <3>1 DEF TrainInv, TableInv
  <2> QED BY <2>1, <2>8, <2>9 DEF TrainInv, TableInv
<1>8. CASE EndMerge
  BY <1>8 DEF EndMerge, TrainInv, TableInv
<1> QED BY <1>1, <1>2, <1>3, <1>4, <1>5, <1>6, <1>7, <1>8, TrainingSteps DEF ThreadStep, MergeStep

LEMMA TrainInvNext == TrainInv /\ [Next]_vars => TrainInv'
  BY ThreadInvNext, CounterInvNext, TableInvNext DEF TrainInv

-----------------------------------------------------------------------------
(***************************************************************************)
(* The types of the whole.                                                 *)
(***************************************************************************)

\* A construction that is to train was let in below the bound.
TypeInv ==
  /\ \A t \in trained : IsTable(t)
  /\ call \in Calls
  /\ trainings \in 0 .. MaxTrainings
  /\ call.at = "prepare" /\ options[call.obj].train_online => trainings < MaxTrainings

AllInv == ModelInv /\ TrainInv /\ ProgressInv /\ TypeInv

LEMMA CallsAre ==
  ASSUME NEW o \in Object
  PROVE  /\ NoCall \in Calls
         /\ \A ok \in BOOLEAN : Constructed(o, ok) \in Calls
         /\ \A at \in {"prepare", "train", "build"} : [at |-> at, obj |-> o] \in Calls
         /\ \A path \in Path, c \in BOOLEAN :
              [at |-> "open", obj |-> o, path |-> path, construct |-> c] \in Calls
         /\ \A path \in Path, c \in BOOLEAN, n \in Nat :
              [at |-> "write", obj |-> o, path |-> path, construct |-> c, n |-> n] \in Calls
BY DEF Calls, NoCall, Constructed

LEMMA CallTypeNext ==
  ASSUME AllInv, [Next]_vars
  PROVE  call' \in Calls
<1> USE DEF AllInv, ModelInv, ConstructionInv, TypeInv, CallFields
<1>1. ASSUME NEW o \in Object, ConstructClassifierSafe(o) PROVE call' \in Calls
  BY <1>1, CallsAre DEF ConstructClassifierSafe
<1>2. ASSUME NEW o \in Object, ConstructBaseline(o) PROVE call' \in Calls
  BY <1>2, CallsAre DEF ConstructBaseline
<1>3. ASSUME NEW o \in Object, NEW path \in Path, LoadQTable(o, path) \/ SaveQTable(o, path)
      PROVE  call' \in Calls
  BY <1>3, CallsAre DEF LoadQTable, Load, SaveQTable
<1>4. CASE RefuseOptions \/ BuildTree
  BY <1>4, CallsAre DEF RefuseOptions, BuildTree
<1>5. CASE StartTraining
  BY <1>5, CallsAre DEF StartTraining
<1>6. CASE EndTraining
  <2>1. PICK o \in Object : o = call.obj
    BY <1>6 DEF EndTraining
  <2>2. CASE options[o].out = NoPath
    <3>1. call' = [at |-> "build", obj |-> o]
      BY <1>6, <2>1, <2>2 DEF EndTraining
    <3> QED BY <3>1, CallsAre
  <2>3. CASE options[o].out # NoPath
    <3>1. call' = [at |-> "open", obj |-> o, path |-> options[o].out, construct |-> TRUE]
      BY <1>6, <2>1, <2>3 DEF EndTraining
    <3>2. PICK p \in Path : p = options[o].out
      BY <2>3, HybridAssumption
    <3> QED BY <3>1, <3>2, CallsAre
  <2> QED BY <2>2, <2>3
<1>7. CASE PrepareByLoading
  <2>1. PICK o \in Object : o = call.obj
    BY <1>7 DEF PrepareByLoading
  <2>2. call' = [at |-> "build", obj |-> o] \/ call' = Constructed(o, FALSE)
    BY <1>7, <2>1 DEF PrepareByLoading, Load
  <2>3. CASE call' = [at |-> "build", obj |-> o]
    BY <2>3, CallsAre
  <2> QED BY <2>2, <2>3, CallsAre
<1>8. CASE OpenFile
  BY <1>8, CallsAre DEF OpenFile
<1>9. CASE OpenFails \/ WriteFails \/ CloseFile
  BY <1>9, CallsAre DEF OpenFails, WriteFails, CloseFile, EndSave
<1>10. CASE WriteBlock
  <2>1. call' = [at |-> "write", obj |-> call.obj, path |-> call.path,
                 construct |-> call.construct, n |-> call.n + 1]
    BY <1>10 DEF WriteBlock
  <2>2. call.obj \in Object /\ call.path \in Path /\ call.construct \in BOOLEAN /\ call.n + 1 \in Nat
    BY <1>10 DEF WriteBlock
  <2> QED BY <2>1, <2>2, CallsAre
<1>11. CASE Training \/ vars' = vars
  BY <1>11 DEF Training, vars
<1>12. CASE Crash
  BY <1>12 DEF Crash, Calls
<1> QED
  BY <1>1, <1>2, <1>3, <1>4, <1>5, <1>6, <1>7, <1>8, <1>9, <1>10, <1>11, <1>12 DEF Next, Call, CallStep

LEMMA TypeInvNext ==
  ASSUME AllInv, [Next]_vars
  PROVE  TypeInv'
<1>1. call' \in Calls
  BY CallTypeNext
<1>2. options' = options
  BY DEF Next, Call, CallStep, ConstructClassifierSafe, ConstructBaseline, LoadQTable, Load, SaveQTable,
     RefuseOptions, StartTraining, EndTraining, PrepareByLoading, BuildTree, OpenFile, OpenFails, EndSave,
     WriteBlock, WriteFails, CloseFile, Training, Crash, objectVars, vars
<1>3. ASSUME NEW t \in trained' PROVE IsTable(t)'
  <2>1. CASE t \in trained
    BY <1>2, <2>1 DEF AllInv, TypeInv, IsTable
  <2>2. CASE t \notin trained
    <3>1. EndTraining
      BY <2>2 DEF Next, Call, CallStep, ConstructClassifierSafe, ConstructBaseline, LoadQTable, Load,
         SaveQTable, RefuseOptions, StartTraining, PrepareByLoading, BuildTree, OpenFile, OpenFails,
         EndSave, WriteBlock, WriteFails, CloseFile, Training, Crash, historyVars, vars
    <3>2. t = [bits |-> options[call.obj].bits, q |-> QTable] /\ call.obj \in Object
      BY <2>2, <3>1 DEF EndTraining, AllInv, ModelInv, ConstructionInv, CallFields
    <3>3. QTable \in [Key -> Int]
      BY DEF AllInv, TrainInv, TableInv
    <3> QED BY <1>2, <3>2, <3>3 DEF IsTable
  <2> QED BY <2>1, <2>2
<1>4. /\ trainings' \in 0 .. MaxTrainings
      /\ call'.at = "prepare" /\ options'[call'.obj].train_online => trainings' < MaxTrainings
  <2>1. MaxTrainings \in Nat
    BY HybridAssumption
  <2>2. CASE StartTraining
    BY <2>1, <2>2 DEF StartTraining, AllInv, TypeInv
  <2>3. ASSUME NEW o \in Object, ConstructClassifierSafe(o)
        PROVE  trainings' = trainings /\ (options'[call'.obj].train_online => trainings < MaxTrainings)
    BY <2>3 DEF ConstructClassifierSafe, historyVars
  <2>4. CASE ~StartTraining /\ \A o \in Object : ~ConstructClassifierSafe(o)
    <3>1. trainings' = trainings
      BY <2>4 DEF Next, Call, CallStep, ConstructBaseline, LoadQTable, Load, SaveQTable,
         RefuseOptions, EndTraining, PrepareByLoading, BuildTree, OpenFile, OpenFails, EndSave,
         WriteBlock, WriteFails, CloseFile, Training, Crash, historyVars, vars
    <3>2. call'.at # "prepare" \/ call' = call
      BY <2>4 DEF Next, Call, CallStep, ConstructBaseline, LoadQTable, Load, SaveQTable,
         RefuseOptions, EndTraining, PrepareByLoading, BuildTree, OpenFile, OpenFails, EndSave,
         WriteBlock, WriteFails, CloseFile, Training, Crash, Constructed, NoCall, vars,
         AllInv, ModelInv, ConstructionInv, CallFields
    <3> QED BY <1>2, <3>1, <3>2 DEF AllInv, TypeInv
  <2> QED BY <2>2, <2>3, <2>4, <1>2 DEF AllInv, TypeInv
<1> QED BY <1>1, <1>3, <1>4 DEF TypeInv

LEMMA AllInvNext == AllInv /\ [Next]_vars => AllInv'
  BY ModelInvNext, TrainInvNext, ProgressInvNext, TypeInvNext DEF AllInv

LEMMA AllInvInit == Init => AllInv
<1> SUFFICES ASSUME Init PROVE AllInv
  OBVIOUS
<1>1. TrainInv
  BY TrainInvInit DEF Init
<1>2. ProgressInv
  BY TrainingAssumption DEF Init, TrainInit, ProgressInv, ProgressIsHonest
<1>3. TypeInv
  BY HybridAssumption DEF Init, TypeInv, NoCall, Calls
<1> QED BY <1>1, <1>2, <1>3, ModelInvInit DEF AllInv

\* Every variable of objects, files and trainings has its type: the counters of
\* a training stay within its episodes, a thread's values are of keys it has
\* met, and no quotient of the merge has a divisor of zero (HybridTSS::train).
THEOREM TypeCorrect == Spec => []TypeOK
<1>1. ASSUME AllInv PROVE TypeOK
  <2>1. TrainTypeOK
    <3>1. /\ ThreadInv /\ TableInv /\ nextPrint \in Nat /\ announced \in Nat
          /\ done \in [Thread -> 0 .. loopNum]
      BY <1>1 DEF AllInv, TrainInv, CounterInv, ProgressInv
    <3>2. progressCounter \in 0 .. loopNum
      <4>1. Begun \in SUBSET Episode
        BY DEF Begun
      <4> QED BY <1>1, <4>1, BegunFits DEF AllInv, TrainInv, CounterInv
    <3>3. ASSUME NEW t \in Thread
          PROVE  DOMAIN Qlocal[t] \subseteq Key /\ Range(Qlocal[t]) \subseteq Int
      <4>1. PICK h \in Knowledge : h = [q |-> Qlocal[t], count |-> countLocal[t]]
        BY <3>1 DEF TableInv
      <4>2. PICK K \in SUBSET Key : h.q \in [K -> Int]
        BY DEF Knowledge
      <4> QED BY <4>1, <4>2 DEF Range
    <3> QED BY <3>1, <3>2, <3>3 DEF TrainTypeOK, ThreadInv, TableInv
  <2>2. ASSUME NEW o \in Object
        PROVE  /\ root[o] \in {NoTree, Baseline} \/ IsTable(root[o].table)
               /\ table[o] = NoTable \/ IsTable(table[o])
    BY <1>1 DEF AllInv, ModelInv, TablesInv, OnlyTrainedTables, Trained, TypeInv
  <2>3. /\ qtable_loaded_ \in [Object -> BOOLEAN] /\ last_error_ \in [Object -> BOOLEAN]
        /\ options \in Options /\ DOMAIN file = Path
    BY <1>1 DEF AllInv, ModelInv, ConstructionInv, FilesInv
  <2> QED BY <1>1, <2>1, <2>2, <2>3 DEF AllInv, TypeInv, TypeOK
<1> QED BY <1>1, AllInvInit, AllInvNext, PTL DEF Spec

-----------------------------------------------------------------------------
(***************************************************************************)
(* What a training counts.                                                 *)
(***************************************************************************)

\* The values the lessons have for a key, each named by its episode and place.
Values(k) ==
  {v \in UNION {{e} \X DOMAIN lessons[e] : e \in Episode} : lessons[v[1]][v[2]][1] = k}

\* Those a thread has learnt, and those that are in the merged table.
LearntBy(t, k) == {v \in Values(k) : v[1] % NumThreads = t /\ v[1] < i[t]}

Merged(k) ==
  {v \in Values(k) : /\ v[1] < i[v[1] % NumThreads]
                     /\ <<v[1] % NumThreads, k>> \notin unmerged}

\* A thread has counted what it has learnt, and the merge what it has taken.  A
\* thread that was not in the team has not begun, one that has left has run all
\* of its stripe.
CountInv ==
  /\ phase = "idle" => /\ i = [t \in Thread |-> t] /\ countLocal = [t \in Thread |-> Zero]
  /\ phase \in {"idle", "team"} => QCount = Zero
  /\ phase # "idle" => \A t \in Thread :
       /\ t \notin team => i[t] = t
       /\ t \in team /\ pc[t] = "out" => i[t] >= loopNum
       /\ \A k \in Key : /\ IsFiniteSet(LearntBy(t, k))
                         /\ countLocal[t][k] = Cardinality(LearntBy(t, k))
  /\ phase \in {"merge", "trained"} => \A k \in Key :
       IsFiniteSet(Merged(k)) /\ QCount[k] = Cardinality(Merged(k))

LEMMA ValueIs ==
  ASSUME NEW k \in Key, NEW v \in Values(k)
  PROVE  \E e \in Episode : \E p \in DOMAIN lessons[e] : v = <<e, p>> /\ lessons[e][p][1] = k
BY DEF Values

\* A thread that has not begun has learnt nothing.
LEMMA NothingLearnt ==
  ASSUME NEW t \in Thread, NEW e \in Episode, e % NumThreads = t
  PROVE  ~(e < t)
<1>1. e \in Nat /\ t \in Nat
  BY ThreadsAre
<1>2. t <= e
  BY <1>1, ThreadsAre, Remainder
<1> QED BY <1>1, <1>2

LEMMA DisjointUnion ==
  ASSUME NEW A, NEW B, IsFiniteSet(A), IsFiniteSet(B), A \cap B = {}
  PROVE  IsFiniteSet(A \cup B) /\ Cardinality(A \cup B) = Cardinality(A) + Cardinality(B)
<1>1. Cardinality(A) \in Nat /\ Cardinality(B) \in Nat /\ Cardinality({}) = 0
  BY FS_CardinalityType, FS_EmptySet
<1>2. /\ IsFiniteSet(A \cup B)
      /\ Cardinality(A \cup B) = Cardinality(A) + Cardinality(B) - Cardinality(A \cap B)
  BY FS_Union
<1>3. Cardinality(A \cap B) = 0
  BY <1>1, Zenon
<1>4. \A a, b \in Nat : a + b - 0 = a + b
  OBVIOUS
<1> QED BY <1>1, <1>2, <1>3, <1>4, Zenon

\* An episode adds its lessons to what its thread has counted.
LEMMA EpisodeCounts ==
  ASSUME TrainInv, CountInv, NEW t \in Thread, RunEpisode(t)
  PROVE  \A u \in Thread, k \in Key :
           /\ IsFiniteSet(LearntBy(u, k)')
           /\ countLocal'[u][k] = Cardinality(LearntBy(u, k)')
<1>1. PICK e : e = i[t]
  OBVIOUS
<1>2. PICK had : had = [q |-> Qlocal[t], count |-> countLocal[t]]
  OBVIOUS
<1>3. PICK has : has = LearntFrom(had, lessons[e])
  OBVIOUS
<1>4. /\ countLocal' = [countLocal EXCEPT ![t] = has.count] /\ lessons' = lessons
      /\ i' = [i EXCEPT ![t] = e + NumThreads] /\ pc[t] = "episode"
  BY <1>1, <1>2, <1>3 DEF RunEpisode, LearntFrom, NextOf
<1>5. /\ phase = "team" /\ e \in Episode /\ e \in Nat /\ e % NumThreads = t
      /\ lessons \in [Episode -> Seq(Key \X Int)]
  <2>1. phase = "team" /\ e \in Nat /\ e < loopNum /\ e % NumThreads = t /\ lessons \in Lessons
    BY <1>1, <1>4 DEF TrainInv, ThreadInv, Counted
  <2>2. e \in 0 .. loopNum - 1
    BY <2>1, ThreadsAre
  <2> QED BY <2>1, <2>2, TrainingAssumption DEF Episode
<1>6. had \in Knowledge /\ had.count = countLocal[t]
  BY <1>2 DEF TrainInv, TableInv
<1>7. /\ i \in [Thread -> Nat] /\ countLocal \in [Thread -> [Key -> Nat]]
  BY DEF TrainInv, ThreadInv, TableInv
<1>8. ASSUME NEW k \in Key PROVE Values(k)' = Values(k)
  BY <1>4 DEF Values
<1>9. ASSUME NEW u \in Thread, NEW k \in Key, u # t
      PROVE  /\ IsFiniteSet(LearntBy(u, k)')
             /\ countLocal'[u][k] = Cardinality(LearntBy(u, k)')
  <2>1. LearntBy(u, k)' = LearntBy(u, k)
    BY <1>4, <1>7, <1>8, <1>9 DEF LearntBy
  <2>2. countLocal'[u][k] = countLocal[u][k]
    BY <1>4, <1>7, <1>9
  <2> QED BY <1>5, <2>1, <2>2 DEF CountInv
<1>10. ASSUME NEW k \in Key
      PROVE  /\ IsFiniteSet(LearntBy(t, k)')
             /\ countLocal'[t][k] = Cardinality(LearntBy(t, k)')
  <2> DEFINE A == LearntBy(t, k)
             B == LessonsOf(e, lessons[e], DOMAIN lessons[e], k)
  <2>1. IsFiniteSet(B) /\ has.count[k] = countLocal[t][k] + Cardinality(B)
    <3>1. PICK lesson \in Seq(Key \X Int) : lesson = lessons[e]
      BY <1>5
    <3>2. PICK C : C = LessonsOf(e, lesson, DOMAIN lesson, k)
      OBVIOUS
    <3>3. IsFiniteSet(C) /\ LearntFrom(had, lesson).count[k] = had.count[k] + Cardinality(C)
      BY <1>6, <3>2, LearntFromIs
    <3>4. has = LearntFrom(had, lesson) /\ B = C
      BY <1>3, <3>1, <3>2
    <3> QED BY <1>6, <3>3, <3>4, Zenon
  <2>2. IsFiniteSet(A) /\ countLocal[t][k] = Cardinality(A)
    BY <1>5 DEF CountInv
  <2>3. i'[t] = e + NumThreads
    BY <1>4, <1>7
  <2>4. \A d \in Episode : d % NumThreads = t => (d < i'[t] <=> d < e \/ d = e)
    <3>1. \A d \in Nat : e < d /\ d % NumThreads = t => e + NumThreads <= d
      BY <1>5, ThreadsAre, Remainder
    <3>2. \A d \in Episode : d \in Nat
      BY ThreadsAre
    <3>3. NumThreads \in Nat \ {0}
      BY ThreadsAre
    <3>4. ASSUME NEW d \in Episode, d % NumThreads = t
          PROVE  d < e + NumThreads <=> d < e \/ d = e
      <4>1. d \in Nat /\ (e < d => e + NumThreads <= d)
        BY <3>1, <3>2, <3>4
      <4> QED BY <1>5, <3>3, <4>1
    <3> QED BY <2>3, <3>4
  <2>5. LearntBy(t, k)' = A \cup B
    <3>1. LearntBy(t, k)' = {v \in Values(k) : v[1] % NumThreads = t /\ v[1] < i'[t]}
      BY <1>8 DEF LearntBy
    <3>2. ASSUME NEW v \in LearntBy(t, k)' PROVE v \in A \cup B
      <4>1. v \in Values(k) /\ v[1] % NumThreads = t /\ v[1] < i'[t]
        BY <3>1, <3>2
      <4>2. PICK d \in Episode : \E p \in DOMAIN lessons[d] : v = <<d, p>> /\ lessons[d][p][1] = k
        BY <4>1, ValueIs
      <4>3. d < e \/ d = e
        BY <2>4, <4>1, <4>2
      <4> QED BY <1>1, <4>1, <4>2, <4>3 DEF LearntBy, LessonsOf
    <3>3. ASSUME NEW v \in A PROVE v \in LearntBy(t, k)'
      <4>1. v \in Values(k) /\ v[1] % NumThreads = t /\ v[1] < e
        BY <1>1, <3>3 DEF LearntBy
      <4>2. v[1] \in Episode
        BY <4>1, ValueIs
      <4> QED BY <2>4, <3>1, <4>1, <4>2
    <3>4. ASSUME NEW v \in B PROVE v \in LearntBy(t, k)'
      <4>1. PICK p \in DOMAIN lessons[e] : v = <<e, p>> /\ lessons[e][p][1] = k
        BY <3>4 DEF LessonsOf
      <4>2. v \in Values(k)
        BY <1>5, <4>1 DEF Values
      <4>3. v[1] = e
        BY <4>1
      <4> QED BY <1>5, <2>4, <3>1, <4>2, <4>3
    <3> QED BY <3>2, <3>3, <3>4
  <2>6. A \cap B = {}
    <3> SUFFICES ASSUME NEW v \in A, v \in B PROVE FALSE
      OBVIOUS
    <3>1. v[1] < e
      BY <1>1 DEF LearntBy
    <3>2. v[1] = e
      BY DEF LessonsOf
    <3> QED BY <1>5, <3>1, <3>2
  <2>7. countLocal'[t][k] = has.count[k]
    BY <1>4, <1>7
  <2> HIDE DEF A, B
  <2> QED BY <2>1, <2>2, <2>5, <2>6, <2>7, DisjointUnion
<1> QED BY <1>9, <1>10

\* Nothing that is counted changes while threads move and none ends an episode.
LEMMA CountsStay ==
  ASSUME UNCHANGED <<lessons, i>>
  PROVE  /\ \A k \in Key : Values(k)' = Values(k)
         /\ \A t \in Thread, k \in Key : LearntBy(t, k)' = LearntBy(t, k)
BY DEF Values, LearntBy

\* The join: no entry is merged, and all that was learnt has one.
LEMMA JoinCounts ==
  ASSUME TrainInv, CountInv, Join
  PROVE  CountInv'
<1>1. /\ UNCHANGED <<lessons, team, pc, i, countLocal, QCount>> /\ phase = "team" /\ phase' = "merge"
      /\ unmerged' = {e \in Thread \X Key : e[2] \in DOMAIN Qlocal[e[1]]}
  BY DEF Join
<1>2. ASSUME NEW k \in Key
      PROVE  Merged(k)' = {}
  <2> SUFFICES ASSUME NEW v \in Merged(k)' PROVE FALSE
    OBVIOUS
  <2>1. v \in Values(k) /\ v[1] < i[v[1] % NumThreads] /\ <<v[1] % NumThreads, k>> \notin unmerged'
    BY <1>1, CountsStay DEF Merged
  <2>2. v[1] \in Episode
    BY <2>1, ValueIs
  <2>3. PICK t \in Thread : t = v[1] % NumThreads
    BY <2>2, ThreadsAre
  <2>4. v \in LearntBy(t, k)
    BY <2>1, <2>3 DEF LearntBy
  <2>5. IsFiniteSet(LearntBy(t, k)) /\ countLocal[t][k] = Cardinality(LearntBy(t, k))
    BY <1>1 DEF CountInv
  <2>6. countLocal[t][k] \in Nat /\ countLocal[t][k] # 0
    BY <2>4, <2>5, FS_CardinalityType, FS_EmptySet
  <2>7. PICK h \in Knowledge : h = [q |-> Qlocal[t], count |-> countLocal[t]]
    BY DEF TrainInv, TableInv
  <2>8. k \in DOMAIN Qlocal[t]
    BY <2>6, <2>7 DEF Knowledge
  <2>9. <<t, k>> \in unmerged'
    BY <1>1, <2>8
  <2> QED BY <2>1, <2>3, <2>9
<1>3. \A k \in Key : IsFiniteSet(Merged(k)') /\ QCount'[k] = Cardinality(Merged(k)')
  BY <1>1, <1>2, FS_EmptySet DEF CountInv, Zero
<1> QED BY <1>1, <1>3, CountsStay DEF CountInv

\* An entry brings what its thread has learnt of its key.
LEMMA MergeCounts ==
  ASSUME TrainInv, CountInv, NEW t \in Thread, NEW k \in Key, MergeEntry(t, k)
  PROVE  CountInv'
<1>1. /\ UNCHANGED <<phase, lessons, team, pc, i, countLocal>> /\ phase = "merge"
      /\ <<t, k>> \in unmerged /\ unmerged' = unmerged \ {<<t, k>>}
      /\ QCount' = [QCount EXCEPT ![k] = @ + countLocal[t][k]]
  BY DEF MergeEntry, Weight
<1>2. QCount \in [Key -> Nat]
  BY DEF TrainInv, TableInv
<1>3. ASSUME NEW l \in Key, l # k
      PROVE  IsFiniteSet(Merged(l)') /\ QCount'[l] = Cardinality(Merged(l)')
  <2>1. Merged(l)' = Merged(l)
    BY <1>1, <1>3, CountsStay DEF Merged
  <2>2. QCount'[l] = QCount[l]
    BY <1>1, <1>2, <1>3
  <2> QED BY <1>1, <2>1, <2>2 DEF CountInv
<1>4. IsFiniteSet(Merged(k)') /\ QCount'[k] = Cardinality(Merged(k)')
  <2> DEFINE A == Merged(k)
             B == LearntBy(t, k)
  <2>1. IsFiniteSet(A) /\ QCount[k] = Cardinality(A)
    BY <1>1 DEF CountInv
  <2>2. IsFiniteSet(B) /\ countLocal[t][k] = Cardinality(B)
    BY <1>1 DEF CountInv
  <2>3. Merged(k)' = A \cup B
    BY <1>1, CountsStay DEF Merged, LearntBy
  <2>4. A \cap B = {}
    BY <1>1 DEF Merged, LearntBy
  <2>5. QCount'[k] = QCount[k] + countLocal[t][k]
    BY <1>1, <1>2
  <2> HIDE DEF A, B
  <2> QED BY <2>1, <2>2, <2>3, <2>4, <2>5, DisjointUnion
<1>5. \A l \in Key : IsFiniteSet(Merged(l)') /\ QCount'[l] = Cardinality(Merged(l)')
  BY <1>3, <1>4
<1> QED BY <1>1, <1>5, CountsStay DEF CountInv

LEMMA CountInvNext == TrainInv /\ CountInv /\ [Next]_vars => CountInv'
<1> SUFFICES ASSUME TrainInv, CountInv, [Next]_vars PROVE CountInv'
  OBVIOUS
<1>1. CASE ResetTraining
  BY <1>1 DEF ResetTraining, CountInv
<1>2. CASE UNCHANGED trainVars
  BY <1>2 DEF trainVars, CountInv, LearntBy, Values, Merged
<1>3. CASE EnterRegion
  <2>1. /\ phase' = "team" /\ i' = [t \in Thread |-> t] /\ countLocal' = [t \in Thread |-> Zero]
        /\ QCount' = Zero
    BY <1>3 DEF EnterRegion, CountInv
  <2>2. \A t \in Thread : t \in team' => pc'[t] = "begin"
    BY <1>3, ThreadsAre DEF EnterRegion
  <2>3. ASSUME NEW t \in Thread, NEW k \in Key
        PROVE  LearntBy(t, k)' = {} /\ countLocal'[t][k] = 0
    <3>1. countLocal'[t][k] = 0
      BY <2>1 DEF Zero
    <3>2. ASSUME NEW v \in LearntBy(t, k)' PROVE FALSE
      <4>1. v[1] \in Episode /\ v[1] % NumThreads = t /\ v[1] < t
        BY <2>1, <3>2 DEF LearntBy, Values
      <4> QED BY <4>1, NothingLearnt
    <3> QED BY <3>1, <3>2
  <2> QED BY <2>1, <2>2, <2>3, FS_EmptySet DEF CountInv
<1>4. ASSUME NEW t \in Thread, RunEpisode(t)
      PROVE  CountInv'
  <2>1. /\ UNCHANGED <<phase, lessons, team, QCount>> /\ pc[t] = "episode"
        /\ pc' = [pc EXCEPT ![t] = "begin"] /\ i' = [i EXCEPT ![t] = NextOf(t)]
    BY <1>4 DEF RunEpisode
  <2>2. phase = "team" /\ t \in team
    BY <2>1 DEF TrainInv, ThreadInv
  <2>3. ASSUME NEW u \in Thread
        PROVE  /\ u \notin team => i'[u] = u
               /\ u \in team /\ pc'[u] = "out" => i'[u] >= loopNum
    BY <2>1, <2>2 DEF CountInv, TrainInv, ThreadInv
  <2>4. \A u \in Thread, k \in Key :
           /\ IsFiniteSet(LearntBy(u, k)')
           /\ countLocal'[u][k] = Cardinality(LearntBy(u, k)')
    BY <1>4, EpisodeCounts
  <2> QED BY <2>1, <2>2, <2>3, <2>4 DEF CountInv
<1>5. ASSUME NEW t \in Thread, BeginEpisode(t) \/ CheckProgress(t) \/ Announce(t) \/ LeaveRegion(t)
      PROVE  CountInv'
  <2>1. UNCHANGED <<phase, lessons, team, i, countLocal, QCount>> /\ pc[t] # "out"
    BY <1>5 DEF BeginEpisode, CheckProgress, Announce, LeaveRegion
  <2>2. phase = "team"
    BY <2>1 DEF TrainInv, ThreadInv
  <2>3. \A u \in Thread : u \in team /\ pc'[u] = "out" => i[u] >= loopNum
    BY <1>5, <2>2 DEF BeginEpisode, CheckProgress, Announce, LeaveRegion, CountInv, TrainInv, ThreadInv
  <2> QED BY <2>1, <2>2, <2>3, CountsStay DEF CountInv
<1>6. CASE EndMerge
  <2>1. UNCHANGED <<lessons, team, pc, i, countLocal, unmerged, QCount>>
        /\ phase = "merge" /\ phase' = "trained"
    BY <1>6 DEF EndMerge
  <2>2. \A k \in Key : Merged(k)' = Merged(k)
    BY <2>1, CountsStay DEF Merged
  <2> QED BY <2>1, <2>2, CountsStay DEF CountInv
<1> QED BY <1>1, <1>2, <1>3, <1>4, <1>5, <1>6, JoinCounts, MergeCounts, TrainingSteps
        DEF ThreadStep, MergeStep

\* Every value learnt for a key is counted once in the merged table, however many
\* threads there are, whatever team the region is given and in whatever order
\* threads and merge go on (HybridTSS::train).
THEOREM EveryValueCountsAlways == Spec => []EveryValueCounts
<1>1. Init => CountInv
  BY DEF Init, TrainInit, CountInv
<1>2. ASSUME TrainInv, CountInv PROVE EveryValueCounts
  <2> SUFFICES ASSUME phase = "trained", NEW k \in Key
               PROVE  QCount[k] = Cardinality(ValuesOf(k))
    BY DEF EveryValueCounts
  <2>1. unmerged = {} /\ QCount[k] = Cardinality(Merged(k))
    BY <1>2 DEF TrainInv, TableInv, CountInv
  <2>2. ASSUME NEW e \in Episode
        PROVE  e < i[e % NumThreads] <=> e % NumThreads \in team
    <3>1. PICK t \in Thread : t = e % NumThreads
      BY ThreadsAre
    <3>2. e \in Nat /\ e < loopNum /\ loopNum \in Nat
      BY ThreadsAre DEF Episode
    <3>3. CASE t \in team
      <4>1. i[t] >= loopNum /\ i[t] \in Nat
        BY <1>2, <3>3 DEF CountInv, TrainInv, ThreadInv
      <4> QED BY <3>1, <3>2, <3>3, <4>1
    <3>4. CASE t \notin team
      <4>1. i[t] = t
        BY <1>2, <3>4 DEF CountInv
      <4> QED BY <3>1, <3>4, <4>1, NothingLearnt
    <3> QED BY <3>3, <3>4
  <2>3. Merged(k) = ValuesOf(k)
    BY <2>1, <2>2 DEF Merged, Values, ValuesOf, EpisodesRun
  <2> QED BY <2>1, <2>3
<1>3. Init => TrainInv
  BY TrainInvInit DEF Init
<1> QED BY <1>1, <1>2, <1>3, TrainInvNext, CountInvNext, PTL DEF Spec

=============================================================================
