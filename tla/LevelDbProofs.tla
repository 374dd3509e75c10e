--------------------------- MODULE LevelDbProofs ----------------------------
(***************************************************************************)
(* Theorems about LevelDb, for any number of writers, readers, operations, *)
(* crashes and faults, and any sizes of memtables and of level 0.          *)
(* LevelDbInv states the inductive invariant Inv, which LevelDbSteps shows *)
(* the steps preserve; LevelDbSequence does both for a second one, SeqInv, *)
(* that rests on the first.                                                *)
(***************************************************************************)
EXTENDS LevelDbSteps, LevelDbSequence, FiniteSetTheorems

(* A writer waits for room: the stop count of level 0 is not below the     *)
(* trigger, so there is work for the background thread that wakes it.      *)
LEMMA WaitForRoomStep ==
  ASSUME Inv, NEW w \in Writers, WaitForRoom(w)
  PROVE  Inv'
<1> USE DEF WaitForRoom
<1>1. proc = "up" /\ wst[w] \in Active
  BY ZenonT(40), WriterUp DEF Active
<1>2. Forms' /\ Running /\ DiskOK /\ bg'.at \in BgStages
  BY Zenon, <1>1 DEF Inv, Forms, LogsForm, TablesForm, ManForm, MemForm, ReaderForm, files,
              memVars, bgVars
<1>3. /\ QueueOK' /\ wst'[w] = "waiting"
      /\ \A v \in Writers : v # w => wst'[v] = wst[v] /\ wst[v] \in {"idle", "asleep"}
  BY ZenonT(40), <1>1, HeadMoves DEF Active, Grouped, Inv, QueueOK
<1>4. HasWork(imm, vs)
  <2>1. CASE imm # 0
    BY Zenon, <2>1 DEF HasWork
  <2>2. CASE Cardinality(vs.l0) >= L0Stop
    <3>1. Cardinality(vs.l0) \in Nat
      BY Zenon, FS_CardinalityType DEF Inv, Forms, VsRec
    <3>2. QED
      BY <2>2, <3>1, LevelDbAssumption DEF HasWork, NeedsL0
  <2>3. QED
    BY Zenon, <2>1, <2>2 DEF MustWait
<1>5. SchedOK'
  BY ZenonT(40), <1>1, <1>4 DEF Inv, SchedOK, memVars, bgVars, HasWork, NeedsL0
<1>6. VersionOK' /\ MemsOK' /\ ReadersOK' /\ BuildOK' /\ MergeOK' /\ EditOK' /\ DiskOK'
  BY Zenon, <1>2, FilesFrame DEF Running, files, memVars, bgVars
<1>7. InMemory' /\ EditKeeps'
  BY Zenon, <1>2, KeepFrame DEF Running, files, memVars, bgVars, history
<1>8. MemHolds' /\ GroupOK'
  BY ZenonT(40), <1>2, <1>3, GroupFrame DEF Running, files, memVars, history, LoggedOps
<1>9. QED
  BY ZenonT(40), <1>1, <1>2, <1>3, <1>5, <1>6, <1>7, <1>8, UpStep DEF Running, files

(* Every step of a writer preserves the invariant.                         *)
LEMMA WriterStep ==
  ASSUME Inv, NEW w \in Writers, WriteStep(w)
  PROVE  Inv'
BY Zenon, JoinQueueStep, WaitForRoomStep, SwitchMemTableStep, SwitchFailsStep, BuildBatchGroupStep,
   AddRecordStep, AddRecordFailsStep, InsertIntoStep, FinishWriteStep
   DEF WriteStep
-----------------------------------------------------------------------------
(* The invariant holds at the start and every step preserves it.           *)
LEMMA InitInv ==
  ASSUME Init
  PROVE  Inv
<1>1. VsRec(NoVersion) /\ RecovRec(NoRecov)
  BY NoneFinite DEF VsRec, RecovRec, NoVersion, NoRecov, Pos
<1>2. LogsForm /\ TablesForm /\ ManForm /\ MemForm /\ ReaderForm
  BY Zenon DEF Init, LogsForm, TablesForm, ManForm, MemForm, ReaderForm, ReaderRec
<1>3. Forms
  BY Zenon, <1>1, <1>2, NoBgIs DEF Init, Forms
<1>4. QueueOK
  BY DEF Init, QueueOK, Grouped
<1>5. Quiet /\ SchedOK /\ bg.at \in BgStages
  BY Zenon, NoBgIs DEF Init, Quiet, SchedOK, BgStages
<1>6. DiskOK /\ StartOK
  BY Zenon DEF Init, DiskOK, StartOK
<1>7. QED
  BY ZenonT(60), <1>3, <1>4, <1>5, <1>6 DEF Init, Inv, Stages

LEMMA InvStutters ==
  ASSUME Inv, UNCHANGED vars
  PROVE  Inv'
<1>1. UNCHANGED <<logs, tables, manifests, current, proc, vs, mem, imm, memtabs,
                  writers_, wst, op, group, pending, sched, bg, recov, reader,
                  acked, excused>>
  BY ZenonT(40) DEF vars, files, memVars, writeVars, bgVars, history
<1>2. Forms'
  BY ZenonT(60), <1>1 DEF Inv, Forms, LogsForm, TablesForm, ManForm, MemForm, ReaderForm
<1>3. QueueOK' /\ Quiet' /\ DiskOK'
  BY ZenonT(60), <1>1 DEF Inv, QueueOK, Quiet, DiskOK, Man
<1>4. SchedOK'
  BY Zenon, <1>1 DEF Inv, SchedOK, HasWork, NeedsL0
<1>5. StartOK'
  BY ZenonT(40), <1>1 DEF Inv, StartOK, Recoverable, Man, LogsFrom
<1>6. proc = "replay" => Replaying'
  BY ZenonT(40), <1>1 DEF Inv, Replaying, Man, LogsFrom
<1>7. proc \in {"manifest", "install"} => Opening'
  BY Zenon, <1>1 DEF Inv, Opening, Opened
<1>8. proc = "up" => Running'
  <2>1. UNCHANGED <<Version, NextL0, NextLow, Man, Editing, Reading, LoggedOps>>
    BY ZenonT(60), <1>1 DEF Version, NextL0, NextLow, Man, Editing, Reading, LoggedOps
  <2>2. proc = "up" => VersionOK' /\ MemsOK' /\ ReadersOK' /\ BuildOK' /\ MergeOK' /\ EditOK'
    BY ZenonT(60), <1>1, <2>1 DEF Inv, Running, VersionOK, MemsOK, ReadersOK, BuildOK, MergeOK, EditOK
  <2>3. proc = "up" => InMemory' /\ EditKeeps' /\ MemHolds' /\ GroupOK'
    BY ZenonT(60), <1>1, <2>1 DEF Inv, Running, InMemory, EditKeeps, MemHolds, GroupOK
  <2>4. QED
    BY ZenonT(40), <2>2, <2>3 DEF Running
<1>9. QED
  BY ZenonT(60), <1>1, <1>2, <1>3, <1>4, <1>5, <1>6, <1>7, <1>8 DEF Inv

LEMMA InvNext ==
  ASSUME Inv, [Next]_vars
  PROVE  Inv'
<1>1. CASE OpenStep
  BY ZenonT(40), <1>1, NewDBStep, NewDBCurrentStep, VersionRecoverStep, RecoverLogFileStep,
     RecoverLogFailsStep, NewManifestStep, SetCurrentFileStep, OpenFailsStep,
     OpenDoneStep DEF OpenStep
<1>2. CASE \E w \in Writers : WriteStep(w)
  BY Zenon, <1>2, WriterStep
<1>3. CASE BgStep
  BY Zenon, <1>3, BackgroundStep
<1>4. CASE \E r \in Readers : BeginGet(r) \/ EndGet(r)
  BY ZenonT(40), <1>4, BeginGetStep, EndGetStep
<1>5. CASE Crash
  BY Zenon, <1>5, CrashStep
<1>6. CASE UNCHANGED vars
  BY Zenon, <1>6, InvStutters
<1>7. QED
  BY Zenon, <1>1, <1>2, <1>3, <1>4, <1>5, <1>6 DEF Next
-----------------------------------------------------------------------------
(* What the invariant implies.                                             *)
LEMMA InvRecoverable ==
  ASSUME Inv, current # 0
  PROVE  Recoverable
BY ZenonT(40), RunningRecoverable DEF Inv, StartOK

LEMMA InvDurable ==
  ASSUME Inv
  PROVE  Durable
<1>1. CASE current = 0
  BY ZenonT(40), <1>1 DEF Inv, StartOK, Durable
<1>2. CASE current # 0
  <2>1. Recoverable /\ ManTables(Man) \subseteq DOMAIN tables
    BY Zenon, <1>2, InvRecoverable DEF Inv, DiskOK
  <2>2. \A e : \/ \E t \in ManTables(Man) : t \in DOMAIN tables /\ e \in tables[t]
               \/ \E n \in LogsFrom(Man.log) : e \in logs[n].good
               => e \in OnDisk
    BY Zenon, <1>2 DEF OnDisk, Contents, Man, ManTables
  <2>3. SUFFICES ASSUME NEW a \in acked, a \notin excused
                 PROVE  \E e \in OnDisk : OpOf(e) = a
    BY Zenon DEF Durable, Ops
  <2>4. CASE InTables(a, tables, ManTables(Man))
    <3>1. PICK t \in ManTables(Man) : \E e \in tables[t] : OpOf(e) = a
      BY Zenon, <2>4 DEF InTables
    <3>2. tables[t] \subseteq OnDisk
      BY Zenon, <2>1, <2>2, <3>1
    <3>3. QED
      BY Zenon, <3>1, <3>2
  <2>5. CASE \E n \in LogsFrom(Man.log) : InLog(a, logs, n)
    <3>1. PICK n \in LogsFrom(Man.log) : \E e \in logs[n].good : OpOf(e) = a
      BY Zenon, <2>5 DEF InLog
    <3>2. logs[n].good \subseteq OnDisk
      BY Zenon, <2>2, <3>1
    <3>3. QED
      BY Zenon, <3>1, <3>2
  <2>6. QED
    BY Zenon, <2>1, <2>3, <2>4, <2>5 DEF Recoverable
<1>3. QED
  BY Zenon, <1>1, <1>2

LEMMA InvFilesThere ==
  ASSUME Inv
  PROVE  FilesThere
<1>1. current # 0 => /\ current \in DOMAIN manifests
                     /\ manifests[current].l0 \cup manifests[current].low \subseteq DOMAIN tables
  BY ZenonT(40) DEF Inv, DiskOK, Man, ManTables
<1>2. ASSUME proc = "up"
      PROVE  /\ vs.l0 \cup vs.low \cup Referred \subseteq DOMAIN tables
             /\ {mem, imm} \ {0} \subseteq DOMAIN logs
  BY Zenon, <1>2 DEF Inv, Running, VersionOK, Version, ReadersOK, Referred, MemsOK
<1>3. ASSUME bg.merge.on
      PROVE  bg.merge.in \cup ({bg.merge.out} \ {0}) \subseteq DOMAIN tables
  <2>1. proc = "up"
    BY ZenonT(60), <1>3, NoBgIs DEF Inv, Quiet
  <2>2. QED
    BY ZenonT(60), <1>3, <2>1 DEF Inv, Running, MergeOK, VersionOK
<1>4. QED
  BY Zenon, <1>1, <1>2, <1>3 DEF FilesThere

LEMMA InvNobodyForgotten ==
  ASSUME Inv
  PROVE  NobodyForgotten
<1>1. writers_ # <<>> => Head(writers_) = writers_[1]
  BY DEF Inv, QueueOK
<1>2. QED
  BY ZenonT(60), <1>1 DEF Inv, QueueOK, SchedOK, NobodyForgotten, Active

(* The invariant holds in every state of the engine.                       *)
THEOREM Invariance == Spec => []Inv
BY InitInv, InvNext, PTL DEF Spec

(* Durability, for any number of writers, readers, crashes and failing     *)
(* calls of the Env: a write that DBImpl::Write acknowledged is in the     *)
(* files that VersionSet::Recover and RecoverLogFile read, through every   *)
(* memtable switch, compaction, removal of files and crash in between.     *)
THEOREM DurableAlways == Spec => []Durable
BY Invariance, InvDurable, PTL

(* DeleteObsoleteFiles never removes a table or a log that the version, a  *)
(* reader, a merge or the recovery after a crash still needs.              *)
THEOREM FilesThereAlways == Spec => []FilesThere
BY Invariance, InvFilesThere, PTL

(* Group commit and MakeRoomForWrite lose no wake-up: the front of the     *)
(* queue is awake, or waits while the background thread is scheduled.      *)
THEOREM NobodyForgottenAlways == Spec => []NobodyForgotten
BY Invariance, InvNobodyForgotten, PTL

(* The second invariant holds in every state of the engine, because the    *)
(* first one does.                                                         *)
THEOREM SeqInvariance == Spec => []SeqInv
BY Invariance, InitSeq, SeqNext, PTL DEF Spec

(* Sequence numbers: two entries that DBImpl::Write stored never carry the *)
(* same number, and the last number of the VersionSet is not below any of  *)
(* them, also when a crash, a lost tail of a log or a failed recovery came *)
(* between the writes.                                                     *)
THEOREM SequenceUniqueAlways == Spec => []SequenceUnique
BY SeqInvariance, SeqUnique, PTL

(* Snapshots: while DBImpl::Get searches without the mutex, the memtables  *)
(* and tables it refers to hold exactly the entries that were stored up to *)
(* the sequence number it read, whatever writers, memtable switches,       *)
(* merges and the removal of files do meanwhile.                           *)
THEOREM SnapshotExactAlways == Spec => []SnapshotExact
BY Invariance, SeqInvariance, SeqSnapshot, PTL
=============================================================================
