---------------------------- MODULE LevelDbSteps ----------------------------
(***************************************************************************)
(* The steps of LevelDb preserve the invariant Inv of LevelDbInv: first    *)
(* what their proofs share, then the background thread, the opening of a   *)
(* database, a crash, the writers and the readers.                         *)
(***************************************************************************)
EXTENDS LevelDbInv, TLAPS

(* Sets of files are finite: facts about IsFiniteSet.                     *)
LEMMA NoneFinite == IsFiniteSet({})
<1>1. << >> \in Seq({}) /\ \A s \in {} : \E n \in 1 .. Len(<< >>) : << >>[n] = s
  OBVIOUS
<1> QED
  BY Zenon, <1>1 DEF IsFiniteSet

LEMMA OneFinite == \A x : IsFiniteSet({x})
<1> TAKE x
<1>1. <<x>> \in Seq({x}) /\ \A s \in {x} : \E n \in 1 .. Len(<<x>>) : <<x>>[n] = s
  OBVIOUS
<1> QED
  BY Zenon, <1>1 DEF IsFiniteSet

LEMMA FiniteUnion ==
  ASSUME NEW A, NEW B, IsFiniteSet(A), IsFiniteSet(B)
  PROVE  IsFiniteSet(A \cup B)
<1>1. PICK a \in Seq(A) : \A s \in A : \E n \in 1 .. Len(a) : a[n] = s
  BY Zenon DEF IsFiniteSet
<1>2. PICK b \in Seq(B) : \A s \in B : \E n \in 1 .. Len(b) : b[n] = s
  BY Zenon DEF IsFiniteSet
<1> DEFINE c == a \o b
<1>3. /\ c \in Seq(A \cup B) /\ Len(c) = Len(a) + Len(b)
      /\ Len(a) \in Nat /\ Len(b) \in Nat
      /\ \A n \in 1 .. Len(a) : c[n] = a[n]
      /\ \A n \in 1 .. Len(b) : c[n + Len(a)] = b[n]
  OBVIOUS
<1> HIDE DEF c
<1>4. ASSUME NEW s \in A \cup B PROVE \E n \in 1 .. Len(c) : c[n] = s
  <2>1. CASE s \in A
    BY SMTT(60), <1>1, <1>3, <2>1
  <2>2. CASE s \in B
    <3>1. PICK n \in 1 .. Len(b) : b[n] = s
      BY Zenon, <1>2, <2>2
    <3>2. n + Len(a) \in 1 .. Len(c) /\ c[n + Len(a)] = s
      BY <1>3, <3>1
    <3> QED
      BY Zenon, <3>2
  <2> QED
    BY Zenon, <2>1, <2>2
<1> QED
  BY Zenon, <1>3, <1>4 DEF IsFiniteSet

LEMMA FinitePart ==
  ASSUME NEW A, NEW D, IsFiniteSet(A)
  PROVE  IsFiniteSet(A \ D)
<1>1. PICK a \in Seq(A) : \A s \in A : \E n \in 1 .. Len(a) : a[n] = s
  BY Zenon DEF IsFiniteSet
<1>2. CASE A \ D = {}
  BY Zenon, <1>2, NoneFinite
<1>3. CASE A \ D # {}
  <2>1. PICK x \in A \ D : TRUE
    BY Zenon, <1>3
  <2> DEFINE b == [n \in 1 .. Len(a) |-> IF a[n] \in D THEN x ELSE a[n]]
  <2>2. b \in Seq(A \ D) /\ Len(b) = Len(a)
    BY <2>1
  <2>3. ASSUME NEW s \in A \ D PROVE \E n \in 1 .. Len(b) : b[n] = s
    BY Zenon, <1>1, <2>2
  <2> HIDE DEF b
  <2> QED
    BY Zenon, <2>2, <2>3 DEF IsFiniteSet
<1> QED
  BY Zenon, <1>2, <1>3
-----------------------------------------------------------------------------
(* Lemmas about records.                                                   *)
LEMMA VsNext ==
  ASSUME NEW v, VsRec(v), NEW n \in Pos, NEW w, w = [v EXCEPT !.next = n]
  PROVE  /\ VsRec(w) /\ w.l0 = v.l0 /\ w.low = v.low /\ w.seek = v.seek
         /\ w.log = v.log /\ w.next = n /\ w.manifest = v.manifest
BY Zenon DEF VsRec

LEMMA VsSeq ==
  ASSUME NEW v, VsRec(v), NEW s, NEW w, w = [v EXCEPT !.seq = s]
  PROVE  /\ VsRec(w) /\ w.l0 = v.l0 /\ w.low = v.low /\ w.seek = v.seek
         /\ w.log = v.log /\ w.next = v.next /\ w.manifest = v.manifest
BY Zenon DEF VsRec

LEMMA NewVersionIs ==
  ASSUME VsRec(vs), EditRec(bg.edit)
  PROVE  /\ VsRec(NewVersion) /\ NewVersion.l0 = NextL0 /\ NewVersion.low = NextLow
         /\ NewVersion.seek = 0 /\ NewVersion.log = bg.edit.log
         /\ NewVersion.next = vs.next /\ NewVersion.manifest = vs.manifest
<1>1. IsFiniteSet(vs.l0 \ bg.edit.del)
  BY Zenon, FinitePart DEF VsRec
<1>2. IsFiniteSet(NextL0)
  BY Zenon, <1>1, FiniteUnion DEF NextL0, EditRec
<1>3. NewVersion = [l0 |-> NextL0, low |-> NextLow, seek |-> 0, log |-> bg.edit.log,
                    next |-> vs.next, manifest |-> vs.manifest, seq |-> vs.seq]
  <2>1. NewVersion = [vs EXCEPT !.seek = 0, !.l0 = NextL0, !.low = NextLow,
                                !.log = bg.edit.log]
    BY Zenon DEF NewVersion, NextL0, NextLow
  <2>2. QED
    BY Zenon, <2>1 DEF VsRec
<1>4. NextL0 \subseteq Pos /\ NextLow \subseteq Pos /\ bg.edit.log \in Nat
  BY Zenon DEF NextL0, NextLow, VsRec, EditRec
<1>5. QED
  BY Zenon, <1>2, <1>3, <1>4 DEF VsRec

LEMMA NoBgIs ==
  /\ BgRec(NoBg) /\ NoBg.at = "idle" /\ NoBg.merge = NoMerge
  /\ NoBg.merge.on = FALSE /\ NoBg.edit.del = {} /\ NoBg.out = 0
BY Zenon, NoneFinite DEF NoBg, BgRec, MergeRec, EditRec, NoMerge

LEMMA EditIs ==
  ASSUME VsRec(vs), NEW A \in SUBSET Pos, NEW B \in SUBSET Pos, NEW D, NEW l \in Nat,
         IsFiniteSet(A)
  PROVE  /\ EditRec(Edit(A, B, D, l)) /\ Edit(A, B, D, l).add0 = A
         /\ Edit(A, B, D, l).addLow = B /\ Edit(A, B, D, l).del = D
         /\ Edit(A, B, D, l).log = l /\ Edit(A, B, D, l).next = vs.next
BY Zenon DEF Edit, EditRec, VsRec, Pos

LEMMA ManRecord ==
  ASSUME NEW m, ManRec(m), NEW e, EditRec(e), e.next \in Pos
  PROVE  /\ ManRec(Applied(m, e))
         /\ Applied(m, e).l0 = (m.l0 \ e.del) \cup e.add0
         /\ Applied(m, e).low = (m.low \ e.del) \cup e.addLow
         /\ Applied(m, e).log = e.log /\ Applied(m, e).next = e.next
<1> DEFINE A == (m.l0 \ e.del) \cup e.add0
           B == (m.low \ e.del) \cup e.addLow
<1>1. IsFiniteSet(m.l0 \ e.del)
  BY Zenon, FinitePart DEF ManRec
<1>2. IsFiniteSet(A)
  BY Zenon, <1>1, FiniteUnion DEF EditRec
<1>3. A \subseteq Pos /\ B \subseteq Pos
  BY Zenon DEF ManRec, EditRec
<1>4. Applied(m, e) = [m EXCEPT !.l0 = A, !.low = B, !.log = e.log, !.next = e.next,
                                !.seq = e.seq]
  BY Zenon DEF Applied
<1> HIDE DEF A, B
<1>5. Applied(m, e) = [l0 |-> A, low |-> B, log |-> e.log, next |-> e.next,
                       seq |-> e.seq, torn |-> m.torn]
  BY Zenon, <1>4 DEF ManRec
<1>6. ManRec(Applied(m, e))
  BY <1>2, <1>3, <1>5 DEF ManRec, EditRec
<1>7. QED
  BY <1>5, <1>6 DEF A, B

-----------------------------------------------------------------------------
(* Who acts when.                                                          *)
LEMMA UpStep ==
  ASSUME Inv, proc = "up", proc' = "up", UNCHANGED current, Forms', QueueOK',
         bg'.at \in BgStages, SchedOK', DiskOK', Running'
  PROVE  Inv'
BY Zenon DEF Inv, StartOK, Quiet, Running, VersionOK, Stages

LEMMA WriterUp ==
  ASSUME Inv, NEW w \in Writers, wst[w] # "idle"
  PROVE  proc = "up"
<1>1. PICK i \in 1..Len(writers_) : writers_[i] = w
  BY Zenon DEF Inv, QueueOK
<1>2. writers_ # <<>>
  BY <1>1
<1>3. QED
  BY Zenon, <1>2 DEF Inv, Quiet

LEMMA HeadOnly ==
  ASSUME QueueOK, NEW w \in Writers, wst[w] \in Active
  PROVE  /\ 1 \in 1..Len(writers_) /\ writers_[1] = w
         /\ \A v \in Writers : wst[v] \in Active => v = w
BY SMTT(40) DEF QueueOK, Active

LEMMA BgUp ==
  ASSUME Inv, bg.at # "idle"
  PROVE  proc = "up"
BY Zenon, NoBgIs DEF Inv, Quiet

LEMMA ReaderUp ==
  ASSUME Inv, NEW r \in Readers, reader[r].at = "reading"
  PROVE  proc = "up"
BY DEF Inv, Quiet, Idle
-----------------------------------------------------------------------------
(* What a step that leaves certain parts of the state alone preserves.     *)
LEMMA CoreFrame ==
  ASSUME VersionOK, MemsOK, BuildOK, MergeOK, EditOK, DiskOK,
         UNCHANGED <<manifests, current, bg, mem, imm, pending>>,
         UNCHANGED <<DOMAIN tables, DOMAIN logs>>,
         UNCHANGED <<vs.l0, vs.low, vs.log, vs.manifest, vs.next>>,
         mem \in DOMAIN memtabs', imm # 0 => imm \in DOMAIN memtabs',
         vs'.seek # 0 => vs'.seek \in Version
  PROVE  VersionOK' /\ MemsOK' /\ BuildOK' /\ MergeOK' /\ EditOK' /\ DiskOK'
<1>1. UNCHANGED <<Version, NextL0, NextLow, Man, Editing>>
  BY Zenon DEF Version, NextL0, NextLow, Man, Editing
<1>2. VersionOK' /\ MemsOK' /\ DiskOK'
  BY Zenon, <1>1 DEF VersionOK, MemsOK, DiskOK, Below
<1>3. BuildOK' /\ MergeOK'
  BY Zenon, <1>1 DEF BuildOK, MergeOK
<1>4. EditOK'
  BY Zenon, <1>1 DEF EditOK, Below
<1>5. QED
  BY Zenon, <1>2, <1>3, <1>4

LEMMA FilesFrame ==
  ASSUME VersionOK, MemsOK, ReadersOK, BuildOK, MergeOK, EditOK, DiskOK,
         UNCHANGED <<manifests, current, bg, mem, imm, pending, reader>>,
         UNCHANGED <<DOMAIN tables, DOMAIN logs, DOMAIN memtabs>>,
         UNCHANGED <<vs.l0, vs.low, vs.log, vs.manifest, vs.next, vs.seek>>
  PROVE  VersionOK' /\ MemsOK' /\ ReadersOK' /\ BuildOK' /\ MergeOK' /\ EditOK' /\ DiskOK'
<1>1. VersionOK' /\ MemsOK' /\ BuildOK' /\ MergeOK' /\ EditOK' /\ DiskOK'
  <2>1. /\ mem \in DOMAIN memtabs'
        /\ imm # 0 => imm \in DOMAIN memtabs'
        /\ vs'.seek # 0 => vs'.seek \in Version
    BY Zenon DEF MemsOK, VersionOK
  <2>2. QED
    BY Zenon, <2>1, CoreFrame
<1>2. ReadersOK'
  BY Zenon DEF ReadersOK, Reading, Below
<1>3. QED
  BY Zenon, <1>1, <1>2

LEMMA KeepFrame ==
  ASSUME InMemory, EditKeeps,
         UNCHANGED <<acked, excused, tables, logs, mem, imm, bg, vs.l0, vs.low>>
  PROVE  InMemory' /\ EditKeeps'
BY Zenon DEF InMemory, EditKeeps, Version, NextL0, NextLow, Editing

LEMMA SchedFrame ==
  ASSUME SchedOK, UNCHANGED <<sched, bg, imm, vs.l0, vs.seek, proc>>,
         \A w \in Writers : wst'[w] = "waiting" => \E v \in Writers : wst[v] = "waiting"
  PROVE  SchedOK'
BY Zenon DEF SchedOK, HasWork, NeedsL0

LEMMA GroupFrame ==
  ASSUME MemHolds, GroupOK, UNCHANGED <<logs, mem, imm, memtabs, excused>>,
         \A w \in Writers : wst'[w] = "logged" <=> wst[w] = "logged",
         \A w \in Writers : wst'[w] = "inserted" <=> wst[w] = "inserted",
         (\E w \in Writers : wst[w] \in {"logged", "inserted"}) => UNCHANGED LoggedOps
  PROVE  MemHolds' /\ GroupOK'
BY Zenon DEF MemHolds, GroupOK

LEMMA SignalledQueue ==
  ASSUME QueueOK, wst' = Signalled(wst), UNCHANGED <<writers_, op, group>>
  PROVE  /\ QueueOK' /\ LoggedOps' = LoggedOps
         /\ \A w \in Writers : /\ wst'[w] # "waiting"
                               /\ wst'[w] = "logged" <=> wst[w] = "logged"
                               /\ wst'[w] = "inserted" <=> wst[w] = "inserted"
BY DEF QueueOK, Signalled, Active, Grouped, LoggedOps
-----------------------------------------------------------------------------
(* Removal of obsolete files.                                              *)
LEMMA Kept ==
  ASSUME NEW v, NEW live, DeleteObsoleteFiles(v, live), LogsForm, ManForm, UNCHANGED current
  PROVE  /\ LogsForm' /\ TablesForm' /\ ManForm'
         /\ \A n \in DOMAIN logs : n >= v.log => n \in DOMAIN logs' /\ logs'[n] = logs[n]
         /\ \A t \in DOMAIN tables \cap live : t \in DOMAIN tables' /\ tables'[t] = tables[t]
         /\ \A n \in DOMAIN manifests :
              n >= v.manifest => n \in DOMAIN manifests' /\ manifests'[n] = manifests[n]
<1>1. /\ DOMAIN logs' = {x \in DOMAIN logs : x >= v.log}
      /\ logs' = [n \in DOMAIN logs' |-> logs'[n]]
      /\ \A n \in DOMAIN logs' : logs'[n] = logs[n]
  BY Zenon DEF DeleteObsoleteFiles
<1>2. /\ DOMAIN manifests' = {x \in DOMAIN manifests : x >= v.manifest}
      /\ manifests' = [n \in DOMAIN manifests' |-> manifests'[n]]
      /\ \A n \in DOMAIN manifests' : manifests'[n] = manifests[n]
  BY Zenon DEF DeleteObsoleteFiles
<1>3. /\ TablesForm'
      /\ \A t \in DOMAIN tables \cap live : t \in DOMAIN tables' /\ tables'[t] = tables[t]
  BY Zenon DEF DeleteObsoleteFiles, Only, TablesForm
<1>4. LogsForm'
  BY Zenon, <1>1 DEF LogsForm
<1>5. ManForm'
  BY Zenon, <1>2 DEF ManForm
<1>6. QED
  BY Zenon, <1>1, <1>2, <1>3, <1>4, <1>5

(* Numbers are numbers.                                                    *)
LEMMA Numbers ==
  ASSUME Inv, proc = "up"
  PROVE  /\ Running /\ DiskOK /\ QueueOK /\ SchedOK /\ VsRec(vs) /\ BgRec(bg)
         /\ EditRec(bg.edit) /\ MergeRec(bg.merge)
         /\ vs.next \in Pos /\ vs.log \in Nat /\ vs.manifest \in Nat /\ bg.out \in Nat
         /\ Version \subseteq Pos /\ mem \in Nat /\ imm \in Nat /\ current \in Nat
         /\ current = vs.manifest /\ current # 0 /\ current \in DOMAIN manifests
         /\ ManRec(Man) /\ Man.next \in Pos
         /\ bg.edit.next \in Nat /\ bg.edit.log \in Nat
<1>1. /\ Running /\ DiskOK /\ QueueOK /\ SchedOK /\ VsRec(vs) /\ BgRec(bg)
      /\ mem \in Nat /\ imm \in Nat /\ current \in Nat /\ ManForm
  BY Zenon DEF Inv, Forms, MemForm, ManForm
<1>2. EditRec(bg.edit) /\ MergeRec(bg.merge) /\ bg.out \in Nat
  BY Zenon, <1>1 DEF BgRec
<1>3. /\ vs.next \in Pos /\ vs.log \in Nat /\ vs.manifest \in Nat
      /\ Version \subseteq Pos
  BY Zenon, <1>1 DEF VsRec, Version
<1>4. current = vs.manifest /\ current # 0
  BY Zenon, <1>1 DEF Running, VersionOK
<1>5. current \in DOMAIN manifests
  BY Zenon, <1>1, <1>4 DEF DiskOK
<1>6. ManRec(Man) /\ Man.next \in Pos
  BY Zenon, <1>1, <1>5 DEF ManForm, Man, ManRec
<1>7. bg.edit.next \in Nat /\ bg.edit.log \in Nat
  BY Zenon, <1>2 DEF EditRec
<1>8. QED
  BY Zenon, <1>1, <1>2, <1>3, <1>4, <1>5, <1>6, <1>7

(* The version and the manifest stay, more numbers may be in use.          *)
LEMMA VersionFrame ==
  ASSUME Inv, proc = "up", bg.at # "install", bg'.at # "install",
         UNCHANGED <<current, mem, imm, vs.l0, vs.low, vs.log, vs.manifest, vs.seek>>,
         UNCHANGED <<Man.l0, Man.low, Man.log, Man.next>>,
         vs'.next \in Nat, vs.next <= vs'.next, current \in DOMAIN manifests',
         mem \in DOMAIN logs', imm # 0 => imm \in DOMAIN logs',
         UNCHANGED DOMAIN memtabs, Version \subseteq DOMAIN tables'
  PROVE  VersionOK' /\ MemsOK' /\ DiskOK'
<1>1. UNCHANGED <<Version, ManTables(Man)>>
  BY Zenon DEF Version, ManTables
<1>2. /\ Running /\ DiskOK /\ vs.next \in Nat /\ mem \in Nat /\ Version \subseteq Nat
      /\ Man.next \in Nat
  BY Zenon, Numbers DEF Pos
<1>3. VersionOK'
  BY <1>1, <1>2 DEF Running, VersionOK, Below
<1>4. MemsOK'
  BY <1>2 DEF Running, MemsOK
<1>5. ManTables(Man) = Version
  BY Zenon, <1>2 DEF Running, VersionOK, ManTables, Version
<1>6. DiskOK'
  BY Zenon, <1>1, <1>2, <1>5 DEF DiskOK, Below
<1>7. QED
  BY Zenon, <1>3, <1>4, <1>6

LEMMA ReadersFrame ==
  ASSUME Inv, proc = "up", UNCHANGED reader, vs'.next \in Nat, vs.next <= vs'.next,
         Referred \subseteq DOMAIN tables', bg'.at = "build" => bg'.out >= vs.next,
         bg'.out \in Nat
  PROVE  ReadersOK'
<1>1. Reading' = Reading /\ ReadersOK /\ vs.next \in Nat
  BY Zenon, Numbers DEF Reading, Running, Pos
<1>2. SUFFICES ASSUME NEW r \in Reading
               PROVE  /\ reader[r].files \subseteq DOMAIN tables' \cap Pos
                      /\ Below(reader[r].files, vs'.next)
                      /\ bg'.at = "build" => bg'.out \notin reader[r].files
  BY Zenon, <1>1 DEF ReadersOK
<1>3. /\ reader[r].files \subseteq Pos /\ Below(reader[r].files, vs.next)
      /\ reader[r].files \subseteq Referred
  BY Zenon, <1>1 DEF ReadersOK, Referred
<1>4. QED
  BY <1>1, <1>3 DEF Below, Pos

LEMMA MemoryFrame ==
  ASSUME Inv, proc = "up", UNCHANGED <<acked, excused, mem, imm, vs.l0, vs.low>>,
         \A t \in Version : tables'[t] = tables[t],
         logs'[mem] = logs[mem], imm # 0 => logs'[imm] = logs[imm]
  PROVE  InMemory'
<1>1. Version' = Version /\ InMemory
  BY Zenon, Numbers DEF Version, Running
<1>2. \A a : InTables(a, tables, Version) => InTables(a, tables', Version)
  BY Zenon DEF InTables
<1>3. QED
  BY Zenon, <1>1, <1>2 DEF InMemory, InLog

LEMMA NotEditing ==
  ASSUME bg'.at \notin {"log", "install"}
  PROVE  EditOK' /\ EditKeeps'
BY Zenon DEF EditOK, EditKeeps, Editing

LEMMA HoldsFrame ==
  ASSUME Inv, proc = "up", UNCHANGED <<mem, imm, excused, LoggedOps>>,
         logs'[mem] = logs[mem], imm # 0 => logs'[imm] = logs[imm],
         memtabs'[mem] = memtabs[mem], imm # 0 => memtabs'[imm] = memtabs[imm],
         \A w \in Writers : /\ wst'[w] = "logged" <=> wst[w] = "logged"
                            /\ wst'[w] = "inserted" <=> wst[w] = "inserted"
  PROVE  MemHolds' /\ GroupOK'
<1>1. MemHolds /\ GroupOK
  BY Zenon, Numbers DEF Running
<1>2. MemHolds'
  BY Zenon, <1>1 DEF MemHolds
<1>3. GroupOK'
  BY Zenon, <1>1 DEF GroupOK, InLog
<1>4. QED
  BY Zenon, <1>2, <1>3
-----------------------------------------------------------------------------
(* A number for a new table.                                               *)
LEMMA NewOutputIs ==
  ASSUME Inv, proc = "up", NewOutput
  PROVE  /\ VsRec(vs') /\ vs'.l0 = vs.l0 /\ vs'.low = vs.low /\ vs'.seek = vs.seek
         /\ vs'.log = vs.log /\ vs'.next = vs.next + 1 /\ vs'.manifest = vs.manifest
         /\ TablesForm' /\ DOMAIN tables' = DOMAIN tables \cup {vs.next}
         /\ \A t \in Version : t # vs.next /\ tables'[t] = tables[t]
         /\ pending' = pending \cup {vs.next}
<1>1. /\ VsRec(vs) /\ vs.next \in Nat /\ vs.next + 1 \in Pos /\ Version \subseteq Nat
      /\ Version \subseteq DOMAIN tables /\ Below(Version, vs.next)
  BY Numbers DEF Pos, Running, VersionOK
<1>2. vs' = [vs EXCEPT !.next = vs.next + 1]
  BY Zenon DEF NewOutput
<1>3. /\ VsRec(vs') /\ vs'.l0 = vs.l0 /\ vs'.low = vs.low /\ vs'.seek = vs.seek
      /\ vs'.log = vs.log /\ vs'.next = vs.next + 1 /\ vs'.manifest = vs.manifest
  BY Zenon, <1>1, <1>2 DEF VsRec
<1>4. /\ TablesForm' /\ DOMAIN tables' = DOMAIN tables \cup {vs.next}
      /\ \A t \in DOMAIN tables : t # vs.next => tables'[t] = tables[t]
  BY Zenon DEF NewOutput, With, TablesForm
<1>5. \A t \in Version : t # vs.next /\ t \in DOMAIN tables
  BY <1>1 DEF Below
<1>6. QED
  BY Zenon, <1>3, <1>4, <1>5 DEF NewOutput

LEMMA CompactMemTableStep ==
  ASSUME Inv, CompactMemTable
  PROVE  Inv'
<1>1. /\ proc = "up" /\ imm # 0 /\ NewOutput
      /\ (bg.at = "idle" /\ sched) \/ bg.at = "merge"
      /\ bg' = [bg EXCEPT !.at = "build", !.out = vs.next]
      /\ UNCHANGED <<logs, manifests, current, proc, mem, imm, memtabs, writers_, wst, op,
                     group, sched, recov, reader, acked, excused>>
  BY Zenon DEF CompactMemTable, memVars, writeVars, history
<1>2. /\ Running /\ SchedOK /\ QueueOK /\ BgRec(bg) /\ vs.next \in Nat /\ vs.next # 0
      /\ MergeRec(bg.merge) /\ Version \subseteq DOMAIN tables
      /\ mem \in DOMAIN logs /\ (imm # 0 => imm \in DOMAIN logs)
  BY Zenon, <1>1, Numbers DEF Pos, Running, VersionOK, MemsOK
<1>3. /\ VsRec(vs') /\ vs'.l0 = vs.l0 /\ vs'.low = vs.low /\ vs'.seek = vs.seek
      /\ vs'.log = vs.log /\ vs'.next = vs.next + 1 /\ vs'.manifest = vs.manifest
      /\ TablesForm' /\ DOMAIN tables' = DOMAIN tables \cup {vs.next}
      /\ \A t \in Version : t # vs.next /\ tables'[t] = tables[t]
      /\ pending' = pending \cup {vs.next}
  BY Zenon, <1>1, NewOutputIs
<1>4. /\ BgRec(bg') /\ bg'.at = "build" /\ bg'.merge = bg.merge /\ bg'.out = vs.next
  BY Zenon, <1>1, <1>2 DEF BgRec
<1>5. Forms'
  BY Zenon, <1>1, <1>3, <1>4 DEF Inv, Forms, LogsForm, ManForm, MemForm, ReaderForm
<1>6. QueueOK' /\ bg'.at \in BgStages
  BY Zenon, <1>1, <1>2, <1>4 DEF QueueOK, BgStages
<1>7. SchedOK'
  BY Zenon, <1>1, <1>2, <1>4 DEF SchedOK, HasWork
<1>8. VersionOK' /\ MemsOK' /\ DiskOK'
  <2>1. current \in DOMAIN manifests /\ Man' = Man
    BY Zenon, <1>1, Numbers DEF Man
  <2>2. vs'.next \in Nat /\ vs.next <= vs'.next
    BY <1>2, <1>3
  <2>3. QED
    BY Zenon, <1>1, <1>2, <1>3, <1>4, <2>1, <2>2, VersionFrame
<1>9. ReadersOK'
  <2>1. Referred \subseteq DOMAIN tables
    BY Zenon, <1>2 DEF Running, ReadersOK, Referred
  <2>2. vs'.next \in Nat /\ vs.next <= vs'.next /\ bg'.out >= vs.next /\ bg'.out \in Nat
    BY <1>2, <1>3, <1>4
  <2>3. QED
    BY Zenon, <1>1, <1>3, <2>1, <2>2, ReadersFrame
<1>10. Version' = Version
  BY Zenon, <1>3 DEF Version
<1>11. bg.merge.on => bg.merge.out # vs.next /\ bg.merge.out \in Nat
  BY <1>2 DEF Running, MergeOK, MergeRec, NoMerge
<1>12. BuildOK'
  BY SMTT(40), <1>1, <1>2, <1>3, <1>4, <1>10, <1>11 DEF BuildOK
<1>13. MergeOK'
  BY SMTT(40), <1>1, <1>2, <1>3, <1>4, <1>10, <1>11 DEF Running, MergeOK
<1>14. EditOK' /\ EditKeeps'
  BY Zenon, <1>4, NotEditing
<1>15. InMemory'
  BY Zenon, <1>1, <1>3, MemoryFrame
<1>16. LoggedOps' = LoggedOps
  BY Zenon, <1>1 DEF LoggedOps
<1>17. MemHolds' /\ GroupOK'
  BY Zenon, <1>1, <1>16, HoldsFrame
<1>18. QED
  BY Zenon, <1>1, <1>5, <1>6, <1>7, <1>8, <1>9, <1>12, <1>13, <1>14, <1>15, <1>17, UpStep
     DEF Running

LEMMA MergeOut ==
  ASSUME NEW t, NEW g, g = [on |-> t, in |-> g.in, out |-> g.out, files |-> g.files], NEW n
  PROVE  [g EXCEPT !.out = n] = [on |-> t, in |-> g.in, out |-> n, files |-> g.files]
OBVIOUS

LEMMA OpenCompactionOutputFileStep ==
  ASSUME Inv, OpenCompactionOutputFile
  PROVE  Inv'
<1>1. /\ proc = "up" /\ NewOutput /\ bg.at = "merge" /\ bg.merge.out = 0
      /\ bg' = [bg EXCEPT !.merge.out = vs.next]
      /\ UNCHANGED <<logs, manifests, current, proc, mem, imm, memtabs, writers_, wst, op,
                     group, sched, recov, reader, acked, excused>>
  BY Zenon, BgUp DEF OpenCompactionOutputFile, memVars, writeVars, history
<1>2. /\ Running /\ SchedOK /\ QueueOK /\ BgRec(bg) /\ vs.next \in Nat /\ vs.next # 0
      /\ MergeRec(bg.merge) /\ EditRec(bg.edit) /\ Version \subseteq DOMAIN tables
      /\ mem \in DOMAIN logs /\ (imm # 0 => imm \in DOMAIN logs) /\ bg.merge.on
  BY Zenon, <1>1, Numbers DEF Pos, Running, VersionOK, MemsOK, MergeOK
<1>3. /\ VsRec(vs') /\ vs'.l0 = vs.l0 /\ vs'.low = vs.low /\ vs'.seek = vs.seek
      /\ vs'.log = vs.log /\ vs'.next = vs.next + 1 /\ vs'.manifest = vs.manifest
      /\ TablesForm' /\ DOMAIN tables' = DOMAIN tables \cup {vs.next}
      /\ \A t \in Version : t # vs.next /\ tables'[t] = tables[t]
      /\ pending' = pending \cup {vs.next}
  BY Zenon, <1>1, NewOutputIs
<1>4. /\ BgRec(bg') /\ bg'.at = "merge" /\ bg'.out = bg.out
      /\ bg'.merge.on /\ bg'.merge.in = bg.merge.in /\ bg'.merge.files = bg.merge.files
      /\ bg'.merge.out = vs.next
  <2>0. PICK t : t = TRUE
    BY Zenon
  <2>1. /\ bg.merge = [on |-> t, in |-> bg.merge.in, out |-> bg.merge.out,
                       files |-> bg.merge.files]
        /\ bg.merge.in # {}
    BY <1>2, <2>0 DEF MergeRec, NoMerge
  <2>2. PICK g : g = [on |-> t, in |-> bg.merge.in, out |-> vs.next,
                      files |-> bg.merge.files]
    BY Zenon
  <2>3. g = [bg.merge EXCEPT !.out = vs.next]
    BY <2>1, <2>2, MergeOut
  <2>4. bg' = [bg EXCEPT !.merge = g]
    BY Zenon, <1>1, <2>3
  <2>5. /\ bg' = [at |-> "merge", merge |-> g, out |-> bg.out, edit |-> bg.edit]
        /\ bg.out \in Nat
    BY Zenon, <1>1, <1>2, <2>4 DEF BgRec
  <2>6. MergeRec(g)
    BY Zenon, <1>2, <2>0, <2>1, <2>2 DEF MergeRec
  <2>7. QED
    BY Zenon, <1>2, <2>0, <2>2, <2>5, <2>6 DEF BgRec
<1>5. Forms'
  BY ZenonT(60), <1>1, <1>3, <1>4 DEF Inv, Forms, LogsForm, ManForm, MemForm, ReaderForm
<1>6. QueueOK' /\ bg'.at \in BgStages
  BY ZenonT(60), <1>1, <1>2, <1>4 DEF QueueOK, BgStages
<1>7. SchedOK'
  BY Zenon, <1>1, <1>2, <1>4 DEF SchedOK
<1>8. VersionOK' /\ MemsOK' /\ DiskOK'
  <2>1. current \in DOMAIN manifests /\ Man' = Man
    BY Zenon, <1>1, Numbers DEF Man
  <2>2. vs'.next \in Nat /\ vs.next <= vs'.next
    BY <1>2, <1>3
  <2>3. QED
    BY Zenon, <1>1, <1>2, <1>3, <1>4, <2>1, <2>2, VersionFrame
<1>9. ReadersOK'
  <2>1. Referred \subseteq DOMAIN tables
    BY Zenon, <1>2 DEF Running, ReadersOK, Referred
  <2>2. vs'.next \in Nat /\ vs.next <= vs'.next /\ bg'.out \in Nat
    BY SMTT(40), <1>1, <1>2, <1>3, <1>4, Numbers
  <2>3. QED
    BY Zenon, <1>1, <1>3, <1>4, <2>1, <2>2, ReadersFrame
<1>10. Version' = Version
  BY Zenon, <1>3 DEF Version
<1>11. BuildOK' /\ EditOK' /\ EditKeeps'
  BY Zenon, <1>4, NotEditing DEF BuildOK
<1>12. MergeOK'
  BY SMTT(40), <1>1, <1>2, <1>3, <1>4, <1>10 DEF Running, MergeOK
<1>13. InMemory'
  BY Zenon, <1>1, <1>3, MemoryFrame
<1>14. LoggedOps' = LoggedOps
  BY Zenon, <1>1 DEF LoggedOps
<1>15. MemHolds' /\ GroupOK'
  BY Zenon, <1>1, <1>14, HoldsFrame
<1>16. QED
  BY Zenon, <1>1, <1>5, <1>6, <1>7, <1>8, <1>9, <1>11, <1>12, <1>13, <1>15, UpStep DEF Running
-----------------------------------------------------------------------------
(* A memtable becomes a table.                                             *)
LEMMA BuildTableStep ==
  ASSUME Inv, BuildTable
  PROVE  Inv'
<1>1. /\ proc = "up" /\ bg.at = "build"
      /\ tables' = [tables EXCEPT ![bg.out] = memtabs[imm]]
      /\ pending' = pending \ {bg.out}
      /\ UNCHANGED <<logs, manifests, current, proc, vs, mem, imm, memtabs, writers_, wst, op,
                     group, sched, recov, reader, acked, excused>>
  BY Zenon, BgUp DEF BuildTable, memVars, writeVars, history
<1>2. /\ Running /\ SchedOK /\ QueueOK /\ BgRec(bg) /\ VsRec(vs) /\ vs.next \in Nat
      /\ MergeRec(bg.merge) /\ Version \subseteq DOMAIN tables /\ Version \subseteq Nat
      /\ mem \in DOMAIN logs /\ (imm # 0 => imm \in DOMAIN logs) /\ mem \in Nat
      /\ bg.out \in Pos /\ bg.out < vs.next /\ bg.out \in DOMAIN tables
      /\ bg.out \notin Version /\ imm # 0 /\ (bg.merge.on => bg.out # bg.merge.out)
      /\ mem < vs.next /\ Man.next <= vs.next /\ Below(Version, vs.next)
  BY Zenon, <1>1, Numbers DEF Pos, Running, VersionOK, MemsOK, BuildOK
<1>3. PICK add0 \in {{}, {bg.out}} :
        bg' = [bg EXCEPT !.at = "log", !.edit = Edit(add0, {bg.out} \ add0, {}, mem)]
  BY Zenon DEF BuildTable
<1>4. PICK low : low = {bg.out} \ add0
  BY Zenon
<1>5. /\ add0 \in SUBSET Pos /\ low \in SUBSET Pos /\ IsFiniteSet(add0)
      /\ add0 \cup low = {bg.out}
  <2>1. IsFiniteSet({}) /\ IsFiniteSet({bg.out})
    BY Zenon, NoneFinite, OneFinite
  <2>2. CASE add0 = {}
    BY Zenon, <1>2, <1>4, <2>1, <2>2
  <2>3. CASE add0 = {bg.out}
    BY Zenon, <1>2, <1>4, <2>1, <2>3
  <2>4. QED
    BY Zenon, <2>2, <2>3
<1>6. PICK e : e = Edit(add0, low, {}, mem)
  BY Zenon
<1>7. /\ EditRec(e) /\ e.add0 = add0 /\ e.addLow = low /\ e.del = {} /\ e.log = mem
      /\ e.next = vs.next
  BY <1>2, <1>5, <1>6, EditIs
<1>8. /\ BgRec(bg') /\ bg'.at = "log" /\ bg'.merge = bg.merge /\ bg'.out = bg.out
      /\ bg'.edit = e
  BY Zenon, <1>2, <1>3, <1>4, <1>6, <1>7 DEF BgRec
<1>9. /\ TablesForm' /\ DOMAIN tables' = DOMAIN tables
      /\ tables'[bg.out] = memtabs[imm]
      /\ \A t \in Version : tables'[t] = tables[t]
  BY Zenon, <1>1, <1>2 DEF Inv, Forms, TablesForm
<1>10. Forms'
  BY Zenon, <1>1, <1>8, <1>9 DEF Inv, Forms, LogsForm, ManForm, MemForm, ReaderForm
<1>11. QueueOK' /\ bg'.at \in BgStages
  BY Zenon, <1>1, <1>2, <1>8 DEF QueueOK, BgStages
<1>12. SchedOK'
  BY Zenon, <1>1, <1>2, <1>8 DEF SchedOK
<1>13. Man' = Man /\ current \in DOMAIN manifests' /\ vs'.next \in Nat /\ vs.next <= vs'.next
  <2>1. UNCHANGED <<manifests, current, vs>>
    BY Zenon, <1>1
  <2>2. current \in DOMAIN manifests /\ vs.next \in Nat
    BY Zenon, <1>2, Numbers, <1>1
  <2>3. Man' = Man /\ current \in DOMAIN manifests'
    BY Zenon, <2>1, <2>2 DEF Man
  <2>4. vs'.next \in Nat /\ vs.next <= vs'.next
    BY <2>1, <2>2
  <2>5. QED
    BY Zenon, <2>3, <2>4
<1>14. VersionOK' /\ MemsOK' /\ DiskOK'
  BY Zenon, <1>1, <1>2, <1>8, <1>9, <1>13, VersionFrame
<1>15. ReadersOK'
  <2>1. Referred \subseteq DOMAIN tables
    BY Zenon, <1>2 DEF Running, ReadersOK, Referred
  <2>2. bg'.out \in Nat
    BY Zenon, <1>2, <1>8 DEF Pos
  <2>3. QED
    BY Zenon, <1>1, <1>8, <1>9, <1>13, <2>1, <2>2, ReadersFrame
<1>16. Version' = Version
  BY Zenon, <1>1 DEF Version
<1>17. BuildOK'
  BY Zenon, <1>8 DEF BuildOK
<1>18. MergeOK'
  BY Zenon, <1>1, <1>2, <1>8, <1>9, <1>16 DEF Running, MergeOK
<1>19. NextL0' \cup NextLow' = Version \cup {bg.out} /\ Editing'
  BY Zenon, <1>1, <1>5, <1>7, <1>8 DEF NextL0, NextLow, Version, Editing
<1>20. EditOK'
  <2>1. bg'.edit.add0 \cup bg'.edit.addLow \subseteq DOMAIN tables'
    BY Zenon, <1>2, <1>5, <1>7, <1>8, <1>9
  <2>2. Below(NextL0 \cup NextLow, bg.edit.next)'
    BY Zenon, <1>2, <1>7, <1>8, <1>19 DEF Below
  <2>3. bg'.edit.log < bg'.edit.next /\ bg'.edit.next <= vs'.next /\ Man'.next <= bg'.edit.next
    BY Zenon, <1>1, <1>2, <1>7, <1>8, <1>13
  <2>4. bg'.merge.on => bg'.merge.out \notin bg'.edit.add0 \cup bg'.edit.addLow
    BY Zenon, <1>2, <1>5, <1>7, <1>8
  <2>5. QED
    BY Zenon, <1>1, <1>2, <1>7, <1>8, <2>1, <2>2, <2>3, <2>4 DEF EditOK
<1>21. EditKeeps'
  <2>1. \A t \in Version : \A f \in tables'[t] : InTables(OpOf(f), tables', Version \cup {bg.out})
    BY Zenon, <1>9 DEF InTables
  <2>2. \A f \in logs[imm].good : InTables(OpOf(f), tables', Version \cup {bg.out})
    <3>1. \A f \in logs[imm].good : \E h \in memtabs[imm] : OpOf(h) = OpOf(f)
      BY Zenon, <1>2 DEF Running, MemHolds
    <3>2. QED
      BY Zenon, <1>9, <3>1 DEF InTables
  <2>3. QED
    BY Zenon, <1>1, <1>16, <1>19, <2>1, <2>2 DEF EditKeeps
<1>22. InMemory'
  BY Zenon, <1>1, <1>9, MemoryFrame
<1>23. LoggedOps' = LoggedOps
  BY Zenon, <1>1 DEF LoggedOps
<1>24. MemHolds' /\ GroupOK'
  BY Zenon, <1>1, <1>23, HoldsFrame
<1>25. QED
  BY Zenon, <1>1, <1>10, <1>11, <1>12, <1>14, <1>15, <1>17, <1>18, <1>20, <1>21, <1>22, <1>24, UpStep
     DEF Running

LEMMA AfterErrorIs ==
  ASSUME Inv, proc = "up", bg.at # "idle", AfterError, UNCHANGED <<writers_, op, group, sched>>
  PROVE  /\ BgRec(bg') /\ bg'.merge = bg.merge /\ bg'.out \in Nat
         /\ bg'.at = IF bg.merge.on THEN "merge" ELSE "sleep"
         /\ bg'.at \in BgStages /\ QueueOK' /\ SchedOK' /\ LoggedOps' = LoggedOps
         /\ \A w \in Writers : /\ wst'[w] = "logged" <=> wst[w] = "logged"
                               /\ wst'[w] = "inserted" <=> wst[w] = "inserted"
<1>1. QueueOK /\ SchedOK /\ MergeRec(bg.merge)
  BY Zenon, Numbers
<1>2. PICK a : a = IF bg.merge.on THEN "merge" ELSE "sleep"
  BY Zenon
<1>3. BgRec(bg') /\ bg'.merge = bg.merge /\ bg'.at = a
  <2>1. bg' = [NoBg EXCEPT !.at = a, !.merge = bg.merge]
    BY Zenon, <1>2 DEF AfterError
  <2>2. QED
    BY Zenon, <1>1, <2>1, NoBgIs DEF BgRec
<1>4. bg'.out \in Nat /\ bg'.at \in BgStages /\ bg'.at # "idle"
  BY Zenon, <1>2, <1>3 DEF BgRec, BgStages
<1>5. /\ QueueOK' /\ LoggedOps' = LoggedOps
      /\ \A w \in Writers : /\ wst'[w] # "waiting"
                            /\ wst'[w] = "logged" <=> wst[w] = "logged"
                            /\ wst'[w] = "inserted" <=> wst[w] = "inserted"
  BY Zenon, <1>1, SignalledQueue DEF AfterError
<1>6. SchedOK'
  BY Zenon, <1>1, <1>4, <1>5 DEF SchedOK
<1>7. QED
  BY Zenon, <1>2, <1>3, <1>4, <1>5, <1>6

LEMMA BuildTableFailsStep ==
  ASSUME Inv, BuildTableFails
  PROVE  Inv'
<1>1. /\ proc = "up" /\ bg.at = "build" /\ AfterError
      /\ tables' = Only(tables, DOMAIN tables \ {bg.out})
      /\ pending' = pending \ {bg.out}
      /\ UNCHANGED <<logs, manifests, current, proc, vs, mem, imm, memtabs, writers_, op,
                     group, sched, recov, reader, acked, excused>>
  BY Zenon, BgUp DEF BuildTableFails, memVars, history
<1>2. /\ Running /\ VsRec(vs) /\ vs.next \in Nat
      /\ Version \subseteq DOMAIN tables
      /\ mem \in DOMAIN logs /\ (imm # 0 => imm \in DOMAIN logs)
      /\ bg.out \notin Version /\ (bg.merge.on => bg.out # bg.merge.out)
  BY Zenon, <1>1, Numbers DEF Pos, Running, VersionOK, MemsOK, BuildOK
<1>3. /\ BgRec(bg') /\ bg'.merge = bg.merge /\ bg'.out \in Nat
      /\ bg'.at = IF bg.merge.on THEN "merge" ELSE "sleep"
      /\ bg'.at \in BgStages /\ QueueOK' /\ SchedOK' /\ LoggedOps' = LoggedOps
      /\ \A w \in Writers : /\ wst'[w] = "logged" <=> wst[w] = "logged"
                            /\ wst'[w] = "inserted" <=> wst[w] = "inserted"
  BY Zenon, <1>1, AfterErrorIs
<1>4. bg'.at \notin {"build", "log", "install"}
  BY Zenon, <1>3
<1>5. /\ TablesForm' /\ DOMAIN tables' = DOMAIN tables \ {bg.out}
      /\ \A t \in Version : tables'[t] = tables[t]
      /\ Version \subseteq DOMAIN tables'
  BY Zenon, <1>1, <1>2 DEF Only, TablesForm
<1>6. Forms'
  BY ZenonT(40), <1>1, <1>3, <1>5 DEF Inv, Forms, LogsForm, ManForm, MemForm, ReaderForm
<1>7. Man' = Man /\ current \in DOMAIN manifests' /\ vs'.next \in Nat /\ vs.next <= vs'.next
  <2>1. UNCHANGED <<manifests, current, vs>>
    BY Zenon, <1>1
  <2>2. current \in DOMAIN manifests /\ vs.next \in Nat
    BY Zenon, <1>2, Numbers, <1>1
  <2>3. Man' = Man /\ current \in DOMAIN manifests'
    BY Zenon, <2>1, <2>2 DEF Man
  <2>4. vs'.next \in Nat /\ vs.next <= vs'.next
    BY <2>1, <2>2
  <2>5. QED
    BY Zenon, <2>3, <2>4
<1>8. VersionOK' /\ MemsOK' /\ DiskOK'
  BY Zenon, <1>1, <1>2, <1>4, <1>5, <1>7, VersionFrame
<1>9. ReadersOK'
  <2>1. Referred \subseteq DOMAIN tables'
    BY ZenonT(40), <1>1, <1>2, <1>5 DEF Running, ReadersOK, Referred
  <2>2. QED
    BY Zenon, <1>1, <1>3, <1>4, <1>7, <2>1, ReadersFrame
<1>10. Version' = Version
  BY Zenon, <1>1 DEF Version
<1>11. BuildOK' /\ EditOK' /\ EditKeeps'
  BY Zenon, <1>4, NotEditing DEF BuildOK
<1>12. MergeOK'
  BY Zenon, <1>1, <1>2, <1>3, <1>5, <1>10 DEF Running, MergeOK
<1>13. InMemory'
  BY Zenon, <1>1, <1>5, MemoryFrame
<1>14. MemHolds' /\ GroupOK'
  BY Zenon, <1>1, <1>3, HoldsFrame
<1>15. QED
  BY Zenon, <1>1, <1>3, <1>6, <1>8, <1>9, <1>11, <1>12, <1>13, <1>14, UpStep DEF Running
-----------------------------------------------------------------------------
(* Moves and merges of tables.                                             *)

(* An idle thread that is scheduled without imm_ finds a table to compact. *)
LEMMA InputThere ==
  ASSUME Inv, proc = "up", bg.at = "idle", sched, imm = 0, NEW t \in FirstInput
  PROVE  t \in Version
<1>1. NeedsL0(vs) \/ vs.seek # 0
  BY Zenon, Numbers DEF SchedOK, HasWork
<1>2. CASE NeedsL0(vs)
  BY Zenon, <1>2 DEF FirstInput, Version
<1>3. CASE ~NeedsL0(vs)
  <2>1. vs.seek # 0 /\ t = vs.seek
    BY Zenon, <1>1, <1>3 DEF FirstInput
  <2>2. QED
    BY Zenon, <2>1, Numbers DEF Running, VersionOK
<1>4. QED
  BY Zenon, <1>2, <1>3

LEMMA MoveDownStep ==
  ASSUME Inv, MoveDown
  PROVE  Inv'
<1>1. /\ proc = "up" /\ bg.at = "idle" /\ sched /\ imm = 0
      /\ UNCHANGED <<logs, tables, manifests, current, proc, vs, mem, imm, memtabs, writers_,
                     wst, op, group, pending, sched, recov, reader, acked, excused>>
  BY Zenon DEF MoveDown, files, memVars, writeVars, history
<1>2. PICK t \in FirstInput :
        bg' = [bg EXCEPT !.at = "log", !.edit = Edit({}, {t}, {t}, vs.log)]
  BY Zenon DEF MoveDown
<1>3. t \in Version
  BY Zenon, <1>1, InputThere
<1>4. /\ Running /\ SchedOK /\ QueueOK /\ BgRec(bg) /\ VsRec(vs) /\ vs.next \in Nat
      /\ vs.log \in Nat /\ Version \subseteq DOMAIN tables /\ Version \subseteq Pos
      /\ mem \in DOMAIN logs /\ mem \in Nat /\ vs.log <= mem
      /\ mem < vs.next /\ Man.next <= vs.next /\ Below(Version, vs.next)
  BY Zenon, <1>1, Numbers DEF Pos, Running, VersionOK, MemsOK
<1>5. PICK T : T = {t}
  BY Zenon
<1>6. PICK e : e = Edit({}, T, T, vs.log)
  BY Zenon
<1>7. /\ EditRec(e) /\ e.add0 = {} /\ e.addLow = T /\ e.del = T /\ e.log = vs.log
      /\ e.next = vs.next
  <2>1. T \in SUBSET Pos /\ {} \in SUBSET Pos /\ IsFiniteSet({})
    BY Zenon, <1>3, <1>4, <1>5, NoneFinite
  <2>2. QED
    BY SMTT(60), <1>4, <1>6, <2>1, EditIs
<1>8. /\ BgRec(bg') /\ bg'.at = "log" /\ bg'.merge = bg.merge /\ bg'.out = bg.out
      /\ bg'.edit = e
  BY Zenon, <1>2, <1>4, <1>5, <1>6, <1>7 DEF BgRec
<1>9. Forms'
  BY Zenon, <1>1, <1>8 DEF Inv, Forms, LogsForm, TablesForm, ManForm, MemForm, ReaderForm
<1>10. QueueOK' /\ bg'.at \in BgStages
  BY Zenon, <1>1, <1>4, <1>8 DEF QueueOK, BgStages
<1>11. SchedOK'
  BY Zenon, <1>1, <1>4, <1>8 DEF SchedOK
<1>12. Man' = Man /\ current \in DOMAIN manifests' /\ vs'.next \in Nat /\ vs.next <= vs'.next
  BY SMTT(40), <1>1, <1>4, Numbers DEF Man
<1>13. VersionOK' /\ MemsOK' /\ DiskOK'
  BY Zenon, <1>1, <1>4, <1>8, <1>12, VersionFrame
<1>14. ReadersOK'
  BY Zenon, <1>1, <1>4, <1>8 DEF Running, ReadersOK, Reading
<1>15. BuildOK' /\ MergeOK'
  BY Zenon, <1>1, <1>4, <1>8 DEF Running, BuildOK, MergeOK
<1>16. NextL0' \cup NextLow' = Version /\ Editing' /\ Version' = Version
  BY Zenon, <1>1, <1>3, <1>5, <1>7, <1>8 DEF NextL0, NextLow, Version, Editing
<1>17. EditOK'
  <2>1. bg'.edit.add0 \cup bg'.edit.addLow \subseteq DOMAIN tables'
    BY Zenon, <1>1, <1>3, <1>4, <1>5, <1>7, <1>8
  <2>2. Below(NextL0 \cup NextLow, bg.edit.next)'
    BY Zenon, <1>4, <1>7, <1>8, <1>16 DEF Below
  <2>3. bg'.edit.log < bg'.edit.next /\ bg'.edit.next <= vs'.next /\ Man'.next <= bg'.edit.next
    BY SMTT(40), <1>1, <1>4, <1>7, <1>8, <1>12
  <2>4. bg'.edit.del # {} /\ bg'.edit.log = vs'.log
    BY Zenon, <1>1, <1>5, <1>7, <1>8
  <2>5. QED
    BY Zenon, <2>1, <2>2, <2>3, <2>4 DEF EditOK
<1>18. EditKeeps'
  <2>1. bg'.edit.del # {}
    BY Zenon, <1>5, <1>7, <1>8
  <2>2. QED
    BY Zenon, <1>1, <1>16, <2>1 DEF EditKeeps, InTables
<1>19. InMemory'
  BY Zenon, <1>1, MemoryFrame
<1>20. LoggedOps' = LoggedOps
  BY Zenon, <1>1 DEF LoggedOps
<1>21. MemHolds' /\ GroupOK'
  BY Zenon, <1>1, <1>20, HoldsFrame
<1>22. QED
  BY Zenon, <1>1, <1>9, <1>10, <1>11, <1>13, <1>14, <1>15, <1>17, <1>18, <1>19, <1>21, UpStep
     DEF Running

LEMMA PickCompactionStep ==
  ASSUME Inv, PickCompaction
  PROVE  Inv'
<1>1. /\ proc = "up" /\ bg.at = "idle" /\ sched /\ imm = 0
      /\ UNCHANGED <<logs, tables, manifests, current, proc, vs, mem, imm, memtabs, writers_,
                     wst, op, group, pending, sched, recov, reader, acked, excused>>
  BY Zenon DEF PickCompaction, files, memVars, writeVars, history
<1>2. PICK t \in FirstInput, in \in SUBSET (vs.l0 \cup vs.low) :
        /\ t \in in
        /\ bg' = [bg EXCEPT !.at = "merge",
                            !.merge = [on |-> TRUE, in |-> in, out |-> 0,
                                       files |-> vs.l0 \cup vs.low]]
  BY Zenon DEF PickCompaction
<1>3. /\ Running /\ SchedOK /\ QueueOK /\ BgRec(bg) /\ vs.next \in Nat
      /\ EditRec(bg.edit) /\ bg.out \in Nat
      /\ Version \subseteq DOMAIN tables /\ mem \in DOMAIN logs
  BY Zenon, <1>1, Numbers DEF Pos, Running, VersionOK, MemsOK
<1>4. PICK g : g = [on |-> TRUE, in |-> in, out |-> 0, files |-> vs.l0 \cup vs.low]
  BY Zenon
<1>5. /\ g.on /\ g.in = in /\ g.out = 0 /\ g.files = Version
      /\ g = [on |-> TRUE, in |-> g.in, out |-> g.out, files |-> g.files]
  BY Zenon, <1>4 DEF Version
<1>6. MergeRec(g) /\ in \subseteq Version
  BY <1>2, <1>5 DEF MergeRec, Version
<1>7. BgRec(bg') /\ bg'.at = "merge" /\ bg'.merge = g /\ bg'.out = bg.out
  <2>1. bg' = [bg EXCEPT !.at = "merge", !.merge = g]
    BY Zenon, <1>2, <1>4
  <2>2. bg' = [at |-> "merge", merge |-> g, out |-> bg.out, edit |-> bg.edit]
    BY Zenon, <1>3, <2>1 DEF BgRec
  <2>3. QED
    BY Zenon, <1>3, <1>6, <2>2 DEF BgRec
<1>8. Forms'
  BY Zenon, <1>1, <1>7 DEF Inv, Forms, LogsForm, TablesForm, ManForm, MemForm, ReaderForm
<1>9. QueueOK' /\ bg'.at \in BgStages
  BY Zenon, <1>1, <1>3, <1>7 DEF QueueOK, BgStages
<1>10. SchedOK'
  BY Zenon, <1>1, <1>3, <1>7 DEF SchedOK
<1>11. Man' = Man /\ current \in DOMAIN manifests' /\ vs'.next \in Nat /\ vs.next <= vs'.next
  BY SMTT(40), <1>1, <1>3, Numbers DEF Man
<1>12. VersionOK' /\ MemsOK' /\ DiskOK'
  BY Zenon, <1>1, <1>3, <1>7, <1>11, VersionFrame
<1>13. ReadersOK'
  BY Zenon, <1>1, <1>3, <1>7 DEF Running, ReadersOK, Reading
<1>14. BuildOK' /\ EditOK' /\ EditKeeps'
  BY Zenon, <1>7, NotEditing DEF BuildOK
<1>15. MergeOK'
  <2>1. Version' = Version
    BY Zenon, <1>1 DEF Version
  <2>2. QED
    BY Zenon, <1>5, <1>6, <1>7, <2>1 DEF MergeOK
<1>16. InMemory'
  BY Zenon, <1>1, MemoryFrame
<1>17. LoggedOps' = LoggedOps
  BY Zenon, <1>1 DEF LoggedOps
<1>18. MemHolds' /\ GroupOK'
  BY Zenon, <1>1, <1>17, HoldsFrame
<1>19. QED
  BY Zenon, <1>1, <1>8, <1>9, <1>10, <1>12, <1>13, <1>14, <1>15, <1>16, <1>18, UpStep DEF Running

LEMMA FinishCompactionStep ==
  ASSUME Inv, FinishCompaction
  PROVE  Inv'
<1>1. /\ proc = "up" /\ bg.at = "merge" /\ bg.merge.out # 0
      /\ tables' = [tables EXCEPT ![bg.merge.out] = UNION {tables[t] : t \in bg.merge.in}]
      /\ bg' = [bg EXCEPT !.at = "log", !.out = bg.merge.out,
                          !.edit = Edit({}, {bg.merge.out}, bg.merge.in, vs.log)]
      /\ UNCHANGED <<logs, manifests, current, proc, vs, mem, imm, memtabs, writers_, wst, op,
                     group, pending, sched, recov, reader, acked, excused>>
  BY Zenon, BgUp DEF FinishCompaction, memVars, writeVars, history
<1>2. /\ Running /\ SchedOK /\ QueueOK /\ BgRec(bg) /\ VsRec(vs) /\ vs.next \in Nat
      /\ vs.log \in Nat /\ Version \subseteq DOMAIN tables /\ Version \subseteq Pos
      /\ mem \in DOMAIN logs /\ (imm # 0 => imm \in DOMAIN logs)
      /\ mem \in Nat /\ vs.log <= mem
      /\ mem < vs.next /\ Man.next <= vs.next /\ Below(Version, vs.next)
      /\ MergeRec(bg.merge) /\ bg.merge.on
  BY Zenon, <1>1, Numbers DEF Pos, Running, VersionOK, MemsOK, MergeOK
<1>3. PICK o, I : o = bg.merge.out /\ I = bg.merge.in
  BY Zenon
<1>4. /\ o \in Nat /\ o # 0 /\ I # {} /\ I \subseteq Version /\ o \in DOMAIN tables
      /\ o \notin Version /\ o < vs.next
  BY <1>1, <1>2, <1>3 DEF MergeRec, NoMerge, Running, MergeOK
<1>5. PICK O : O = {o}
  BY Zenon
<1>6. PICK e : e = Edit({}, O, I, vs.log)
  BY Zenon
<1>7. /\ EditRec(e) /\ e.add0 = {} /\ e.addLow = O /\ e.del = I /\ e.log = vs.log
      /\ e.next = vs.next
  <2>1. O \in SUBSET Pos /\ {} \in SUBSET Pos /\ IsFiniteSet({})
    BY Zenon, <1>4, <1>5, NoneFinite DEF Pos
  <2>2. QED
    BY <1>2, <1>6, <2>1, EditIs
<1>8. /\ BgRec(bg') /\ bg'.at = "log" /\ bg'.merge = bg.merge /\ bg'.out = o
      /\ bg'.edit = e
  <2>1. bg' = [bg EXCEPT !.at = "log", !.out = o, !.edit = e]
    BY Zenon, <1>1, <1>3, <1>5, <1>6
  <2>2. QED
    BY Zenon, <1>2, <1>4, <1>7, <2>1 DEF BgRec
<1>9. /\ TablesForm' /\ DOMAIN tables' = DOMAIN tables
      /\ \A t \in I : tables[t] \subseteq tables'[o]
      /\ \A t \in Version : tables'[t] = tables[t]
  BY ZenonT(60), <1>1, <1>2, <1>3, <1>4 DEF Inv, Forms, TablesForm
<1>10. Forms'
  BY ZenonT(60), <1>1, <1>8, <1>9 DEF Inv, Forms, LogsForm, ManForm, MemForm, ReaderForm
<1>11. QueueOK' /\ bg'.at \in BgStages
  BY Zenon, <1>1, <1>2, <1>8 DEF QueueOK, BgStages
<1>12. SchedOK'
  BY Zenon, <1>1, <1>2, <1>8 DEF SchedOK
<1>13. Man' = Man /\ current \in DOMAIN manifests' /\ vs'.next \in Nat /\ vs.next <= vs'.next
  BY SMTT(40), <1>1, <1>2, Numbers DEF Man
<1>14. VersionOK' /\ MemsOK' /\ DiskOK'
  BY Zenon, <1>1, <1>2, <1>8, <1>9, <1>13, VersionFrame
<1>15. ReadersOK'
  BY Zenon, <1>1, <1>2, <1>8, <1>9 DEF Running, ReadersOK, Reading
<1>16. Version' = Version
  BY Zenon, <1>1 DEF Version
<1>17. BuildOK' /\ MergeOK'
  BY SMTT(40), <1>1, <1>2, <1>8, <1>9, <1>16 DEF Running, BuildOK, MergeOK
<1>18. /\ Editing' /\ NextL0' \cup NextLow' = (Version \ I) \cup O
  BY Zenon, <1>1, <1>7, <1>8 DEF NextL0, NextLow, Version, Editing
<1>19. EditOK'
  <2>1. bg'.edit.add0 \cup bg'.edit.addLow \subseteq DOMAIN tables'
    BY Zenon, <1>4, <1>5, <1>7, <1>8, <1>9
  <2>2. Below(NextL0 \cup NextLow, bg.edit.next)'
    BY Zenon, <1>2, <1>4, <1>5, <1>7, <1>8, <1>18 DEF Below
  <2>3. bg'.edit.log < bg'.edit.next /\ bg'.edit.next <= vs'.next /\ Man'.next <= bg'.edit.next
    BY SMTT(40), <1>1, <1>2, <1>7, <1>8, <1>13
  <2>4. bg'.edit.del # {} /\ bg'.edit.log = vs'.log
    BY Zenon, <1>1, <1>4, <1>7, <1>8
  <2>5. QED
    BY Zenon, <2>1, <2>2, <2>3, <2>4 DEF EditOK
<1>20. EditKeeps'
  <2>1. bg'.edit.del # {}
    BY Zenon, <1>4, <1>7, <1>8
  <2>2. ASSUME NEW t \in Version, NEW f \in tables'[t]
        PROVE  InTables(OpOf(f), tables', (Version \ I) \cup O)
    <3>1. CASE t \in I
      BY Zenon, <1>5, <1>9, <2>2, <3>1 DEF InTables
    <3>2. CASE t \notin I
      BY Zenon, <2>2, <3>2 DEF InTables
    <3>3. QED
      BY Zenon, <3>1, <3>2
  <2>3. QED
    BY Zenon, <1>16, <1>18, <2>1, <2>2 DEF EditKeeps
<1>21. InMemory'
  BY Zenon, <1>1, <1>9, MemoryFrame
<1>22. LoggedOps' = LoggedOps
  BY Zenon, <1>1 DEF LoggedOps
<1>23. MemHolds' /\ GroupOK'
  BY Zenon, <1>1, <1>22, HoldsFrame
<1>24. QED
  BY Zenon, <1>1, <1>10, <1>11, <1>12, <1>14, <1>15, <1>17, <1>19, <1>20, <1>21, <1>23, UpStep
     DEF Running
-----------------------------------------------------------------------------
LEMMA FailCompactionStep ==
  ASSUME Inv, bg.at \in {"merge", "undo"}, FailCompaction,
         UNCHANGED <<current, proc, vs, memVars, writers_, op, group, sched, recov, reader,
                     history>>
  PROVE  Inv'
<1>1. /\ proc = "up" /\ wst' = Signalled(wst) /\ bg' = [NoBg EXCEPT !.at = "sleep"]
      /\ UNCHANGED <<current, proc, vs, mem, imm, memtabs, writers_, op,
                     group, sched, recov, reader, acked, excused>>
  BY Zenon, BgUp DEF FailCompaction, memVars, history
<1>2. PICK live : /\ Version \cup Referred \subseteq live
                  /\ DeleteObsoleteFiles(vs, live)
  BY Zenon DEF FailCompaction, Live, Version
<1>3. /\ Running /\ QueueOK /\ SchedOK /\ VsRec(vs) /\ vs.next \in Nat
      /\ Version \subseteq DOMAIN tables /\ current = vs.manifest /\ current \in Nat
      /\ mem \in DOMAIN logs /\ (imm # 0 => imm \in DOMAIN logs /\ vs.log <= imm)
      /\ vs.log <= mem /\ current \in DOMAIN manifests
      /\ vs.log \in Nat /\ mem \in Nat /\ imm \in Nat
  BY Zenon, <1>1, Numbers DEF Pos, Running, VersionOK, MemsOK
<1>4. /\ LogsForm' /\ TablesForm' /\ ManForm'
      /\ \A n \in DOMAIN logs : n >= vs.log => n \in DOMAIN logs' /\ logs'[n] = logs[n]
      /\ \A t \in DOMAIN tables \cap live : t \in DOMAIN tables' /\ tables'[t] = tables[t]
      /\ \A n \in DOMAIN manifests :
           n >= vs.manifest => n \in DOMAIN manifests' /\ manifests'[n] = manifests[n]
  <2>1. LogsForm /\ ManForm
    BY Zenon DEF Inv, Forms
  <2>2. QED
    BY Zenon, <1>1, <1>2, <2>1, Kept
<1>5. /\ mem \in DOMAIN logs' /\ logs'[mem] = logs[mem]
      /\ imm # 0 => imm \in DOMAIN logs' /\ logs'[imm] = logs[imm]
      /\ current \in DOMAIN manifests' /\ Man' = Man
  BY <1>1, <1>3, <1>4 DEF Man
<1>6. BgRec(bg') /\ bg'.merge = NoMerge /\ bg'.at = "sleep" /\ bg'.out \in Nat
  BY Zenon, <1>1, NoBgIs DEF BgRec
<1>7. /\ QueueOK' /\ LoggedOps' = LoggedOps
      /\ \A w \in Writers : /\ wst'[w] # "waiting"
                            /\ wst'[w] = "logged" <=> wst[w] = "logged"
                            /\ wst'[w] = "inserted" <=> wst[w] = "inserted"
  BY Zenon, <1>1, <1>3, SignalledQueue
<1>8. Forms' /\ bg'.at \in BgStages
  BY Zenon, <1>1, <1>4, <1>6 DEF Inv, Forms, MemForm, ReaderForm, BgStages
<1>9. SchedOK'
  BY SMTT(40), <1>1, <1>3, <1>6, <1>7 DEF SchedOK
<1>10. vs'.next \in Nat /\ vs.next <= vs'.next /\ Version \subseteq DOMAIN tables'
  BY SMTT(40), <1>1, <1>2, <1>3, <1>4
<1>11. VersionOK' /\ MemsOK' /\ DiskOK'
  BY Zenon, <1>1, <1>5, <1>6, <1>10, VersionFrame
<1>12. ReadersOK'
  <2>1. Referred \subseteq DOMAIN tables
    BY Zenon, <1>3 DEF Running, ReadersOK, Referred
  <2>2. Referred \subseteq DOMAIN tables'
    BY Zenon, <1>2, <1>4, <2>1
  <2>3. QED
    BY Zenon, <1>1, <1>6, <1>10, <2>2, ReadersFrame
<1>13. BuildOK' /\ EditOK' /\ EditKeeps' /\ MergeOK'
  BY SMTT(60), <1>6, NotEditing DEF BuildOK, MergeOK, NoMerge
<1>14. InMemory'
  <2>1. \A t \in Version : tables'[t] = tables[t]
    BY Zenon, <1>2, <1>3, <1>4
  <2>2. QED
    BY Zenon, <1>1, <1>5, <2>1, MemoryFrame
<1>15. MemHolds' /\ GroupOK'
  BY Zenon, <1>1, <1>5, <1>7, HoldsFrame
<1>16. QED
  BY Zenon, <1>1, <1>7, <1>8, <1>9, <1>11, <1>12, <1>13, <1>14, <1>15, UpStep DEF Running
-----------------------------------------------------------------------------
(* The record of an edit in the manifest.                                  *)
LEMMA LogRecordStep ==
  ASSUME Inv, LogRecord
  PROVE  Inv'
<1>1. /\ proc = "up" /\ bg.at = "log"
      /\ manifests' = [manifests EXCEPT ![vs.manifest] = Applied(@, bg.edit)]
      /\ bg' = [bg EXCEPT !.at = "install"]
      /\ UNCHANGED <<logs, tables, current, proc, vs, mem, imm, memtabs, writers_, wst, op,
                     group, pending, sched, recov, reader, acked, excused>>
  BY Zenon, BgUp DEF LogRecord, memVars, writeVars, history
<1>2. /\ Running /\ QueueOK /\ SchedOK /\ DiskOK /\ BgRec(bg) /\ EditRec(bg.edit)
      /\ current = vs.manifest /\ current \in DOMAIN manifests /\ current \in Nat
      /\ ManRec(Man) /\ Man.next \in Nat /\ bg.edit.next \in Nat /\ vs.next \in Nat
      /\ current # 0 /\ VersionOK /\ EditOK /\ Editing
  BY Zenon, <1>1, Numbers DEF Pos, Running, Editing
<1>3. bg.edit.next \in Pos /\ current < bg.edit.next
  <2>1. current < Man.next /\ Man.next <= bg.edit.next
    BY Zenon, <1>2 DEF DiskOK, EditOK
  <2>2. QED
    BY <1>2, <2>1 DEF Pos
<1>4. /\ ManRec(Applied(Man, bg.edit))
      /\ Applied(Man, bg.edit).l0 = (Man.l0 \ bg.edit.del) \cup bg.edit.add0
      /\ Applied(Man, bg.edit).low = (Man.low \ bg.edit.del) \cup bg.edit.addLow
      /\ Applied(Man, bg.edit).log = bg.edit.log /\ Applied(Man, bg.edit).next = bg.edit.next
  BY ZenonT(60), <1>2, <1>3, ManRecord
<1>5. /\ Man' = Applied(Man, bg.edit) /\ DOMAIN manifests' = DOMAIN manifests
      /\ manifests' = [n \in DOMAIN manifests |-> manifests'[n]]
      /\ \A n \in DOMAIN manifests : n # current => manifests'[n] = manifests[n]
  BY Zenon, <1>1, <1>2 DEF Man, Inv, Forms, ManForm
<1>6. ManForm'
  <2>1. manifests'[current] = Man'
    BY Zenon, <1>1 DEF Man
  <2>2. QED
    BY Zenon, <1>1, <1>2, <1>4, <1>5, <2>1 DEF Inv, Forms, ManForm
<1>7. /\ BgRec(bg') /\ bg'.at = "install" /\ bg'.merge = bg.merge /\ bg'.out = bg.out
      /\ bg'.edit = bg.edit
  BY Zenon, <1>1, <1>2 DEF BgRec
<1>8. Forms' /\ QueueOK' /\ bg'.at \in BgStages
  BY ZenonT(60), <1>1, <1>2, <1>6, <1>7 DEF Inv, Forms, LogsForm, TablesForm, MemForm, ReaderForm,
                                QueueOK, BgStages
<1>9. SchedOK'
  BY Zenon, <1>1, <1>2, <1>7 DEF SchedOK
<1>10. UNCHANGED <<Version, NextL0, NextLow, Editing>>
  BY SMTT(40), <1>1, <1>2, <1>7 DEF Version, NextL0, NextLow, Editing
<1>11. Man'.l0 = NextL0 /\ Man'.low = NextLow /\ Man'.log = bg.edit.log /\ Man'.next = bg.edit.next
  BY Zenon, <1>1, <1>2, <1>4, <1>5 DEF VersionOK, NextL0, NextLow
<1>12. VersionOK'
  BY Zenon, <1>1, <1>2, <1>7, <1>10, <1>11 DEF VersionOK, EditOK
<1>13. EditOK'
  BY SMTT(40), <1>1, <1>2, <1>7, <1>10, <1>11 DEF EditOK, Below
<1>14. DiskOK'
  <2>1. ManTables(Man') = NextL0 \cup NextLow
    BY Zenon, <1>11 DEF ManTables
  <2>2. NextL0 \cup NextLow \subseteq DOMAIN tables
    BY Zenon, <1>2 DEF VersionOK, EditOK, NextL0, NextLow, Version
  <2>3. QED
    BY Zenon, <1>1, <1>2, <1>3, <1>5, <1>11, <2>1, <2>2 DEF DiskOK, EditOK
<1>15. MemsOK' /\ ReadersOK' /\ BuildOK' /\ MergeOK'
  BY SMTT(40), <1>1, <1>2, <1>7, <1>10 DEF Running, MemsOK, ReadersOK, BuildOK, MergeOK, Reading
<1>16. InMemory' /\ EditKeeps'
  BY Zenon, <1>1, <1>2, <1>7, <1>10 DEF Running, InMemory, EditKeeps
<1>17. LoggedOps' = LoggedOps
  BY Zenon, <1>1 DEF LoggedOps
<1>18. MemHolds' /\ GroupOK'
  BY Zenon, <1>1, <1>17, HoldsFrame
<1>19. QED
  BY Zenon, <1>1, <1>8, <1>9, <1>12, <1>13, <1>14, <1>15, <1>16, <1>18, UpStep DEF Running

LEMMA LogRecordFailsStep ==
  ASSUME Inv, LogRecordFails
  PROVE  Inv'
<1>1. /\ proc = "up" /\ bg.at = "log"
      /\ UNCHANGED <<logs, tables, current, proc, vs, mem, imm, memtabs, writers_, op,
                     group, pending, sched, recov, reader, acked, excused>>
  BY Zenon, BgUp DEF LogRecordFails, memVars, history
<1>2. /\ Running /\ QueueOK /\ SchedOK /\ DiskOK /\ BgRec(bg) /\ EditRec(bg.edit)
      /\ current = vs.manifest /\ current \in DOMAIN manifests /\ vs.next \in Nat
      /\ Version \subseteq DOMAIN tables
      /\ mem \in DOMAIN logs /\ (imm # 0 => imm \in DOMAIN logs)
  BY Zenon, <1>1, Numbers DEF Pos, Running, MemsOK, VersionOK
<1>3. /\ ManForm' /\ DOMAIN manifests' = DOMAIN manifests
      /\ UNCHANGED <<Man.l0, Man.low, Man.log, Man.next>>
  <2>1. CASE manifests' = manifests
    BY Zenon, <1>1, <2>1 DEF Inv, Forms, ManForm, Man
  <2>2. CASE manifests' = [manifests EXCEPT ![vs.manifest].torn = TRUE]
    <3>1. ManRec(Man) /\ ManForm
      BY Zenon, <1>1, Numbers DEF Inv, Forms
    <3>2. PICK m : m = [Man EXCEPT !.torn = TRUE]
      BY Zenon
    <3>3. ManRec(m) /\ m.l0 = Man.l0 /\ m.low = Man.low /\ m.log = Man.log /\ m.next = Man.next
      BY Zenon, <3>1, <3>2 DEF ManRec
    <3>4. /\ DOMAIN manifests' = DOMAIN manifests /\ manifests'[current] = m
          /\ manifests' = [n \in DOMAIN manifests |-> manifests'[n]]
          /\ \A n \in DOMAIN manifests : n # current => manifests'[n] = manifests[n]
      BY Zenon, <1>2, <2>2, <3>1, <3>2 DEF Man, ManForm
    <3>5. ManForm'
      BY Zenon, <1>1, <3>1, <3>3, <3>4 DEF ManForm
    <3>6. Man' = m
      BY Zenon, <1>1, <3>4 DEF Man
    <3>7. QED
      BY Zenon, <3>3, <3>4, <3>5, <3>6
  <2>3. QED
    BY Zenon, <2>1, <2>2 DEF LogRecordFails
<1>4. /\ BgRec(bg') /\ bg'.merge = bg.merge /\ bg'.out \in Nat
      /\ bg'.at \in {"undo", "merge", "sleep"}
      /\ bg'.at \in {"undo", "merge"} => bg.merge.on
      /\ bg'.at = "sleep" => ~bg.merge.on
      /\ QueueOK' /\ SchedOK' /\ LoggedOps' = LoggedOps
      /\ \A w \in Writers : /\ wst'[w] = "logged" <=> wst[w] = "logged"
                            /\ wst'[w] = "inserted" <=> wst[w] = "inserted"
  <2>1. CASE bg.edit.del # {} /\ bg.merge.on
    <3>1. wst' = wst /\ bg' = [bg EXCEPT !.at = "undo"]
      BY Zenon, <2>1 DEF LogRecordFails
    <3>2. BgRec(bg') /\ bg'.merge = bg.merge /\ bg'.out \in Nat /\ bg'.at = "undo"
      BY Zenon, <1>2, <3>1 DEF BgRec
    <3>3. QueueOK' /\ SchedOK' /\ LoggedOps' = LoggedOps
      BY SMTT(40), <1>1, <1>2, <3>1, <3>2 DEF QueueOK, SchedOK, LoggedOps
    <3>4. QED
      BY Zenon, <2>1, <3>1, <3>2, <3>3
  <2>2. CASE ~(bg.edit.del # {} /\ bg.merge.on)
    <3>1. AfterError
      BY Zenon, <2>2 DEF LogRecordFails
    <3>2. /\ BgRec(bg') /\ bg'.merge = bg.merge /\ bg'.out \in Nat
          /\ bg'.at = IF bg.merge.on THEN "merge" ELSE "sleep"
          /\ QueueOK' /\ SchedOK' /\ LoggedOps' = LoggedOps
          /\ \A w \in Writers : /\ wst'[w] = "logged" <=> wst[w] = "logged"
                                /\ wst'[w] = "inserted" <=> wst[w] = "inserted"
      BY Zenon, <1>1, <3>1, AfterErrorIs
    <3>3. QED
      BY Zenon, <3>2
  <2>3. QED
    BY Zenon, <2>1, <2>2
<1>5. Forms' /\ bg'.at \in BgStages
  BY Zenon, <1>1, <1>3, <1>4 DEF Inv, Forms, LogsForm, TablesForm, MemForm, ReaderForm, BgStages
<1>6. VersionOK' /\ MemsOK' /\ DiskOK'
  <2>1. vs'.next \in Nat /\ vs.next <= vs'.next
    BY SMTT(60), <1>1, <1>2
  <2>2. QED
    BY Zenon, <1>1, <1>2, <1>3, <1>4, <2>1, VersionFrame
<1>7. ReadersOK'
  BY Zenon, <1>1, <1>2, <1>4 DEF Running, ReadersOK, Reading
<1>8. BuildOK' /\ EditOK' /\ EditKeeps'
  BY Zenon, <1>4, NotEditing DEF BuildOK
<1>9. MergeOK'
  <2>1. Version' = Version
    BY Zenon, <1>1 DEF Version
  <2>2. QED
    BY Zenon, <1>1, <1>2, <1>4, <2>1 DEF Running, MergeOK
<1>10. InMemory'
  BY Zenon, <1>1, MemoryFrame
<1>11. MemHolds' /\ GroupOK'
  BY Zenon, <1>1, <1>4, HoldsFrame
<1>12. QED
  BY Zenon, <1>1, <1>4, <1>5, <1>6, <1>7, <1>8, <1>9, <1>10, <1>11, UpStep DEF Running
-----------------------------------------------------------------------------
(* The new version is installed.                                           *)
LEMMA Installed ==
  ASSUME Inv, proc = "up", bg.at = "install", vs' = NewVersion,
         UNCHANGED <<current, mem, acked, excused, reader>>,
         imm' = IF bg.edit.del = {} THEN 0 ELSE imm,
         bg'.at \notin {"build", "log", "install"}, bg'.out \in Nat,
         mem \in DOMAIN memtabs', imm' # 0 => imm' \in DOMAIN memtabs',
         current \in DOMAIN manifests', Man' = Man,
         \A n \in DOMAIN logs :
           n >= NewVersion.log => n \in DOMAIN logs' /\ logs'[n] = logs[n],
         \A t \in DOMAIN tables : t \in NextL0 \cup NextLow \cup Referred =>
                                    t \in DOMAIN tables' /\ tables'[t] = tables[t]
  PROVE  /\ VersionOK' /\ MemsOK' /\ DiskOK' /\ ReadersOK' /\ BuildOK' /\ EditOK' /\ EditKeeps'
         /\ InMemory' /\ VsRec(vs') /\ logs'[mem] = logs[mem]
         /\ imm' # 0 => logs'[imm] = logs[imm]
         /\ Version' = NextL0 \cup NextLow
         /\ vs'.next = vs.next
<1>1. /\ Running /\ VersionOK /\ MemsOK /\ EditOK /\ EditKeeps /\ InMemory /\ DiskOK /\ Editing
      /\ VsRec(vs) /\ EditRec(bg.edit) /\ vs.next \in Nat /\ mem \in Nat /\ imm \in Nat
      /\ current = vs.manifest /\ current # 0 /\ vs.log \in Nat /\ bg.edit.next \in Nat
      /\ Man.next \in Nat /\ bg.edit.log \in Nat
  BY Zenon, Numbers DEF Running, Pos, Editing
<1>2. /\ VsRec(vs') /\ vs'.l0 = NextL0 /\ vs'.low = NextLow /\ vs'.seek = 0
      /\ vs'.log = bg.edit.log /\ vs'.next = vs.next /\ vs'.manifest = vs.manifest
      /\ NewVersion.log = bg.edit.log
  BY Zenon, <1>1, NewVersionIs
<1>3. Version' = NextL0 \cup NextLow /\ NextL0 \cup NextLow \subseteq Pos
  BY Zenon, <1>2 DEF Version, VsRec
<1>4. /\ NextL0 \cup NextLow \subseteq DOMAIN tables
      /\ Below(NextL0 \cup NextLow, vs.next)
  <2>1. NextL0 \cup NextLow \subseteq DOMAIN tables
    BY Zenon, <1>1 DEF VersionOK, EditOK, NextL0, NextLow, Version
  <2>2. Below(NextL0 \cup NextLow, vs.next)
    <3>1. /\ Below(NextL0 \cup NextLow, bg.edit.next) /\ bg.edit.next <= vs.next
          /\ NextL0 \cup NextLow \subseteq Nat
      BY Zenon, <1>1, <1>3 DEF EditOK, Pos
    <3>2. QED
      BY <1>1, <3>1 DEF Below
  <2>3. QED
    BY Zenon, <2>1, <2>2
<1>5. /\ NextL0 \cup NextLow \subseteq DOMAIN tables'
      /\ \A t \in NextL0 \cup NextLow : tables'[t] = tables[t]
  BY Zenon, <1>4
<1>6. /\ bg.edit.log <= mem /\ (imm' # 0 => imm' = imm /\ bg.edit.log <= imm)
  BY SMTT(60), <1>1 DEF EditOK, MemsOK
<1>7. /\ mem \in DOMAIN logs' /\ logs'[mem] = logs[mem]
      /\ imm' # 0 => imm \in DOMAIN logs' /\ logs'[imm] = logs[imm]
  BY Zenon, <1>1, <1>2, <1>6 DEF MemsOK
<1>8. VersionOK'
  BY Zenon, <1>1, <1>2, <1>3, <1>4, <1>5 DEF VersionOK
<1>9. MemsOK'
  BY Zenon, <1>1, <1>2, <1>6, <1>7 DEF MemsOK
<1>10. DiskOK'
  <2>1. ManTables(Man) = NextL0 \cup NextLow
    BY Zenon, <1>1 DEF VersionOK, ManTables
  <2>2. QED
    BY Zenon, <1>1, <1>5, <2>1 DEF DiskOK
<1>11. ReadersOK'
  <2>1. Referred \subseteq DOMAIN tables
    BY Zenon, <1>1 DEF Running, ReadersOK, Referred
  <2>2. Referred \subseteq DOMAIN tables' /\ vs'.next \in Nat /\ vs.next <= vs'.next
    BY SMTT(60), <1>1, <1>2, <2>1
  <2>3. QED
    BY Zenon, <2>2, ReadersFrame
<1>12. BuildOK' /\ EditOK' /\ EditKeeps'
  BY Zenon, NotEditing DEF BuildOK
<1>13. InMemory'
  <2>1. SUFFICES ASSUME NEW a \in acked, a \notin excused
                 PROVE  \/ InTables(a, tables', NextL0 \cup NextLow)
                        \/ InLog(a, logs', mem)
                        \/ imm' # 0 /\ InLog(a, logs', imm')
    BY Zenon, <1>3 DEF InMemory
  <2>2. InTables(a, tables, NextL0 \cup NextLow) => InTables(a, tables', NextL0 \cup NextLow)
    BY Zenon, <1>5 DEF InTables
  <2>3. CASE InTables(a, tables, Version)
    BY Zenon, <1>1, <2>2, <2>3 DEF EditKeeps, InTables
  <2>4. CASE InLog(a, logs, mem)
    BY Zenon, <1>7, <2>4 DEF InLog
  <2>5. CASE imm # 0 /\ InLog(a, logs, imm)
    <3>1. CASE bg.edit.del = {}
      BY Zenon, <1>1, <2>2, <2>5, <3>1 DEF EditKeeps, InLog
    <3>2. CASE bg.edit.del # {}
      BY Zenon, <1>7, <2>5, <3>2 DEF InLog
    <3>3. QED
      BY Zenon, <3>1, <3>2
  <2>6. QED
    BY Zenon, <1>1, <2>1, <2>3, <2>4, <2>5 DEF InMemory
<1>14. QED
  BY Zenon, <1>2, <1>3, <1>7, <1>8, <1>9, <1>10, <1>11, <1>12, <1>13

LEMMA InstallMemTableStep ==
  ASSUME Inv, InstallMemTable
  PROVE  Inv'
<1>1. /\ proc = "up" /\ bg.at = "install" /\ bg.edit.del = {} /\ vs' = NewVersion /\ imm' = 0
      /\ wst' = Signalled(wst)
      /\ memtabs' = Only(memtabs, {mem} \cup MemsOf(Reading))
      /\ UNCHANGED <<current, proc, mem, writers_, op, group, pending, recov, reader,
                     acked, excused>>
  BY Zenon, BgUp DEF InstallMemTable, OfMemTable, history
<1>2. /\ Running /\ QueueOK /\ SchedOK /\ MergeRec(bg.merge) /\ VsRec(vs) /\ EditRec(bg.edit)
      /\ mem \in DOMAIN memtabs /\ current = vs.manifest /\ current \in DOMAIN manifests
      /\ current \in Nat
  BY Zenon, <1>1, Numbers DEF Running, MemsOK
<1>3. /\ NewVersion.l0 = NextL0 /\ NewVersion.low = NextLow
      /\ NewVersion.manifest = vs.manifest
  BY Zenon, <1>2, NewVersionIs
<1>4. PICK live : /\ NextL0 \cup NextLow \cup Referred \cup pending \subseteq live
                  /\ DeleteObsoleteFiles(NewVersion, live)
  BY Zenon, <1>3 DEF InstallMemTable, Live
<1>5. /\ LogsForm' /\ TablesForm' /\ ManForm'
      /\ \A n \in DOMAIN logs : n >= NewVersion.log => n \in DOMAIN logs' /\ logs'[n] = logs[n]
      /\ \A t \in DOMAIN tables \cap live : t \in DOMAIN tables' /\ tables'[t] = tables[t]
      /\ \A n \in DOMAIN manifests : n >= NewVersion.manifest =>
                                     n \in DOMAIN manifests' /\ manifests'[n] = manifests[n]
  <2>1. LogsForm /\ ManForm
    BY Zenon DEF Inv, Forms
  <2>2. QED
    BY Zenon, <1>1, <1>4, <2>1, Kept
<1>6. current \in DOMAIN manifests' /\ Man' = Man
  <2>1. current \in DOMAIN manifests /\ current = NewVersion.manifest /\ current \in Nat
    BY Zenon, <1>2, <1>3
  <2>2. current >= NewVersion.manifest
    BY <2>1
  <2>3. current \in DOMAIN manifests' /\ manifests'[current] = manifests[current]
    BY Zenon, <1>5, <2>1, <2>2
  <2>4. QED
    BY Zenon, <1>1, <2>3 DEF Man
<1>7. /\ memtabs' = [n \in DOMAIN memtabs' |-> memtabs'[n]]
      /\ mem \in DOMAIN memtabs' /\ memtabs'[mem] = memtabs[mem]
  BY Zenon, <1>1, <1>2 DEF Only
<1>8. PICK a : a = IF bg.merge.on THEN "merge" ELSE "idle"
  BY Zenon
<1>9. BgRec(bg') /\ bg'.merge = bg.merge /\ bg'.at = a /\ bg'.out \in Nat
  <2>1. bg' = [NoBg EXCEPT !.at = a, !.merge = bg.merge]
    BY Zenon, <1>8 DEF InstallMemTable
  <2>2. QED
    BY Zenon, <1>2, <2>1, NoBgIs DEF BgRec
<1>10. /\ VersionOK' /\ MemsOK' /\ DiskOK' /\ ReadersOK' /\ BuildOK' /\ EditOK' /\ EditKeeps'
       /\ InMemory' /\ VsRec(vs') /\ logs'[mem] = logs[mem]
       /\ Version' = NextL0 \cup NextLow /\ vs'.next = vs.next
  <2>1. bg'.at \notin {"build", "log", "install"}
    BY Zenon, <1>8, <1>9
  <2>2. \A t \in DOMAIN tables : t \in NextL0 \cup NextLow \cup Referred =>
                                   t \in DOMAIN tables' /\ tables'[t] = tables[t]
    BY Zenon, <1>4, <1>5
  <2>3. QED
    BY Zenon, <1>1, <1>5, <1>6, <1>7, <1>9, <2>1, <2>2, Installed
<1>11. /\ QueueOK' /\ LoggedOps' = LoggedOps
       /\ \A w \in Writers : /\ wst'[w] # "waiting"
                             /\ wst'[w] = "logged" <=> wst[w] = "logged"
                             /\ wst'[w] = "inserted" <=> wst[w] = "inserted"
  BY Zenon, <1>1, <1>2, SignalledQueue
<1>12. Forms' /\ bg'.at \in BgStages
  BY Zenon, <1>1, <1>5, <1>7, <1>8, <1>9, <1>10 DEF Inv, Forms, MemForm, ReaderForm, BgStages
<1>13. SchedOK'
  <2>1. CASE bg.merge.on
    BY Zenon, <1>1, <1>2, <1>8, <1>9, <1>11, <2>1 DEF InstallMemTable, SchedOK
  <2>2. CASE ~bg.merge.on
    <3>1. sched' = HasWork(imm', vs')
      BY Zenon, <1>1, <2>2 DEF InstallMemTable, Resched
    <3>2. sched' \in BOOLEAN
      BY Zenon, <3>1 DEF HasWork, NeedsL0
    <3>3. QED
      BY Zenon, <1>8, <1>9, <1>11, <2>2, <3>1, <3>2 DEF SchedOK
  <2>3. QED
    BY Zenon, <2>1, <2>2
<1>14. MergeOK'
  <2>1. /\ Version \subseteq NextL0 \cup NextLow
        /\ NextL0 \cup NextLow = Version \cup bg.edit.add0 \cup bg.edit.addLow
    BY Zenon, <1>1 DEF Version, NextL0, NextLow
  <2>2. bg.merge.on => bg.merge.out \notin bg.edit.add0 \cup bg.edit.addLow
    BY Zenon, <1>1, <1>2 DEF Running, EditOK, Editing
  <2>3. \A t \in DOMAIN tables : t \in pending => t \in DOMAIN tables'
    BY Zenon, <1>4, <1>5
  <2>4. QED
    BY Zenon, <1>1, <1>2, <1>8, <1>9, <1>10, <2>1, <2>2, <2>3 DEF Running, MergeOK
<1>15. MemHolds' /\ GroupOK'
  BY ZenonT(60), <1>1, <1>2, <1>7, <1>10, <1>11 DEF Running, MemHolds, GroupOK, InLog
<1>16. QED
  BY Zenon, <1>1, <1>10, <1>11, <1>12, <1>13, <1>14, <1>15, UpStep DEF Running

(* The thread is idle again and reschedules itself.                        *)
LEMMA Rescheduled ==
  ASSUME bg' = NoBg, sched' = HasWork(imm', vs'), \A w \in Writers : wst'[w] # "waiting"
  PROVE  /\ SchedOK' /\ MergeOK' /\ BgRec(bg') /\ bg'.at \in BgStages
         /\ bg'.at \notin {"build", "log", "install"} /\ bg'.out \in Nat
<1>1. BgRec(bg') /\ bg'.at = "idle" /\ ~bg'.merge.on /\ bg'.out = 0
  BY Zenon, NoBgIs
<1>2. sched' \in BOOLEAN
  BY Zenon DEF HasWork, NeedsL0
<1>3. SchedOK'
  BY Zenon, <1>1, <1>2 DEF SchedOK
<1>4. QED
  BY SMTT(60), <1>1, <1>3 DEF MergeOK, BgStages

LEMMA InstallMoveStep ==
  ASSUME Inv, InstallMove
  PROVE  Inv'
<1>1. /\ proc = "up" /\ bg.at = "install" /\ bg.edit.del # {} /\ vs' = NewVersion
      /\ wst' = Signalled(wst) /\ bg' = NoBg /\ sched' = HasWork(imm', vs')
      /\ UNCHANGED <<logs, tables, manifests, current, proc, mem, imm, memtabs, writers_, op,
                     group, pending, recov, reader, acked, excused>>
  BY Zenon, BgUp DEF InstallMove, OfMemTable, history, files, memVars, Resched
<1>2. /\ Running /\ QueueOK /\ mem \in DOMAIN memtabs /\ (imm # 0 => imm \in DOMAIN memtabs)
      /\ current \in DOMAIN manifests
  BY Zenon, <1>1, Numbers DEF Running, MemsOK
<1>3. /\ QueueOK' /\ LoggedOps' = LoggedOps
      /\ \A w \in Writers : /\ wst'[w] # "waiting"
                            /\ wst'[w] = "logged" <=> wst[w] = "logged"
                            /\ wst'[w] = "inserted" <=> wst[w] = "inserted"
  BY Zenon, <1>1, <1>2, SignalledQueue
<1>4. /\ SchedOK' /\ MergeOK' /\ BgRec(bg') /\ bg'.at \in BgStages
      /\ bg'.at \notin {"build", "log", "install"} /\ bg'.out \in Nat
  BY Zenon, <1>1, <1>3, Rescheduled
<1>5. /\ VersionOK' /\ MemsOK' /\ DiskOK' /\ ReadersOK' /\ BuildOK' /\ EditOK' /\ EditKeeps'
      /\ InMemory' /\ VsRec(vs')
  <2>1. Man' = Man
    BY Zenon, <1>1 DEF Man
  <2>2. QED
    BY Zenon, <1>1, <1>2, <1>4, <2>1, Installed
<1>6. Forms'
  BY Zenon, <1>1, <1>4, <1>5 DEF Inv, Forms, LogsForm, TablesForm, ManForm, MemForm, ReaderForm
<1>7. MemHolds' /\ GroupOK'
  BY Zenon, <1>1, <1>3, HoldsFrame
<1>8. QED
  BY Zenon, <1>1, <1>3, <1>4, <1>5, <1>6, <1>7, UpStep DEF Running

LEMMA InstallCompactionStep ==
  ASSUME Inv, InstallCompaction
  PROVE  Inv'
<1>1. /\ proc = "up" /\ bg.at = "install" /\ bg.edit.del # {} /\ vs' = NewVersion
      /\ wst' = Signalled(wst) /\ bg' = NoBg /\ sched' = HasWork(imm', vs')
      /\ UNCHANGED <<current, proc, mem, imm, memtabs, writers_, op,
                     group, recov, reader, acked, excused>>
  BY Zenon, BgUp DEF InstallCompaction, OfMemTable, history, memVars, Resched
<1>2. /\ Running /\ QueueOK /\ mem \in DOMAIN memtabs /\ (imm # 0 => imm \in DOMAIN memtabs)
      /\ current \in DOMAIN manifests /\ VsRec(vs) /\ EditRec(bg.edit)
      /\ current = vs.manifest /\ current \in Nat
  BY Zenon, <1>1, Numbers DEF Running, MemsOK
<1>3. /\ QueueOK' /\ LoggedOps' = LoggedOps
      /\ \A w \in Writers : /\ wst'[w] # "waiting"
                            /\ wst'[w] = "logged" <=> wst[w] = "logged"
                            /\ wst'[w] = "inserted" <=> wst[w] = "inserted"
  BY Zenon, <1>1, <1>2, SignalledQueue
<1>4. /\ SchedOK' /\ MergeOK' /\ BgRec(bg') /\ bg'.at \in BgStages
      /\ bg'.at \notin {"build", "log", "install"} /\ bg'.out \in Nat
  BY Zenon, <1>1, <1>3, Rescheduled
<1>5. /\ NewVersion.l0 = NextL0 /\ NewVersion.low = NextLow
      /\ NewVersion.manifest = vs.manifest
  BY Zenon, <1>2, NewVersionIs
<1>6. PICK live : /\ NextL0 \cup NextLow \cup Referred \subseteq live
                  /\ DeleteObsoleteFiles(NewVersion, live)
  BY Zenon, <1>5 DEF InstallCompaction, Live
<1>7. /\ LogsForm' /\ TablesForm' /\ ManForm'
      /\ \A n \in DOMAIN logs : n >= NewVersion.log => n \in DOMAIN logs' /\ logs'[n] = logs[n]
      /\ \A t \in DOMAIN tables \cap live : t \in DOMAIN tables' /\ tables'[t] = tables[t]
      /\ \A n \in DOMAIN manifests : n >= NewVersion.manifest =>
                                     n \in DOMAIN manifests' /\ manifests'[n] = manifests[n]
  <2>1. LogsForm /\ ManForm
    BY Zenon DEF Inv, Forms
  <2>2. QED
    BY Zenon, <1>1, <1>6, <2>1, Kept
<1>8. current \in DOMAIN manifests' /\ Man' = Man
  <2>1. current \in DOMAIN manifests /\ current = NewVersion.manifest /\ current \in Nat
    BY Zenon, <1>2, <1>5
  <2>2. current >= NewVersion.manifest
    BY <2>1
  <2>3. current \in DOMAIN manifests' /\ manifests'[current] = manifests[current]
    BY Zenon, <1>7, <2>1, <2>2
  <2>4. QED
    BY Zenon, <1>1, <2>3 DEF Man
<1>9. /\ VersionOK' /\ MemsOK' /\ DiskOK' /\ ReadersOK' /\ BuildOK' /\ EditOK' /\ EditKeeps'
      /\ InMemory' /\ VsRec(vs') /\ logs'[mem] = logs[mem]
      /\ imm' # 0 => logs'[imm] = logs[imm]
  <2>1. \A t \in DOMAIN tables : t \in NextL0 \cup NextLow \cup Referred =>
                                   t \in DOMAIN tables' /\ tables'[t] = tables[t]
    BY Zenon, <1>6, <1>7
  <2>2. imm' = IF bg.edit.del = {} THEN 0 ELSE imm
    BY Zenon, <1>1
  <2>3. mem \in DOMAIN memtabs' /\ (imm' # 0 => imm' \in DOMAIN memtabs')
    BY Zenon, <1>1, <1>2
  <2>4. QED
    BY Zenon, <1>1, <1>4, <1>7, <1>8, <2>1, <2>2, <2>3, Installed
<1>10. Forms'
  BY Zenon, <1>1, <1>4, <1>7, <1>9 DEF Inv, Forms, MemForm, ReaderForm
<1>11. MemHolds' /\ GroupOK'
  BY Zenon, <1>1, <1>3, <1>9, HoldsFrame
<1>12. QED
  BY Zenon, <1>1, <1>3, <1>4, <1>9, <1>10, <1>11, UpStep DEF Running

LEMMA EndSleepStep ==
  ASSUME Inv, EndSleep
  PROVE  Inv'
<1>1. /\ proc = "up" /\ bg.at = "sleep"
      /\ wst' = Signalled(wst) /\ bg' = NoBg /\ sched' = HasWork(imm', vs')
      /\ UNCHANGED <<logs, tables, manifests, current, proc, vs, mem, imm, memtabs, writers_,
                     op, group, pending, recov, reader, acked, excused>>
  BY Zenon, BgUp DEF EndSleep, history, files, memVars, Resched
<1>2. /\ Running /\ QueueOK /\ mem \in DOMAIN logs /\ (imm # 0 => imm \in DOMAIN logs)
      /\ current \in DOMAIN manifests /\ vs.next \in Nat /\ Version \subseteq DOMAIN tables
  BY Zenon, <1>1, Numbers DEF Running, MemsOK, VersionOK, Pos
<1>3. /\ QueueOK' /\ LoggedOps' = LoggedOps
      /\ \A w \in Writers : /\ wst'[w] # "waiting"
                            /\ wst'[w] = "logged" <=> wst[w] = "logged"
                            /\ wst'[w] = "inserted" <=> wst[w] = "inserted"
  BY Zenon, <1>1, <1>2, SignalledQueue
<1>4. /\ SchedOK' /\ MergeOK' /\ BgRec(bg') /\ bg'.at \in BgStages
      /\ bg'.at \notin {"build", "log", "install"} /\ bg'.out \in Nat
  BY Zenon, <1>1, <1>3, Rescheduled
<1>5. Forms'
  BY Zenon, <1>1, <1>4 DEF Inv, Forms, LogsForm, TablesForm, ManForm, MemForm, ReaderForm
<1>6. VersionOK' /\ MemsOK' /\ DiskOK'
  <2>1. Man' = Man /\ vs'.next \in Nat /\ vs.next <= vs'.next
    <3>1. Man' = Man
      BY Zenon, <1>1 DEF Man
    <3>2. vs' = vs /\ vs.next \in Nat
      BY Zenon, <1>1, <1>2
    <3>3. QED
      BY <3>1, <3>2
  <2>2. QED
    BY Zenon, <1>1, <1>2, <1>4, <2>1, VersionFrame
<1>7. ReadersOK' /\ BuildOK'
  BY Zenon, <1>1, <1>2, <1>4 DEF Running, ReadersOK, Reading, BuildOK
<1>8. EditOK' /\ EditKeeps'
  BY Zenon, <1>4, NotEditing
<1>9. InMemory'
  BY Zenon, <1>1, MemoryFrame
<1>10. MemHolds' /\ GroupOK'
  BY Zenon, <1>1, <1>3, HoldsFrame
<1>11. QED
  BY Zenon, <1>1, <1>3, <1>4, <1>5, <1>6, <1>7, <1>8, <1>9, <1>10, UpStep DEF Running

(* Every step of the background thread preserves the invariant.            *)
LEMMA BackgroundStep ==
  ASSUME Inv, BgStep
  PROVE  Inv'
<1>1. CASE CompactionFails
  BY Zenon, <1>1, FailCompactionStep DEF CompactionFails
<1>2. CASE UndoCompaction
  BY Zenon, <1>2, FailCompactionStep DEF UndoCompaction
<1>3. QED
  BY Zenon, <1>1, <1>2, CompactMemTableStep, BuildTableStep, BuildTableFailsStep, MoveDownStep,
     PickCompactionStep, OpenCompactionOutputFileStep, FinishCompactionStep, LogRecordStep,
     LogRecordFailsStep, InstallMemTableStep, InstallMoveStep, InstallCompactionStep,
     EndSleepStep
     DEF BgStep
-----------------------------------------------------------------------------
(* A step of DB::Open leaves queue, background thread and readers alone.   *)
LEMMA QuietStep ==
  ASSUME Inv, proc # "up", proc' # "up",
         UNCHANGED <<imm, writers_, wst, op, group, pending, sched, bg, reader>>
  PROVE  QueueOK' /\ Quiet' /\ SchedOK' /\ bg'.at \in BgStages /\ BgRec(bg') /\ ReaderForm'
<1>1. QueueOK /\ Quiet /\ SchedOK /\ bg.at \in BgStages /\ BgRec(bg) /\ ReaderForm
  BY Zenon DEF Inv, Forms
<1>2. QueueOK'
  BY Zenon, <1>1 DEF QueueOK
<1>3. Quiet'
  BY Zenon, <1>1 DEF Quiet
<1>4. SchedOK'
  BY Zenon, <1>1 DEF SchedOK, Quiet
<1>5. QED
  BY Zenon, <1>1, <1>2, <1>3, <1>4 DEF ReaderForm

LEMMA NewDBStep ==
  ASSUME Inv, NewDB
  PROVE  Inv'
<1>1. /\ proc = "down" /\ current = 0 /\ manifests' = With(manifests, 1, NewMan)
      /\ proc' = "newdb"
      /\ UNCHANGED <<logs, tables, current, vs, mem, imm, memtabs, writers_, wst, op, group,
                     pending, sched, bg, recov, reader, acked, excused>>
  BY Zenon DEF NewDB, NewMan, memVars, writeVars, bgVars, history
<1>2. QueueOK' /\ Quiet' /\ SchedOK' /\ bg'.at \in BgStages /\ BgRec(bg') /\ ReaderForm'
  BY Zenon, <1>1, QuietStep
<1>3. /\ DOMAIN manifests' = DOMAIN manifests \cup {1} /\ manifests'[1] = NewMan
      /\ \A n \in DOMAIN manifests : n # 1 => manifests'[n] = manifests[n]
      /\ manifests' = [n \in DOMAIN manifests' |-> manifests'[n]]
  BY Zenon, <1>1 DEF With
<1>4. ManRec(NewMan)
  BY NoneFinite DEF NewMan, ManRec, Pos
<1>5. ManForm'
  BY <1>1, <1>3, <1>4 DEF Inv, Forms, ManForm
<1>6. Forms'
  BY Zenon, <1>1, <1>2, <1>5 DEF Inv, Forms, LogsForm, TablesForm, MemForm
<1>7. DiskOK' /\ StartOK'
  BY Zenon, <1>1, <1>3 DEF Inv, DiskOK, StartOK
<1>8. QED
  BY Zenon, <1>1, <1>2, <1>6, <1>7 DEF Inv, Stages

LEMMA NewDBCurrentStep ==
  ASSUME Inv, NewDBCurrent
  PROVE  Inv'
<1>1. /\ proc = "newdb" /\ current' = 1 /\ proc' = "down"
      /\ UNCHANGED <<logs, tables, manifests, vs, mem, imm, memtabs, writers_, wst, op, group,
                     pending, sched, bg, recov, reader, acked, excused>>
  BY Zenon DEF NewDBCurrent, memVars, writeVars, bgVars, history
<1>2. QueueOK' /\ Quiet' /\ SchedOK' /\ bg'.at \in BgStages /\ BgRec(bg') /\ ReaderForm'
  BY Zenon, <1>1, QuietStep
<1>3. 1 \in DOMAIN manifests /\ manifests[1] = NewMan /\ acked = {}
  BY Zenon, <1>1 DEF Inv, StartOK
<1>4. Forms'
  BY Zenon, <1>1, <1>2 DEF Inv, Forms, LogsForm, TablesForm, ManForm, MemForm
<1>5. Man' = NewMan /\ ManTables(NewMan) = {} /\ NewMan.next = 2 /\ NewMan.log = 0
  BY Zenon, <1>1, <1>3 DEF Man, NewMan, ManTables
<1>6. DiskOK'
  BY <1>1, <1>3, <1>5 DEF DiskOK, Below
<1>7. StartOK'
  BY Zenon, <1>1, <1>3 DEF StartOK, Recoverable
<1>8. QED
  BY Zenon, <1>1, <1>2, <1>4, <1>6, <1>7 DEF Inv, Stages

(* What recovery starts from stays while Man does.                         *)
LEMMA RecoverableFrame ==
  ASSUME Recoverable, DiskOK, current # 0,
         UNCHANGED <<current, acked, Man.l0, Man.low, Man.log>>,
         excused \subseteq excused',
         \A t \in ManTables(Man) : tables'[t] = tables[t],
         \A n \in LogsFrom(Man.log) : n \in DOMAIN logs' /\ logs'[n] = logs[n]
  PROVE  Recoverable'
<1>1. ManTables(Man)' = ManTables(Man)
  BY Zenon DEF ManTables
<1>2. \A a : InTables(a, tables, ManTables(Man)) => InTables(a, tables', ManTables(Man))
  BY Zenon DEF InTables
<1>3. \A n \in LogsFrom(Man.log) :
        n \in LogsFrom(Man.log)' /\ \A a : InLog(a, logs, n) => InLog(a, logs', n)
  BY Zenon DEF LogsFrom, InLog
<1>4. QED
  BY Zenon, <1>1, <1>2, <1>3 DEF Recoverable

LEMMA VersionRecoverStep ==
  ASSUME Inv, VersionRecover
  PROVE  Inv'
<1>1. /\ proc = "down" /\ current # 0 /\ proc' = "replay"
      /\ vs' = [l0 |-> Man.l0, low |-> Man.low, seek |-> 0, log |-> Man.log,
                next |-> Man.next + 1, manifest |-> Man.next, seq |-> Man.seq]
      /\ recov' = [NoRecov EXCEPT !.todo = LogsFrom(Man.log)]
      /\ UNCHANGED <<logs, tables, manifests, current, mem, imm, memtabs, writers_, wst, op,
                     group, pending, sched, bg, reader, acked, excused>>
  BY Zenon DEF VersionRecover, Man, files, memVars, writeVars, bgVars, history
<1>2. QueueOK' /\ Quiet' /\ SchedOK' /\ bg'.at \in BgStages /\ BgRec(bg') /\ ReaderForm'
  BY Zenon, <1>1, QuietStep
<1>3. /\ DiskOK /\ ManRec(Man) /\ Recoverable
  BY Zenon, <1>1 DEF Inv, Forms, ManForm, DiskOK, Man, StartOK
<1>4. /\ vs'.l0 = Man.l0 /\ vs'.low = Man.low /\ vs'.seek = 0 /\ vs'.log = Man.log
      /\ vs'.next = Man.next + 1 /\ vs'.manifest = Man.next /\ VsRec(vs')
  BY <1>1, <1>3 DEF ManRec, VsRec, Pos
<1>5. PICK L : L = LogsFrom(Man.log)
  BY Zenon
<1>6. recov' = [todo |-> L, add |-> {}, seq |-> 0, ok |-> TRUE, doubt |-> {}]
  BY Zenon, <1>1, <1>5 DEF NoRecov
<1>7. RecovRec(recov') /\ recov'.todo = L /\ recov'.add = {}
  BY Zenon, <1>6, NoneFinite DEF RecovRec
<1>8. Forms'
  BY Zenon, <1>1, <1>2, <1>4, <1>7 DEF Inv, Forms, LogsForm, TablesForm, ManForm, MemForm
<1>9. Man' = Man /\ LogsFrom(Man.log)' = LogsFrom(Man.log)
  BY Zenon, <1>1 DEF Man, LogsFrom
<1>10. DiskOK'
  BY Zenon, <1>1, <1>3, <1>9 DEF DiskOK
<1>11. StartOK'
  <2>1. Recoverable'
    BY Zenon, <1>1, <1>3, <1>9 DEF Recoverable
  <2>2. QED
    BY Zenon, <1>1, <2>1 DEF StartOK
<1>12. Replaying'
  <2>1. Man.next \in Nat
    BY Zenon, <1>3 DEF ManRec, Pos
  <2>2. QED
    BY <1>4, <1>5, <1>7, <1>9, <2>1 DEF Replaying
<1>13. QED
  BY Zenon, <1>1, <1>2, <1>8, <1>10, <1>11, <1>12 DEF Inv, Stages

(* One more log is done: its operations are in a table or in doubt.        *)
LEMMA Replayed ==
  ASSUME Inv, proc = "replay", proc' = "replay", NEW n \in recov.todo,
         UNCHANGED <<logs, manifests, current, mem, imm, memtabs, writers_, wst, op, group,
                     pending, sched, bg, reader, acked, excused>>,
         TablesForm', DOMAIN tables \subseteq DOMAIN tables',
         \A t \in DOMAIN tables : t < vs.next => tables'[t] = tables[t],
         VsRec(vs'), vs'.l0 = vs.l0, vs'.low = vs.low, vs'.seek = vs.seek, vs'.log = vs.log,
         vs'.manifest = vs.manifest, vs.next <= vs'.next, n < vs'.next,
         RecovRec(recov'), recov'.todo = recov.todo \ {n}, recov.doubt \subseteq recov'.doubt,
         recov.add \subseteq recov'.add,
         \A t \in recov'.add : t \in recov.add \/ (t = vs.next /\ vs.next < vs'.next),
         recov'.add \subseteq DOMAIN tables',
         \A e \in logs[n].good :
           OpOf(e) \in recov'.doubt \/ InTables(OpOf(e), tables', recov'.add)
  PROVE  Inv'
<1>1. /\ Replaying /\ current # 0 /\ DiskOK /\ Recoverable /\ VsRec(vs) /\ ManForm
      /\ recov.add \subseteq Pos /\ LogsForm
  BY Zenon DEF Inv, Forms, StartOK, RecovRec
<1>2. /\ vs.next \in Nat /\ vs'.next \in Nat /\ ManRec(Man) /\ Man.next \in Nat
      /\ Man.next < vs.next /\ ManTables(Man) \subseteq DOMAIN tables
      /\ ManTables(Man) \subseteq Nat /\ Below(ManTables(Man), Man.next)
  BY Zenon, <1>1 DEF VsRec, Pos, ManForm, ManRec, DiskOK, Man, Replaying, ManTables
<1>3. Man' = Man /\ LogsFrom(Man.log)' = LogsFrom(Man.log)
  BY Zenon DEF Man, LogsFrom
<1>4. \A t \in ManTables(Man) : tables'[t] = tables[t]
  BY <1>2 DEF Below
<1>5. DiskOK'
  BY Zenon, <1>1, <1>2, <1>3 DEF DiskOK
<1>6. Recoverable'
  BY Zenon, <1>1, <1>3, <1>4, RecoverableFrame DEF LogsFrom
<1>7. StartOK'
  BY Zenon, <1>1, <1>6 DEF StartOK
<1>8. QueueOK' /\ Quiet' /\ SchedOK' /\ bg'.at \in BgStages /\ BgRec(bg') /\ ReaderForm'
  BY Zenon, QuietStep
<1>9. Forms'
  BY Zenon, <1>8 DEF Inv, Forms, LogsForm, ManForm, MemForm
<1>10. Replaying'
  <2>1. \A t \in recov'.add : Man.next < t /\ t < vs'.next
    BY <1>1, <1>2 DEF Replaying, Pos
  <2>2. \A t \in recov.add : tables'[t] = tables[t]
    BY Zenon, <1>1 DEF Replaying
  <2>3. ASSUME NEW x \in LogsFrom(Man.log) \ recov'.todo
        PROVE  /\ x < vs'.next
               /\ \A e \in logs[x].good :
                    OpOf(e) \in recov'.doubt \/ InTables(OpOf(e), tables', recov'.add)
    <3>1. CASE x = n
      BY Zenon, <3>1
    <3>2. CASE x # n
      <4>1. x \in LogsFrom(Man.log) \ recov.todo /\ x \in Nat
        BY Zenon, <1>1, <2>3, <3>2 DEF LogsForm, LogsFrom
      <4>2. /\ x < vs.next
            /\ \A e \in logs[x].good :
                 OpOf(e) \in recov.doubt \/ InTables(OpOf(e), tables, recov.add)
        BY Zenon, <1>1, <4>1 DEF Replaying
      <4>3. \A a : InTables(a, tables, recov.add) => InTables(a, tables', recov'.add)
        BY Zenon, <2>2 DEF InTables
      <4>4. QED
        BY <1>2, <4>1, <4>2, <4>3
    <3>3. QED
      BY Zenon, <3>1, <3>2
  <2>4. QED
    BY <1>1, <1>2, <1>3, <2>1, <2>3 DEF Replaying
<1>11. QED
  BY Zenon, <1>5, <1>7, <1>8, <1>9, <1>10 DEF Inv, Stages

LEMMA RecoverLogFileStep ==
  ASSUME Inv, RecoverLogFile
  PROVE  Inv'
<1>1. /\ proc = "replay" /\ proc' = "replay"
      /\ UNCHANGED <<logs, manifests, current, mem, imm, memtabs, writers_, wst, op, group,
                     pending, sched, bg, reader, acked, excused>>
  BY Zenon DEF RecoverLogFile, memVars, writeVars, bgVars, history
<1>2. PICK n \in recov.todo :
        /\ tables' = IF logs[n].good = {} THEN tables ELSE With(tables, vs.next, logs[n].good)
        /\ recov' = [recov EXCEPT !.todo = recov.todo \ {n},
                       !.add = IF logs[n].good = {} THEN recov.add
                               ELSE recov.add \cup {vs.next},
                       !.seq = LastSeq(logs[n].good, recov.seq),
                       !.ok = TRUE]
        /\ vs' = [vs EXCEPT !.next = MarkUsed(IF logs[n].good = {} THEN vs.next
                                              ELSE vs.next + 1, n)]
  BY Zenon DEF RecoverLogFile
<1>3. /\ Replaying /\ VsRec(vs) /\ vs.next \in Pos /\ n \in Nat /\ RecovRec(recov)
      /\ TablesForm
  BY Zenon, <1>1 DEF Inv, Forms, VsRec, Replaying, LogsForm, LogsFrom
<1>4. PICK k : k = MarkUsed(IF logs[n].good = {} THEN vs.next ELSE vs.next + 1, n)
  BY Zenon
<1>5. k \in Pos /\ vs.next <= k /\ n < k /\ (logs[n].good # {} => vs.next < k)
  BY <1>3, <1>4 DEF MarkUsed, Pos
<1>6. /\ VsRec(vs') /\ vs'.l0 = vs.l0 /\ vs'.low = vs.low /\ vs'.seek = vs.seek
      /\ vs'.log = vs.log /\ vs'.next = k /\ vs'.manifest = vs.manifest
  <2>1. vs' = [vs EXCEPT !.next = k]
    BY Zenon, <1>2, <1>4
  <2>2. QED
    BY Zenon, <1>3, <1>5, <2>1 DEF VsRec
<1>7. PICK T, A, s, t : /\ T = recov.todo \ {n} /\ s = LastSeq(logs[n].good, recov.seq)
                        /\ A = IF logs[n].good = {} THEN recov.add
                               ELSE recov.add \cup {vs.next}
                        /\ t = TRUE
  BY Zenon
<1>8. recov' = [recov EXCEPT !.todo = T, !.add = A, !.seq = s, !.ok = t]
  BY Zenon, <1>2, <1>7
<1>9. recov' = [todo |-> T, add |-> A, seq |-> s, ok |-> t, doubt |-> recov.doubt]
  BY Zenon, <1>3, <1>8 DEF RecovRec
<1>10. A \subseteq Pos /\ IsFiniteSet(A)
  <2>1. CASE logs[n].good = {}
    BY Zenon, <1>3, <1>7, <2>1 DEF RecovRec
  <2>2. CASE logs[n].good # {}
    <3>1. A = recov.add \cup {vs.next}
      BY Zenon, <1>7, <2>2
    <3>2. IsFiniteSet(A)
      BY Zenon, <1>3, <3>1, FiniteUnion, OneFinite DEF RecovRec
    <3>3. QED
      BY Zenon, <1>3, <3>1, <3>2 DEF RecovRec
  <2>3. QED
    BY Zenon, <2>1, <2>2
<1>11. /\ RecovRec(recov') /\ recov'.todo = T /\ recov'.add = A
       /\ recov'.doubt = recov.doubt
  BY Zenon, <1>9, <1>10 DEF RecovRec
<1>12. /\ TablesForm' /\ DOMAIN tables \subseteq DOMAIN tables'
       /\ \A x \in DOMAIN tables : x < vs.next => tables'[x] = tables[x]
       /\ logs[n].good # {} => vs.next \in DOMAIN tables' /\ tables'[vs.next] = logs[n].good
  <2>1. CASE logs[n].good = {}
    <3>1. tables' = tables
      BY Zenon, <1>2, <2>1
    <3>2. QED
      BY Zenon, <1>3, <2>1, <3>1 DEF TablesForm
  <2>2. CASE logs[n].good # {}
    <3>1. tables' = With(tables, vs.next, logs[n].good)
      BY Zenon, <1>2, <2>2
    <3>2. /\ TablesForm' /\ DOMAIN tables' = DOMAIN tables \cup {vs.next}
          /\ tables'[vs.next] = logs[n].good
          /\ \A x \in DOMAIN tables : x # vs.next => tables'[x] = tables[x]
      BY Zenon, <3>1 DEF With, TablesForm
    <3>3. \A x : x < vs.next => x # vs.next
      BY <1>3 DEF Pos
    <3>4. QED
      BY Zenon, <3>2, <3>3
  <2>3. QED
    BY Zenon, <2>1, <2>2
<1>13. recov'.add \subseteq DOMAIN tables'
  BY Zenon, <1>3, <1>7, <1>11, <1>12 DEF Replaying
<1>14. \A e \in logs[n].good : InTables(OpOf(e), tables', recov'.add)
  <2>1. SUFFICES ASSUME NEW e \in logs[n].good PROVE InTables(OpOf(e), tables', recov'.add)
    BY Zenon
  <2>2. vs.next \in recov'.add /\ e \in tables'[vs.next]
    BY Zenon, <1>7, <1>11, <1>12
  <2>3. QED
    BY Zenon, <2>2 DEF InTables
<1>15. \A x \in recov'.add : x \in recov.add \/ (x = vs.next /\ vs.next < vs'.next)
  BY Zenon, <1>5, <1>6, <1>7, <1>11
<1>16. QED
  BY Zenon, <1>1, <1>5, <1>6, <1>7, <1>11, <1>12, <1>13, <1>14, <1>15, Replayed

LEMMA RecoverLogFailsStep ==
  ASSUME Inv, RecoverLogFails
  PROVE  Inv'
<1>1. /\ proc = "replay" /\ proc' = "replay"
      /\ UNCHANGED <<logs, tables, manifests, current, mem, imm, memtabs, writers_, wst, op,
                     group, pending, sched, bg, reader, acked, excused>>
  BY Zenon DEF RecoverLogFails, files, memVars, writeVars, bgVars, history
<1>2. PICK n \in recov.todo :
        /\ recov' = [recov EXCEPT !.todo = recov.todo \ {n}, !.ok = FALSE,
                       !.seq = LastSeq(logs[n].good, recov.seq),
                       !.doubt = recov.doubt \cup Ops(logs[n].good)]
        /\ vs' = [vs EXCEPT !.next = MarkUsed(vs.next + 1, n)]
  BY Zenon DEF RecoverLogFails
<1>3. /\ Replaying /\ VsRec(vs) /\ vs.next \in Pos /\ n \in Nat /\ RecovRec(recov)
      /\ TablesForm
  BY Zenon, <1>1 DEF Inv, Forms, VsRec, Replaying, LogsForm, LogsFrom
<1>4. PICK k : k = MarkUsed(vs.next + 1, n)
  BY Zenon
<1>5. k \in Pos /\ vs.next <= k /\ n < k
  BY <1>3, <1>4 DEF MarkUsed, Pos
<1>6. /\ VsRec(vs') /\ vs'.l0 = vs.l0 /\ vs'.low = vs.low /\ vs'.seek = vs.seek
      /\ vs'.log = vs.log /\ vs'.next = k /\ vs'.manifest = vs.manifest
  <2>1. vs' = [vs EXCEPT !.next = k]
    BY Zenon, <1>2, <1>4
  <2>2. QED
    BY Zenon, <1>3, <1>5, <2>1 DEF VsRec
<1>7. PICK T, D, s, f : /\ T = recov.todo \ {n} /\ s = LastSeq(logs[n].good, recov.seq)
                        /\ D = recov.doubt \cup Ops(logs[n].good) /\ f = FALSE
  BY Zenon
<1>8. recov' = [recov EXCEPT !.todo = T, !.ok = f, !.seq = s, !.doubt = D]
  BY Zenon, <1>2, <1>7
<1>9. recov' = [todo |-> T, add |-> recov.add, seq |-> s, ok |-> f, doubt |-> D]
  BY Zenon, <1>3, <1>8 DEF RecovRec
<1>10. /\ RecovRec(recov') /\ recov'.todo = T /\ recov'.add = recov.add
       /\ recov'.doubt = D
  BY Zenon, <1>3, <1>9 DEF RecovRec
<1>11. recov'.add \subseteq DOMAIN tables' /\ TablesForm'
  BY Zenon, <1>1, <1>3, <1>10 DEF Replaying, TablesForm
<1>12. \A e \in logs[n].good : OpOf(e) \in recov'.doubt
  BY Zenon, <1>7, <1>10 DEF Ops
<1>13. recov.doubt \subseteq recov'.doubt
  BY Zenon, <1>7, <1>10
<1>14. QED
  BY Zenon, <1>1, <1>5, <1>6, <1>7, <1>10, <1>11, <1>12, <1>13, Replayed

LEMMA NewManifestStep ==
  ASSUME Inv, NewManifest
  PROVE  Inv'
<1>1. PICK n, m, s :
        /\ n = vs.next /\ s = MaxOf(vs.seq, recov.seq)
        /\ m = [l0 |-> vs.l0 \cup recov.add, low |-> vs.low, log |-> n,
                next |-> n + 1, seq |-> s, torn |-> FALSE]
        /\ proc = "replay" /\ recov.todo = {} /\ proc' = "manifest"
        /\ logs' = With(logs, n, EmptyLog) /\ mem' = n
        /\ vs' = [vs EXCEPT !.next = n + 1, !.seq = s]
        /\ memtabs' = With(memtabs, n, {})
        /\ manifests' = With(manifests, vs.manifest, m)
        /\ UNCHANGED <<tables, current, imm, writers_, wst, op, group, pending, sched, bg,
                       recov, reader, acked, excused>>
  BY Zenon DEF NewManifest, writeVars, bgVars, history
<1>2. /\ Replaying /\ DiskOK /\ Recoverable /\ VsRec(vs) /\ RecovRec(recov) /\ ManForm
      /\ current # 0 /\ LogsForm /\ TablesForm /\ MemForm
  BY Zenon, <1>1 DEF Inv, Forms, StartOK
<1>3. /\ n \in Pos /\ n \in Nat /\ vs.manifest \in Nat /\ ManRec(Man) /\ Man.next \in Nat
      /\ current \in Nat /\ current < Man.next /\ vs.manifest = Man.next /\ Man.next < n
      /\ current \in DOMAIN manifests /\ Man.log \in Nat /\ Man.log < Man.next
  BY Zenon, <1>1, <1>2 DEF VsRec, Pos, ManForm, ManRec, Man, DiskOK, Replaying
<1>4. QueueOK' /\ Quiet' /\ SchedOK' /\ bg'.at \in BgStages /\ BgRec(bg') /\ ReaderForm'
  BY Zenon, <1>1, QuietStep
<1>5. /\ VsRec(vs') /\ vs'.l0 = vs.l0 /\ vs'.low = vs.low /\ vs'.seek = vs.seek
      /\ vs'.log = vs.log /\ vs'.next = n + 1 /\ vs'.manifest = vs.manifest
  <2>1. PICK k : k = n + 1
    BY Zenon
  <2>2. k \in Pos /\ vs' = [vs EXCEPT !.next = k, !.seq = s]
    BY <1>1, <1>3, <2>1 DEF Pos
  <2>3. QED
    BY Zenon, <1>2, <2>1, <2>2 DEF VsRec
<1>6. /\ m.l0 = vs.l0 \cup recov.add /\ m.low = vs.low /\ m.log = n /\ m.next = n + 1
      /\ ManRec(m)
  <2>1. IsFiniteSet(vs.l0 \cup recov.add)
    BY Zenon, <1>2, FiniteUnion DEF VsRec, RecovRec
  <2>2. /\ m.l0 = vs.l0 \cup recov.add /\ m.low = vs.low /\ m.log = n /\ m.next = n + 1
        /\ m = [l0 |-> m.l0, low |-> m.low, log |-> m.log, next |-> m.next,
                seq |-> m.seq, torn |-> m.torn]
    BY Zenon, <1>1
  <2>3. QED
    BY <1>2, <1>3, <2>1, <2>2 DEF ManRec, VsRec, RecovRec, Pos
<1>7. /\ DOMAIN manifests' = DOMAIN manifests \cup {vs.manifest}
      /\ manifests'[vs.manifest] = m
      /\ \A x \in DOMAIN manifests : x # vs.manifest => manifests'[x] = manifests[x]
      /\ manifests' = [x \in DOMAIN manifests' |-> manifests'[x]]
  BY Zenon, <1>1 DEF With
<1>8. ManForm'
  BY ZenonT(60), <1>1, <1>2, <1>3, <1>6, <1>7 DEF ManForm
<1>9. /\ DOMAIN logs' = DOMAIN logs \cup {n} /\ logs'[n] = EmptyLog
      /\ \A x \in DOMAIN logs : x # n => logs'[x] = logs[x]
      /\ logs' = [x \in DOMAIN logs' |-> logs'[x]]
  BY Zenon, <1>1 DEF With
<1>10. LogsForm' /\ logs'[n].good = {}
  BY <1>2, <1>3, <1>9 DEF LogsForm, LogRec, EmptyLog
<1>11. MemForm' /\ n \in DOMAIN memtabs'
  BY Zenon, <1>1, <1>2, <1>3 DEF MemForm, With
<1>12. Forms'
  BY Zenon, <1>1, <1>2, <1>4, <1>5, <1>8, <1>10, <1>11 DEF Forms, TablesForm
<1>13. Man' = Man
  <2>1. current' = current /\ current # vs.manifest
    BY <1>1, <1>3
  <2>2. manifests'[current] = manifests[current]
    BY Zenon, <1>3, <1>7, <2>1
  <2>3. QED
    BY Zenon, <2>1, <2>2 DEF Man
<1>14. DiskOK'
  BY Zenon, <1>1, <1>2, <1>7, <1>13 DEF DiskOK
<1>15. \A x \in LogsFrom(Man.log) : x < n /\ x \in Nat
  BY Zenon, <1>1, <1>2 DEF Replaying, LogsForm, LogsFrom
<1>16. Recoverable'
  <2>1. \A x \in LogsFrom(Man.log) : x \in DOMAIN logs' /\ logs'[x] = logs[x]
    BY <1>3, <1>9, <1>15 DEF LogsFrom
  <2>2. QED
    BY Zenon, <1>1, <1>2, <1>13, <2>1, RecoverableFrame
<1>17. StartOK'
  BY Zenon, <1>1, <1>2, <1>16 DEF StartOK
<1>18. Opened' = m
  BY Zenon, <1>5, <1>7 DEF Opened
<1>19. /\ ManTables(Man) \subseteq ManTables(m) /\ recov.add \subseteq ManTables(m)
       /\ ManTables(m) = ManTables(Man) \cup recov.add
  BY Zenon, <1>2, <1>6 DEF ManTables, Replaying
<1>20. ManTables(m) \subseteq DOMAIN tables /\ Below(ManTables(m), n + 1)
  <2>1. ManTables(Man) \cup recov.add \subseteq Nat
    BY Zenon, <1>2, <1>3 DEF ManRec, RecovRec, ManTables, Pos
  <2>2. Below(ManTables(Man), Man.next) /\ ManTables(Man) \subseteq DOMAIN tables
    BY Zenon, <1>2 DEF DiskOK
  <2>3. recov.add \subseteq DOMAIN tables /\ Below(recov.add, n)
    BY Zenon, <1>1, <1>2 DEF Replaying, Below
  <2>4. QED
    BY <1>3, <1>19, <2>1, <2>2, <2>3 DEF Below
<1>21. \A a \in acked : a \in excused \cup recov.doubt \/ InTables(a, tables, ManTables(m))
  <2>1. SUFFICES ASSUME NEW a \in acked, a \notin excused
                 PROVE  a \in recov.doubt \/ InTables(a, tables, ManTables(m))
    BY Zenon
  <2>2. CASE InTables(a, tables, ManTables(Man))
    BY Zenon, <1>19, <2>2 DEF InTables
  <2>3. CASE \E x \in LogsFrom(Man.log) : InLog(a, logs, x)
    <3>1. PICK x \in LogsFrom(Man.log) : InLog(a, logs, x)
      BY Zenon, <2>3
    <3>2. PICK e \in logs[x].good : OpOf(e) = a
      BY Zenon, <3>1 DEF InLog
    <3>3. a \in recov.doubt \/ InTables(a, tables, recov.add)
      BY Zenon, <1>1, <1>2, <3>2 DEF Replaying
    <3>4. QED
      BY Zenon, <1>19, <3>3 DEF InTables
  <2>4. QED
    BY Zenon, <1>2, <2>1, <2>2, <2>3 DEF Recoverable
<1>22. Opening'
  <2>1. /\ vs.seek = 0 /\ n # 0 /\ n < n + 1 /\ vs.manifest < n + 1 /\ vs.manifest # 0
        /\ current < vs.manifest
    BY <1>2, <1>3 DEF Replaying, Pos
  <2>2. /\ (vs.manifest \in DOMAIN manifests /\ vs.manifest # 0)'
        /\ (Opened.l0 = vs.l0 \cup recov.add /\ Opened.low = vs.low /\ Opened.log = mem)'
        /\ (Opened.next = vs.next /\ vs.manifest < vs.next /\ vs.seek = 0)'
    BY Zenon, <1>1, <1>5, <1>6, <1>7, <1>18, <2>1
  <2>3. /\ (mem # 0 /\ mem < vs.next /\ mem \in DOMAIN logs /\ mem \in DOMAIN memtabs)'
        /\ (logs[mem].good = {})'
    BY Zenon, <1>1, <1>5, <1>9, <1>10, <1>11, <2>1
  <2>4. (ManTables(Opened) \subseteq DOMAIN tables /\ Below(ManTables(Opened), vs.next))'
    BY Zenon, <1>1, <1>5, <1>18, <1>20 DEF ManTables, Below
  <2>5. (\A a \in acked : \/ a \in excused \cup recov.doubt
                          \/ InTables(a, tables, ManTables(Opened)))'
    BY Zenon, <1>1, <1>18, <1>21 DEF ManTables
  <2>6. QED
    BY Zenon, <1>1, <1>5, <2>1, <2>2, <2>3, <2>4, <2>5 DEF Opening
<1>23. QED
  BY Zenon, <1>1, <1>4, <1>12, <1>14, <1>17, <1>22 DEF Inv, Stages

LEMMA SetCurrentFileStep ==
  ASSUME Inv, SetCurrentFile
  PROVE  Inv'
<1>1. /\ proc = "manifest" /\ current' = vs.manifest /\ proc' = "install"
      /\ excused' = excused \cup recov.doubt
      /\ UNCHANGED <<logs, tables, manifests, vs, mem, imm, memtabs, writers_, wst, op, group,
                     pending, sched, bg, recov, reader, acked>>
  BY Zenon DEF SetCurrentFile, memVars, writeVars, bgVars
<1>2. Opening /\ VsRec(vs) /\ ManForm
  BY Zenon, <1>1 DEF Inv, Forms
<1>3. QueueOK' /\ Quiet' /\ SchedOK' /\ bg'.at \in BgStages /\ BgRec(bg') /\ ReaderForm'
  BY Zenon, <1>1, QuietStep
<1>4. Forms'
  BY Zenon, <1>1, <1>2, <1>3 DEF Inv, Forms, LogsForm, TablesForm, ManForm, MemForm, VsRec
<1>5. Man' = Opened /\ Opened' = Opened
  BY Zenon, <1>1 DEF Man, Opened
<1>6. DiskOK'
  BY Zenon, <1>1, <1>2, <1>5 DEF DiskOK, Opening
<1>7. StartOK'
  BY Zenon, <1>1, <1>2, <1>5 DEF StartOK, Recoverable, Opening
<1>8. Opening'
  BY ZenonT(40), <1>1, <1>2, <1>5 DEF Opening
<1>9. QED
  BY Zenon, <1>1, <1>3, <1>4, <1>6, <1>7, <1>8 DEF Inv, Stages

LEMMA OpenDoneStep ==
  ASSUME Inv, OpenDone
  PROVE  Inv'
<1>1. PICK v : /\ v = [vs EXCEPT !.l0 = vs.l0 \cup recov.add, !.log = mem]
               /\ vs' = v /\ sched' = HasWork(0, v)
               /\ DeleteObsoleteFiles(v, v.l0 \cup v.low)
  BY Zenon DEF OpenDone
<1>2. /\ proc = "install" /\ proc' = "up" /\ recov' = NoRecov
      /\ UNCHANGED <<current, mem, imm, memtabs, writers_, wst, op, group, pending, bg,
                     reader, acked, excused>>
  BY Zenon DEF OpenDone, memVars, writeVars
<1>3. /\ Opening /\ VsRec(vs) /\ RecovRec(recov) /\ DiskOK /\ QueueOK /\ Quiet /\ BgRec(bg)
      /\ LogsForm /\ ManForm /\ MemForm /\ ReaderForm
  BY Zenon, <1>2 DEF Inv, Forms
<1>4. PICK L : L = vs.l0 \cup recov.add
  BY Zenon
<1>5. /\ v = [l0 |-> L, low |-> vs.low, seek |-> vs.seek, log |-> mem, next |-> vs.next,
              manifest |-> vs.manifest, seq |-> vs.seq]
  <2>1. v = [vs EXCEPT !.l0 = L, !.log = mem]
    BY Zenon, <1>1, <1>4
  <2>2. QED
    BY Zenon, <1>3, <2>1 DEF VsRec
<1>6. /\ VsRec(v) /\ v.l0 = L /\ v.low = vs.low /\ v.seek = 0 /\ v.log = mem
      /\ v.next = vs.next /\ v.manifest = vs.manifest
  <2>1. L \subseteq Pos /\ IsFiniteSet(L) /\ vs.seek = 0 /\ mem \in Nat
    BY Zenon, <1>3, <1>4, FiniteUnion DEF VsRec, RecovRec, Opening, MemForm
  <2>2. QED
    BY Zenon, <1>3, <1>5, <2>1 DEF VsRec
<1>7. /\ current = vs.manifest /\ Man = Opened /\ Opened.l0 = L /\ Opened.low = vs.low
      /\ Opened.log = mem /\ Opened.next = vs.next /\ current # 0 /\ current \in Nat
      /\ ManTables(Opened) = L \cup vs.low
      /\ current \in DOMAIN manifests
  BY Zenon, <1>2, <1>3, <1>4 DEF Opening, Man, Opened, ManTables, ManForm
<1>8. /\ LogsForm' /\ TablesForm' /\ ManForm'
      /\ \A n \in DOMAIN logs : n >= v.log => n \in DOMAIN logs' /\ logs'[n] = logs[n]
      /\ \A t \in DOMAIN tables \cap (v.l0 \cup v.low) :
           t \in DOMAIN tables' /\ tables'[t] = tables[t]
      /\ \A n \in DOMAIN manifests :
           n >= v.manifest => n \in DOMAIN manifests' /\ manifests'[n] = manifests[n]
  BY ZenonT(40), <1>1, <1>2, <1>3, Kept
<1>9. /\ mem \in DOMAIN logs' /\ logs'[mem] = logs[mem]
      /\ current \in DOMAIN manifests' /\ Man' = Man
      /\ L \cup vs.low \subseteq DOMAIN tables'
      /\ \A t \in L \cup vs.low : tables'[t] = tables[t]
  <2>1. mem \in DOMAIN logs /\ mem \in Nat /\ mem >= v.log /\ current >= v.manifest
    BY <1>3, <1>6, <1>7 DEF Opening, MemForm
  <2>2. L \cup vs.low \subseteq DOMAIN tables
    BY Zenon, <1>3, <1>7 DEF Opening
  <2>3. QED
    BY Zenon, <1>2, <1>6, <1>7, <1>8, <2>1, <2>2 DEF Man
<1>10. bg = NoBg /\ imm = 0 /\ \A w \in Writers : wst[w] = "idle"
  BY <1>2, <1>3 DEF Quiet, QueueOK
<1>11. bg'.at = "idle" /\ ~bg'.merge.on
  BY Zenon, <1>2, <1>10, NoBgIs
<1>12. RecovRec(NoRecov)
  BY Zenon, NoneFinite DEF RecovRec, NoRecov
<1>13. Forms' /\ QueueOK'
  BY <1>1, <1>2, <1>3, <1>6, <1>8, <1>12 DEF Forms, MemForm, ReaderForm, QueueOK
<1>14. SchedOK'
  <2>1. sched' = HasWork(imm', vs')
    BY Zenon, <1>1, <1>2, <1>10
  <2>2. sched' \in BOOLEAN
    BY Zenon, <2>1 DEF HasWork, NeedsL0
  <2>3. QED
    BY Zenon, <1>2, <1>10, <1>11, <2>1, <2>2 DEF SchedOK
<1>15. Version' = L \cup vs.low
  BY Zenon, <1>1, <1>6 DEF Version
<1>16. VersionOK'
  <2>1. Below(L \cup vs.low, vs.next)
    BY Zenon, <1>3, <1>7 DEF Opening
  <2>2. vs.next \in Nat
    BY Zenon, <1>3 DEF VsRec, Pos
  <2>3. QED
    BY <1>1, <1>2, <1>6, <1>7, <1>9, <1>11, <1>15, <2>1, <2>2 DEF VersionOK
<1>17. MemsOK'
  BY <1>1, <1>2, <1>3, <1>6, <1>9, <1>10 DEF MemsOK, Opening, MemForm
<1>18. DiskOK'
  <2>1. ManTables(Man)' = L \cup vs.low /\ ManTables(Man) = L \cup vs.low
    BY Zenon, <1>7, <1>9 DEF ManTables
  <2>2. QED
    BY Zenon, <1>2, <1>3, <1>9, <2>1 DEF DiskOK
<1>19. ReadersOK'
  BY <1>2, <1>3 DEF ReadersOK, Reading, Quiet, Idle
<1>20. BuildOK' /\ MergeOK' /\ EditOK' /\ EditKeeps'
  BY Zenon, <1>11, NotEditing DEF BuildOK, MergeOK
<1>21. InMemory'
  <2>1. \A a \in acked : a \in excused \/ InTables(a, tables, L \cup vs.low)
    BY Zenon, <1>2, <1>3, <1>7 DEF Opening
  <2>2. \A a : InTables(a, tables, L \cup vs.low) => InTables(a, tables', L \cup vs.low)
    BY Zenon, <1>9 DEF InTables
  <2>3. QED
    BY Zenon, <1>2, <1>15, <2>1, <2>2 DEF InMemory
<1>22. MemHolds' /\ GroupOK'
  <2>1. logs'[mem'].good = {}
    BY Zenon, <1>2, <1>3, <1>9 DEF Opening
  <2>2. QED
    BY Zenon, <1>2, <1>10, <2>1 DEF MemHolds, GroupOK
<1>23. QED
  BY Zenon, <1>2, <1>7, <1>11, <1>13, <1>14, <1>16, <1>17, <1>18, <1>19, <1>20, <1>21, <1>22
     DEF Inv, Running, StartOK, Quiet, Stages, BgStages
-----------------------------------------------------------------------------
(* The end of a process: a crash, or DB::Open that fails.                  *)

(* The files of a running database are all that recovery needs.            *)
LEMMA RunningRecoverable ==
  ASSUME Inv, proc = "up"
  PROVE  Recoverable
<1>1. /\ Running /\ InMemory /\ VersionOK /\ MemsOK /\ EditOK /\ EditKeeps
      /\ vs.log \in Nat /\ mem \in Nat /\ imm \in Nat
  BY Zenon, Numbers DEF Running
<1>2. SUFFICES ASSUME NEW a \in acked, a \notin excused
               PROVE  \/ InTables(a, tables, ManTables(Man))
                      \/ \E n \in LogsFrom(Man.log) : InLog(a, logs, n)
  BY Zenon DEF Recoverable
<1>3. \/ InTables(a, tables, Version)
      \/ InLog(a, logs, mem)
      \/ imm # 0 /\ InLog(a, logs, imm)
  BY Zenon, <1>1, <1>2 DEF InMemory
<1>4. CASE bg.at # "install"
  <2>1. ManTables(Man) = Version /\ Man.log = vs.log
    BY Zenon, <1>1, <1>4 DEF VersionOK, ManTables, Version
  <2>2. mem \in LogsFrom(Man.log) /\ (imm # 0 => imm \in LogsFrom(Man.log))
    BY Zenon, <1>1, <2>1 DEF MemsOK, LogsFrom
  <2>3. QED
    BY Zenon, <1>3, <2>1, <2>2
<1>5. CASE bg.at = "install"
  <2>1. /\ ManTables(Man) = NextL0 \cup NextLow /\ Man.log = bg.edit.log /\ Editing
    BY Zenon, <1>1, <1>5 DEF VersionOK, ManTables, Editing
  <2>2. CASE InTables(a, tables, Version)
    BY Zenon, <1>1, <2>1, <2>2 DEF EditKeeps, InTables
  <2>3. mem \in LogsFrom(Man.log)
    BY <1>1, <2>1 DEF EditOK, MemsOK, LogsFrom
  <2>4. CASE imm # 0 /\ InLog(a, logs, imm)
    <3>1. CASE bg.edit.del = {}
      BY Zenon, <1>1, <2>1, <2>4, <3>1 DEF EditKeeps, InLog
    <3>2. CASE bg.edit.del # {}
      <4>1. imm \in LogsFrom(Man.log)
        BY Zenon, <1>1, <2>1, <2>4, <3>2 DEF EditOK, MemsOK, LogsFrom
      <4>2. QED
        BY Zenon, <2>4, <4>1
    <3>3. QED
      BY Zenon, <3>1, <3>2
  <2>5. QED
    BY Zenon, <1>3, <2>2, <2>3, <2>4
<1>6. QED
  BY Zenon, <1>4, <1>5

(* Memory is gone and the files are as they were.                          *)
LEMMA DownStep ==
  ASSUME Inv, Forget, proc' = "down", UNCHANGED <<logs, tables, current, acked, excused>>,
         ManForm',
         current # 0 => /\ Recoverable /\ current \in DOMAIN manifests'
                        /\ Man'.l0 = Man.l0 /\ Man'.low = Man.low
                        /\ Man'.log = Man.log /\ Man'.next = Man.next
  PROVE  Inv'
<1>1. VsRec(NoVersion) /\ RecovRec(NoRecov)
  <2>1. VsRec(NoVersion)
    BY NoneFinite DEF VsRec, NoVersion, Pos
  <2>2. RecovRec(NoRecov)
    BY NoneFinite DEF RecovRec, NoRecov
  <2>3. QED
    BY Zenon, <2>1, <2>2
<1>2. MemForm' /\ ReaderForm'
  BY Zenon DEF Forget, MemForm, ReaderForm, ReaderRec
<1>3. Forms'
  BY Zenon, <1>1, <1>2, NoBgIs DEF Inv, Forms, Forget, LogsForm, TablesForm
<1>4. QueueOK'
  BY DEF QueueOK, Forget, Grouped
<1>5. Quiet' /\ SchedOK' /\ bg'.at \in BgStages
  BY Zenon, NoBgIs DEF Quiet, SchedOK, Forget, BgStages
<1>6. DiskOK'
  BY Zenon DEF Inv, DiskOK, ManTables, Below
<1>7. StartOK'
  <2>1. CASE current = 0
    BY Zenon, <2>1 DEF Inv, StartOK
  <2>2. CASE current # 0
    <3>1. Recoverable'
      BY Zenon, <2>2, RecoverableFrame DEF Inv, LogsFrom
    <3>2. QED
      BY Zenon, <2>2, <3>1 DEF StartOK
  <2>3. QED
    BY Zenon, <2>1, <2>2
<1>8. QED
  BY Zenon, <1>3, <1>4, <1>5, <1>6, <1>7 DEF Inv, Stages

LEMMA OpenFailsStep ==
  ASSUME Inv, OpenFails
  PROVE  Inv'
<1>1. /\ proc \in {"newdb", "replay", "manifest"}
      /\ manifests' = IF proc = "manifest"
                      THEN Only(manifests, DOMAIN manifests \ {vs.manifest}) ELSE manifests
      /\ proc' = "down" /\ Forget
      /\ UNCHANGED <<logs, tables, current, acked, excused>>
  BY Zenon DEF OpenFails, history
<1>2. ManForm /\ DiskOK /\ StartOK
  BY Zenon DEF Inv, Forms
<1>3. current # 0 => Recoverable
  BY Zenon, <1>1, <1>2 DEF StartOK
<1>4. CASE proc # "manifest"
  <2>1. manifests' = manifests /\ current' = current
    BY Zenon, <1>1, <1>4
  <2>2. ManForm' /\ Man' = Man
    BY Zenon, <1>2, <2>1 DEF ManForm, Man
  <2>3. QED
    BY Zenon, <1>1, <1>2, <1>3, <2>1, <2>2, DownStep DEF DiskOK
<1>5. CASE proc = "manifest"
  <2>1. manifests' = [x \in DOMAIN manifests \ {vs.manifest} |-> manifests[x]]
    <3>1. DOMAIN manifests \cap (DOMAIN manifests \ {vs.manifest})
            = DOMAIN manifests \ {vs.manifest}
      BY Zenon
    <3>2. QED
      BY Zenon, <1>1, <1>5, <3>1 DEF Only
  <2>2. current # vs.manifest
    BY <1>2, <1>5 DEF Inv, Opening, ManForm, Forms, VsRec
  <2>3. ManForm'
    BY Zenon, <1>1, <1>2, <2>1 DEF ManForm
  <2>4. current # 0 => current \in DOMAIN manifests' /\ Man' = Man
    BY Zenon, <1>1, <1>2, <2>1, <2>2 DEF Man, DiskOK
  <2>5. QED
    BY Zenon, <1>1, <1>3, <2>3, <2>4, DownStep
<1>6. QED
  BY Zenon, <1>4, <1>5

LEMMA CrashStep ==
  ASSUME Inv, Crash
  PROVE  Inv'
<1>1. /\ \/ manifests' = manifests
         \/ /\ bg.at = "log"
            /\ manifests' = [manifests EXCEPT ![vs.manifest].torn = TRUE]
      /\ proc' = "down" /\ Forget
      /\ UNCHANGED <<logs, tables, current, acked, excused>>
  BY Zenon DEF Crash, history
<1>2. ManForm /\ DiskOK /\ StartOK
  BY Zenon DEF Inv, Forms
<1>3. current # 0 => Recoverable
  BY Zenon, <1>2, RunningRecoverable DEF StartOK
<1>4. CASE manifests' = manifests
  <2>1. ManForm' /\ Man' = Man
    BY Zenon, <1>1, <1>2, <1>4 DEF ManForm, Man
  <2>2. QED
    BY Zenon, <1>1, <1>2, <1>3, <1>4, <2>1, DownStep DEF DiskOK
<1>5. CASE /\ bg.at = "log"
           /\ manifests' = [manifests EXCEPT ![vs.manifest].torn = TRUE]
  <2>1. proc = "up"
    BY Zenon, <1>5, BgUp
  <2>2. current = vs.manifest /\ current # 0 /\ current \in DOMAIN manifests
    BY Zenon, <1>2, <2>1 DEF Inv, Running, VersionOK, DiskOK
  <2>3. PICK t : t = TRUE
    BY Zenon
  <2>4. PICK m : m = [manifests[current] EXCEPT !.torn = t]
    BY Zenon
  <2>5. ManRec(manifests[current])
    BY Zenon, <1>2, <2>2 DEF ManForm
  <2>6. /\ ManRec(m) /\ m.l0 = Man.l0 /\ m.low = Man.low /\ m.log = Man.log
        /\ m.next = Man.next
    BY Zenon, <2>4, <2>5 DEF ManRec, Man
  <2>7. manifests' = [manifests EXCEPT ![current] = m]
    BY Zenon, <1>5, <2>2, <2>3, <2>4
  <2>8. ManForm' /\ Man' = m /\ current \in DOMAIN manifests'
    BY Zenon, <1>1, <1>2, <2>2, <2>6, <2>7 DEF ManForm, Man
  <2>9. QED
    BY Zenon, <1>1, <1>3, <2>6, <2>8, DownStep
<1>6. QED
  BY Zenon, <1>1, <1>4, <1>5
-----------------------------------------------------------------------------
(* The steps of DBImpl::Write and DBImpl::Get.                             *)

LEMMA ReplyQueue ==
  ASSUME QueueOK, NEW n \in 1..Len(writers_), NEW ok, Reply(n, ok)
  PROVE  /\ QueueOK'
         /\ \A w \in Writers : wst'[w] \in {"idle", "asleep", "front"}
<1> DEFINE q == writers_
           L == Len(writers_)
<1>1. /\ q \in Seq(Writers) /\ L \in Nat /\ n \in Nat /\ n <= L
      /\ writers_' = SubSeq(q, n + 1, L)
  BY DEF QueueOK, Reply
<1>2. /\ writers_' \in Seq(Writers) /\ Len(writers_') = L - n
      /\ \A i \in 1..(L - n) : writers_'[i] = q[n + i] /\ n + i \in 1..L
  BY <1>1
<1>3. \A i \in 1..L : q[i] \in Writers
  BY <1>1
<1>a. \A w \in Writers : (\E i \in 1..n : q[i] = w) => wst'[w] = "idle"
  <2>1. TAKE w \in Writers
  <2>2. HAVE \E i \in 1..n : q[i] = w
  <2>3. PICK i \in 1..n : q[i] = w
    BY Zenon, <2>2
  <2>4. ASSUME n < L PROVE q[n + 1] # w
    <3>1. i \in 1..L /\ n + 1 \in 1..L /\ i # n + 1
      BY <1>1, <2>4
    <3>2. QED
      BY Zenon, <2>3, <3>1 DEF QueueOK
  <2>5. QED
    BY Zenon, <2>2, <2>4 DEF Reply
<1>b. \A w \in Writers : (\A i \in 1..n : q[i] # w) /\ ~(n < L /\ q[n + 1] = w)
                            => wst'[w] = wst[w]
  BY Zenon DEF Reply
<1>4. \A i \in 1..n : wst'[q[i]] = "idle"
  BY <1>1, <1>3, <1>a
<1>5. n < L => wst'[q[n + 1]] = "front"
  BY <1>1, <1>3 DEF Reply, QueueOK
<1>6. \A i \in (n + 2)..L : wst'[q[i]] = "asleep"
  <2>1. TAKE i \in (n + 2)..L
  <2>2. i \in 2..L /\ i \in 1..L /\ n + 1 \in 1..L
    BY <1>1
  <2>3. i # n + 1 /\ \A j \in 1..n : j \in 1..L /\ j # i
    BY <1>1
  <2>4. (\A j \in 1..n : q[j] # q[i]) /\ ~(n < L /\ q[n + 1] = q[i])
    BY Zenon, <1>1, <2>2, <2>3 DEF QueueOK
  <2>5. QED
    BY Zenon, <1>1, <1>3, <1>b, <2>2, <2>4 DEF QueueOK
<1>7. \A w \in Writers : (\A i \in 1..L : q[i] # w) => wst'[w] = "idle"
  BY SMTT(40), <1>1 DEF Reply, QueueOK
<1>8. \A w \in Writers : \/ \E i \in 1..n : q[i] = w
                         \/ n < L /\ q[n + 1] = w
                         \/ \E i \in (n + 2)..L : q[i] = w
                         \/ \A i \in 1..L : q[i] # w
  BY <1>1
<1>9. \A w \in Writers : wst'[w] \in {"idle", "asleep", "front"}
  BY ZenonT(60), <1>4, <1>5, <1>6, <1>7, <1>8
<1>10. wst' \in [Writers -> {"idle", "asleep"} \cup Active]
  BY Zenon, <1>9 DEF Reply, Active
<1>11. \A i, j \in 1..Len(writers_') : writers_'[i] = writers_'[j] => i = j
  BY SMTT(40), <1>1, <1>2 DEF QueueOK
<1>12. \A i \in 1..Len(writers_') : wst'[writers_'[i]] # "idle"
  <2>1. TAKE i \in 1..Len(writers_')
  <2>2. i = 1 \/ n + i \in (n + 2)..L
    BY <1>1, <1>2
  <2>3. CASE i = 1
    <3>1. n < L /\ 1 \in 1..(L - n)
      BY <1>1, <1>2, <2>3
    <3>2. QED
      BY Zenon, <1>2, <1>5, <2>3, <3>1
  <2>4. CASE n + i \in (n + 2)..L
    <3>1. i \in 1..(L - n)
      BY Zenon, <1>1, <1>2
    <3>2. QED
      BY Zenon, <1>2, <1>6, <2>4, <3>1
  <2>5. QED
    BY Zenon, <2>2, <2>3, <2>4
<1>13. \A i \in 2..Len(writers_') : wst'[writers_'[i]] = "asleep"
  <2>1. TAKE i \in 2..Len(writers_')
  <2>2. n + i \in (n + 2)..L /\ i \in 1..(L - n)
    BY <1>1, <1>2
  <2>3. QED
    BY Zenon, <1>2, <1>6, <2>2
<1>14. \A w \in Writers : wst'[w] # "idle" =>
                            \E i \in 1..Len(writers_') : writers_'[i] = w
  <2>1. SUFFICES ASSUME NEW w \in Writers, wst'[w] # "idle"
                 PROVE  \E i \in 1..Len(writers_') : writers_'[i] = w
    BY Zenon
  <2>2. PICK j \in (n + 1)..L : q[j] = w
    <3>1. \/ n < L /\ q[n + 1] = w
          \/ \E i \in (n + 2)..L : q[i] = w
      BY Zenon, <1>4, <1>7, <1>8, <2>1
    <3>2. (n < L => n + 1 \in (n + 1)..L) /\ \A i \in (n + 2)..L : i \in (n + 1)..L
      BY <1>1
    <3>3. QED
      BY Zenon, <3>1, <3>2
  <2>3. j - n \in 1..(L - n) /\ n + (j - n) = j
    BY <1>1
  <2>4. QED
    BY Zenon, <1>2, <2>2, <2>3
<1>15. writers_' # <<>> => wst'[writers_'[1]] \in Active
  <2>1. SUFFICES ASSUME writers_' # <<>> PROVE wst'[writers_'[1]] \in Active
    BY Zenon
  <2>2. Len(writers_') > 0
    BY <1>2, <2>1
  <2>3. n < L /\ 1 \in 1..(L - n)
    BY <1>1, <1>2, <2>2
  <2>4. QED
    BY Zenon, <1>2, <1>5, <2>3 DEF Active
<1>16. \A w \in Writers : wst'[w] \notin Grouped
  BY Zenon, <1>9 DEF Grouped
<1>17. QED
  BY ZenonT(60), <1>2, <1>9, <1>10, <1>11, <1>12, <1>13, <1>14, <1>15, <1>16 DEF QueueOK, Reply

LEMMA JoinQueueStep ==
  ASSUME Inv, NEW w \in Writers, JoinQueue(w)
  PROVE  Inv'
<1> USE DEF JoinQueue
<1>1. Forms' /\ Running /\ DiskOK /\ bg'.at \in BgStages
  BY Zenon DEF Inv, Forms, LogsForm, TablesForm, ManForm, MemForm, ReaderForm, files,
         memVars, bgVars
<1>2. QueueOK'
  <2>1. \A i \in 1..Len(writers_) : writers_[i] # w
    BY Zenon DEF Inv, QueueOK
  <2>2. /\ writers_' \in Seq(Writers) /\ Len(writers_') = Len(writers_) + 1
        /\ \A i \in 1..Len(writers_) : writers_'[i] = writers_[i]
        /\ writers_'[Len(writers_) + 1] = w
    BY DEF Inv, QueueOK
  <2>3. wst' \in [Writers -> {"idle", "asleep"} \cup Active]
    BY Zenon DEF Inv, QueueOK, Active
  <2>4. \A v \in Writers : v # w => wst'[v] = wst[v]
    BY Zenon DEF Inv, QueueOK
  <2>5. wst'[w] = IF writers_ = <<>> THEN "front" ELSE "asleep"
    BY Zenon DEF Inv, QueueOK
  <2>6. writers_ = <<>> <=> Len(writers_) = 0
    BY DEF Inv, QueueOK
  <2>7. \A i, j \in 1..Len(writers_') : writers_'[i] = writers_'[j] => i = j
    BY <2>1, <2>2 DEF Inv, QueueOK
  <2>8. \A i \in 1..Len(writers_') : wst'[writers_'[i]] # "idle"
    BY SMTT(40), <2>1, <2>2, <2>4, <2>5 DEF Inv, QueueOK
  <2>9. \A i \in 2..Len(writers_') : wst'[writers_'[i]] = "asleep"
    BY SMTT(40), <2>1, <2>2, <2>4, <2>5, <2>6 DEF Inv, QueueOK
  <2>10. \A v \in Writers : wst'[v] # "idle" =>
                              \E i \in 1..Len(writers_') : writers_'[i] = v
    BY <2>2, <2>4 DEF Inv, QueueOK
  <2>11. writers_' # <<>> => wst'[writers_'[1]] \in Active
    BY SMTT(40), <2>1, <2>2, <2>4, <2>5, <2>6 DEF Inv, QueueOK, Active
  <2>12. \A v \in Writers : wst'[v] \in Grouped => group \in 1..Len(writers_')
    BY SMTT(40), <2>2, <2>4, <2>5 DEF Inv, QueueOK, Grouped
  <2>13. QED
    BY Zenon, <2>2, <2>3, <2>7, <2>8, <2>9, <2>10, <2>11, <2>12 DEF Inv, QueueOK
<1>3. SchedOK'
  BY Zenon, SchedFrame DEF Inv, bgVars, memVars, QueueOK
<1>4. VersionOK' /\ MemsOK' /\ ReadersOK' /\ BuildOK' /\ MergeOK' /\ EditOK' /\ DiskOK'
  BY Zenon, <1>1, FilesFrame DEF Running, files, memVars, bgVars
<1>5. InMemory' /\ EditKeeps'
  BY Zenon, <1>1, KeepFrame DEF Running, files, memVars, bgVars
<1>6. MemHolds' /\ GroupOK'
  <2>1. \A v \in Writers : /\ wst'[v] = "logged" <=> wst[v] = "logged"
                           /\ wst'[v] = "inserted" <=> wst[v] = "inserted"
    BY Zenon DEF Inv, QueueOK
  <2>2. ASSUME \E v \in Writers : wst[v] \in {"logged", "inserted"}
        PROVE  LoggedOps' = LoggedOps
    <3>1. group \in 1..Len(writers_)
      BY Zenon, <2>2 DEF Inv, QueueOK, Grouped
    <3>2. \A i \in 1..group : /\ writers_'[i] = writers_[i] /\ writers_[i] \in Writers
                              /\ writers_[i] # w
      BY <3>1 DEF Inv, QueueOK
    <3>3. \A i \in 1..group : op'[writers_'[i]] = op[writers_[i]]
      BY ZenonT(60), <3>2 DEF Inv, QueueOK
    <3>4. group' = group
      BY Zenon
    <3>5. QED
      BY ZenonT(40), <3>3, <3>4 DEF LoggedOps
  <2>3. QED
    BY Zenon, <1>1, <2>1, <2>2, GroupFrame DEF Running, files, memVars
<1>7. QED
  BY Zenon, <1>1, <1>2, <1>3, <1>4, <1>5, <1>6, UpStep DEF Running, files

(* A step in which only the head of the queue moves on.                    *)
LEMMA HeadMoves ==
  ASSUME Inv, NEW w \in Writers, NEW a \in Active, wst[w] \in Active,
         wst' = [wst EXCEPT ![w] = a], UNCHANGED <<writers_, op>>,
         group' \in Nat, a \in Grouped => group' \in 1..Len(writers_)
  PROVE  /\ QueueOK' /\ wst'[w] = a
         /\ \A v \in Writers : v # w => wst'[v] = wst[v] /\ wst[v] \in {"idle", "asleep"}
<1>1. /\ 1 \in 1..Len(writers_) /\ writers_[1] = w
      /\ \A v \in Writers : wst[v] \in Active => v = w
  BY Zenon, HeadOnly DEF Inv
<1>2. /\ wst' \in [Writers -> {"idle", "asleep"} \cup Active] /\ wst'[w] = a
      /\ \A v \in Writers : v # w => wst'[v] = wst[v] /\ wst[v] \in {"idle", "asleep"}
  BY ZenonT(60), <1>1 DEF Inv, QueueOK
<1>3. \A i \in 2..Len(writers_) : writers_[i] # w /\ writers_[i] \in Writers
  BY <1>1 DEF Inv, QueueOK
<1>4. a # "idle" /\ a # "asleep"
  BY Zenon DEF Active
<1>5. \A i \in 1..Len(writers_) : wst'[writers_[i]] # "idle"
  BY SMTT(40), <1>1, <1>2, <1>3, <1>4 DEF Inv, QueueOK
<1>6. \A i \in 2..Len(writers_) : wst'[writers_[i]] = "asleep"
  BY Zenon, <1>2, <1>3 DEF Inv, QueueOK
<1>7. \A v \in Writers : wst'[v] # "idle" => \E i \in 1..Len(writers_) : writers_[i] = v
  BY Zenon, <1>1, <1>2 DEF Inv, QueueOK
<1>8. \A v \in Writers : wst'[v] \in Grouped => group' \in 1..Len(writers_)
  BY Zenon, <1>2 DEF Grouped
<1>9. QED
  BY <1>1, <1>2, <1>5, <1>6, <1>7, <1>8 DEF Inv, QueueOK

LEMMA BuildBatchGroupStep ==
  ASSUME Inv, NEW w \in Writers, BuildBatchGroup(w)
  PROVE  Inv'
<1> USE DEF BuildBatchGroup
<1>1. proc = "up" /\ wst[w] \in Active
  BY Zenon, WriterUp DEF Active
<1>2. Forms' /\ Running /\ DiskOK /\ bg'.at \in BgStages
  BY Zenon, <1>1 DEF Inv, Forms, LogsForm, TablesForm, ManForm, MemForm, ReaderForm, files,
              memVars, bgVars
<1>3. /\ QueueOK' /\ wst'[w] = "logging"
      /\ \A v \in Writers : v # w => wst'[v] = wst[v] /\ wst[v] \in {"idle", "asleep"}
  <2>1. Len(writers_) \in Nat
    BY DEF Inv, QueueOK
  <2>2. group' \in Nat /\ group' \in 1..Len(writers_) /\ "logging" \in Active
    BY <2>1 DEF Active
  <2>3. QED
    BY Zenon, <1>1, <2>2, HeadMoves
<1>5. SchedOK'
  BY Zenon, <1>3, SchedFrame DEF Inv, memVars, bgVars
<1>6. VersionOK' /\ MemsOK' /\ ReadersOK' /\ BuildOK' /\ MergeOK' /\ EditOK' /\ DiskOK'
  BY Zenon, <1>2, FilesFrame DEF Running, files, memVars, bgVars
<1>7. InMemory' /\ EditKeeps'
  BY Zenon, <1>2, KeepFrame DEF Running, files, memVars, bgVars, history
<1>8. MemHolds' /\ GroupOK'
  BY Zenon, <1>2, <1>3, GroupFrame DEF Running, files, memVars, history
<1>9. QED
  BY Zenon, <1>1, <1>2, <1>3, <1>5, <1>6, <1>7, <1>8, UpStep DEF Running, files

LEMMA SwitchFailsStep ==
  ASSUME Inv, NEW w \in Writers, SwitchFails(w)
  PROVE  Inv'
<1> USE DEF SwitchFails
<1>1. proc = "up" /\ wst[w] \in Active
  BY Zenon, WriterUp DEF Active
<1>2. Forms' /\ Running /\ DiskOK /\ bg'.at \in BgStages
  BY Zenon, <1>1 DEF Inv, Forms, LogsForm, TablesForm, ManForm, MemForm, ReaderForm, files,
              memVars, bgVars
<1>3. /\ QueueOK' /\ \A v \in Writers : wst'[v] \in {"idle", "asleep", "front"}
      /\ acked' = acked
  BY Zenon, <1>1, HeadOnly, ReplyQueue DEF Inv, Reply
<1>4. \A v \in Writers : wst[v] \notin {"logged", "inserted"}
  BY Zenon, <1>1, HeadOnly DEF Inv, Active
<1>5. SchedOK'
  BY Zenon, <1>3, SchedFrame DEF Inv, memVars, bgVars
<1>6. VersionOK' /\ MemsOK' /\ ReadersOK' /\ BuildOK' /\ MergeOK' /\ EditOK' /\ DiskOK'
  BY Zenon, <1>2, FilesFrame DEF Running, files, memVars, bgVars
<1>7. InMemory' /\ EditKeeps'
  BY Zenon, <1>2, <1>3, KeepFrame DEF Running, files, memVars, bgVars
<1>8. MemHolds' /\ GroupOK'
  BY Zenon, <1>2, <1>3, <1>4, GroupFrame DEF Running, files, memVars
<1>9. QED
  BY Zenon, <1>1, <1>2, <1>3, <1>5, <1>6, <1>7, <1>8, UpStep DEF Running, files

(* The entries of a group hold the operations of its writers.              *)
LEMMA EntriesHold ==
  /\ \A a \in LoggedOps : \E e \in Entries : OpOf(e) = a
  /\ \A e \in Entries : OpOf(e) \in LoggedOps
  /\ Ops(Entries) = LoggedOps
<1>1. \A a \in LoggedOps : \E e \in Entries : OpOf(e) = a
  <2>1. TAKE a \in LoggedOps
  <2>2. PICK i \in 1..group : a = op[writers_[i]]
    BY Zenon DEF LoggedOps
  <2>3. <<vs.seq + i, a>> \in Entries
    BY Zenon, <2>2 DEF Entries
  <2>4. QED
    BY Zenon, <2>3 DEF OpOf
<1>2. \A e \in Entries : OpOf(e) \in LoggedOps
  BY DEF Entries, OpOf, LoggedOps
<1>3. QED
  BY Zenon, <1>1, <1>2 DEF Ops

LEMMA AddRecordStep ==
  ASSUME Inv, NEW w \in Writers, AddRecord(w)
  PROVE  Inv'
<1>1. /\ proc = "up" /\ wst[w] \in Active /\ wst[w] = "logging"
      /\ wst' = [wst EXCEPT ![w] = "logged"]
      /\ UNCHANGED <<tables, manifests, current, proc, vs, mem, imm, memtabs, writers_, op,
                     group, pending, sched, bg, recov, reader, acked>>
  BY Zenon, WriterUp DEF Active, AddRecord, memVars, bgVars
<1>2. Running /\ DiskOK /\ mem \in DOMAIN logs /\ bg'.at \in BgStages
  BY Zenon, <1>1 DEF Inv, Running, MemsOK
<1>3. /\ QueueOK' /\ wst'[w] = "logged"
      /\ \A v \in Writers : v # w => wst'[v] = wst[v] /\ wst[v] \in {"idle", "asleep"}
  <2>1. group' \in Nat /\ group' \in 1..Len(writers_) /\ "logged" \in Active
    BY Zenon, <1>1 DEF Active, Inv, QueueOK, Grouped
  <2>2. QED
    BY Zenon, <1>1, <2>1, HeadMoves
<1>4. /\ DOMAIN logs' = DOMAIN logs /\ LogsForm'
      /\ excused \subseteq excused'
      /\ \A n \in DOMAIN logs : n # mem => logs'[n] = logs[n]
      /\ \/ logs'[mem].good = logs[mem].good \cup Entries
         \/ logs'[mem].good = logs[mem].good /\ LoggedOps \subseteq excused'
  <2>1. CASE logs' = [logs EXCEPT ![mem].good = @ \cup Entries] /\ excused' = excused
    <3>1. LogsForm /\ LogRec(logs[mem])
      BY Zenon, <1>2 DEF Inv, Forms, LogsForm
    <3>2. logs'[mem] = [good |-> logs[mem].good \cup Entries, torn |-> logs[mem].torn]
      BY Zenon, <1>2, <2>1, <3>1 DEF LogRec, LogsForm
    <3>3. /\ DOMAIN logs' = DOMAIN logs /\ logs' = [n \in DOMAIN logs |-> logs'[n]]
          /\ \A n \in DOMAIN logs : n # mem => logs'[n] = logs[n]
      BY Zenon, <1>2, <2>1, <3>1 DEF LogsForm
    <3>4. LogsForm'
      BY Zenon, <3>1, <3>2, <3>3 DEF LogsForm, LogRec
    <3>5. QED
      BY <2>1, <3>2, <3>3, <3>4
  <2>2. CASE logs' = logs /\ excused' = excused \cup Ops(Entries)
    BY Zenon, <2>2, EntriesHold DEF Inv, Forms, LogsForm
  <2>3. QED
    BY Zenon, <2>1, <2>2 DEF AddRecord
<1>5. Forms'
  BY Zenon, <1>1, <1>4 DEF Inv, Forms, TablesForm, ManForm, MemForm, ReaderForm
<1>6. SchedOK'
  BY Zenon, <1>1, <1>3, SchedFrame DEF Inv
<1>7. VersionOK' /\ MemsOK' /\ ReadersOK' /\ BuildOK' /\ MergeOK' /\ EditOK' /\ DiskOK'
  BY Zenon, <1>1, <1>2, <1>4, FilesFrame DEF Running
<1>8. imm # 0 => imm # mem /\ imm \in DOMAIN logs /\ logs'[imm] = logs[imm]
  BY SMTT(40), <1>2, <1>4 DEF Inv, Forms, MemForm, Running, MemsOK
<1>9. InMemory'
  <2>1. \A a : InLog(a, logs, mem) => InLog(a, logs', mem)
    BY Zenon, <1>4 DEF InLog
  <2>2. \A a : imm # 0 /\ InLog(a, logs, imm) => InLog(a, logs', imm)
    BY Zenon, <1>8 DEF InLog
  <2>3. Version' = Version
    BY Zenon, <1>1 DEF Version
  <2>4. QED
    BY Zenon, <1>1, <1>2, <1>4, <2>1, <2>2, <2>3 DEF Running, InMemory
<1>10. EditKeeps'
  <2>1. UNCHANGED <<Version, NextL0, NextLow, Editing>>
    BY Zenon, <1>1 DEF Version, NextL0, NextLow, Editing
  <2>2. Editing /\ bg.edit.del = {} => imm # 0
    BY Zenon, <1>2 DEF Running, EditOK
  <2>3. QED
    BY Zenon, <1>1, <1>2, <1>8, <2>1, <2>2 DEF Running, EditKeeps
<1>11. LoggedOps' = LoggedOps
  BY Zenon, <1>1 DEF LoggedOps
<1>12. MemHolds'
  <2>1. \A v \in Writers : wst[v] # "logged"
    BY Zenon, <1>1, <1>3
  <2>2. \A e \in logs[mem].good : \E f \in memtabs[mem] : OpOf(f) = OpOf(e)
    BY Zenon, <1>2, <2>1 DEF Running, MemHolds
  <2>3. QED
    BY Zenon, <1>1, <1>2, <1>3, <1>4, <1>8, <1>11, <2>2, EntriesHold DEF Running, MemHolds
<1>13. GroupOK'
  BY Zenon, <1>1, <1>4, <1>11, EntriesHold DEF GroupOK, InLog
<1>14. QED
  BY Zenon, <1>1, <1>2, <1>3, <1>5, <1>6, <1>7, <1>9, <1>10, <1>12, <1>13, UpStep DEF Running

LEMMA AddRecordFailsStep ==
  ASSUME Inv, NEW w \in Writers, AddRecordFails(w)
  PROVE  Inv'
<1>1. /\ proc = "up" /\ wst[w] \in Active /\ wst[w] = "logging"
      /\ logs' = [logs EXCEPT ![mem].torn = TRUE]
      /\ wst' = [wst EXCEPT ![w] = "failed"]
      /\ UNCHANGED <<tables, manifests, current, proc, vs, mem, imm, memtabs, writers_, op,
                     group, pending, sched, bg, recov, reader, acked, excused>>
  BY Zenon, WriterUp DEF Active, AddRecordFails, memVars, bgVars, history
<1>2. Running /\ DiskOK /\ mem \in DOMAIN logs /\ bg'.at \in BgStages
  BY Zenon, <1>1 DEF Inv, Running, MemsOK
<1>3. /\ QueueOK' /\ wst'[w] = "failed"
      /\ \A v \in Writers : v # w => wst'[v] = wst[v] /\ wst[v] \in {"idle", "asleep"}
  <2>1. group' \in Nat /\ group' \in 1..Len(writers_) /\ "failed" \in Active
    BY Zenon, <1>1 DEF Active, Inv, QueueOK, Grouped
  <2>2. QED
    BY Zenon, <1>1, <2>1, HeadMoves
<1>4. /\ DOMAIN logs' = DOMAIN logs /\ LogsForm'
      /\ \A n \in DOMAIN logs : logs'[n].good = logs[n].good
  <2>1. LogsForm /\ LogRec(logs[mem])
    BY Zenon, <1>2 DEF Inv, Forms, LogsForm
  <2>2. logs'[mem] = [good |-> logs[mem].good, torn |-> TRUE]
    BY Zenon, <1>1, <1>2, <2>1 DEF LogRec, LogsForm
  <2>3. /\ DOMAIN logs' = DOMAIN logs /\ logs' = [n \in DOMAIN logs |-> logs'[n]]
        /\ \A n \in DOMAIN logs : n # mem => logs'[n] = logs[n]
    BY Zenon, <1>1, <1>2, <2>1 DEF LogsForm
  <2>4. LogsForm'
    BY Zenon, <2>1, <2>2, <2>3 DEF LogsForm, LogRec
  <2>5. QED
    BY <2>2, <2>3, <2>4
<1>5. Forms'
  BY Zenon, <1>1, <1>4 DEF Inv, Forms, TablesForm, ManForm, MemForm, ReaderForm
<1>6. SchedOK'
  BY Zenon, <1>1, <1>3, SchedFrame DEF Inv
<1>7. VersionOK' /\ MemsOK' /\ ReadersOK' /\ BuildOK' /\ MergeOK' /\ EditOK' /\ DiskOK'
  BY Zenon, <1>1, <1>2, <1>4, FilesFrame DEF Running
<1>8. logs'[mem].good = logs[mem].good /\ (imm # 0 => logs'[imm].good = logs[imm].good)
  BY Zenon, <1>2, <1>4 DEF Running, MemsOK
<1>9. InMemory'
  BY Zenon, <1>1, <1>2, <1>8 DEF Running, InMemory, InLog, Version
<1>10. EditKeeps'
  <2>1. UNCHANGED <<Version, NextL0, NextLow, Editing>>
    BY Zenon, <1>1 DEF Version, NextL0, NextLow, Editing
  <2>2. Editing /\ bg.edit.del = {} => imm # 0
    BY Zenon, <1>2 DEF Running, EditOK
  <2>3. QED
    BY Zenon, <1>1, <1>2, <1>8, <2>1, <2>2 DEF Running, EditKeeps
<1>11. \A v \in Writers : wst[v] \notin {"logged", "inserted"}
  BY Zenon, <1>1, <1>3
<1>12. MemHolds' /\ GroupOK'
  BY Zenon, <1>1, <1>2, <1>3, <1>8, <1>11 DEF Running, MemHolds, GroupOK
<1>13. QED
  BY Zenon, <1>1, <1>2, <1>3, <1>5, <1>6, <1>7, <1>9, <1>10, <1>12, UpStep DEF Running

LEMMA InsertIntoStep ==
  ASSUME Inv, NEW w \in Writers, InsertInto(w)
  PROVE  Inv'
<1>1. /\ proc = "up" /\ wst[w] \in Active /\ wst[w] = "logged"
      /\ memtabs' = [memtabs EXCEPT ![mem] = @ \cup Entries]
      /\ wst' = [wst EXCEPT ![w] = "inserted"]
      /\ UNCHANGED <<logs, tables, manifests, current, proc, vs, mem, imm, writers_, op,
                     group, pending, sched, bg, recov, reader, acked, excused>>
  BY Zenon, WriterUp DEF Active, InsertInto, files, bgVars, history
<1>2. Running /\ DiskOK /\ mem \in DOMAIN memtabs /\ bg'.at \in BgStages
  BY Zenon, <1>1 DEF Inv, Running, MemsOK
<1>3. /\ QueueOK' /\ wst'[w] = "inserted"
      /\ \A v \in Writers : v # w => wst'[v] = wst[v] /\ wst[v] \in {"idle", "asleep"}
  <2>1. group' \in Nat /\ group' \in 1..Len(writers_) /\ "inserted" \in Active
    BY Zenon, <1>1 DEF Active, Inv, QueueOK, Grouped
  <2>2. QED
    BY Zenon, <1>1, <2>1, HeadMoves
<1>4. /\ DOMAIN memtabs' = DOMAIN memtabs /\ memtabs'[mem] = memtabs[mem] \cup Entries
      /\ \A n \in DOMAIN memtabs : n # mem => memtabs'[n] = memtabs[n]
      /\ MemForm'
  BY Zenon, <1>1, <1>2 DEF Inv, Forms, MemForm
<1>5. Forms'
  BY Zenon, <1>1, <1>4 DEF Inv, Forms, LogsForm, TablesForm, ManForm, ReaderForm
<1>6. SchedOK'
  BY Zenon, <1>1, <1>3, SchedFrame DEF Inv
<1>7. VersionOK' /\ MemsOK' /\ ReadersOK' /\ BuildOK' /\ MergeOK' /\ EditOK' /\ DiskOK'
  BY Zenon, <1>1, <1>2, <1>4, FilesFrame DEF Running
<1>8. InMemory' /\ EditKeeps'
  BY Zenon, <1>1, <1>2, KeepFrame DEF Running
<1>9. LoggedOps' = LoggedOps
  BY Zenon, <1>1 DEF LoggedOps
<1>10. MemHolds'
  <2>1. imm # 0 => memtabs'[imm] = memtabs[imm]
    BY SMTT(40), <1>2, <1>4 DEF Inv, Forms, MemForm, Running, MemsOK
  <2>2. \A e \in logs[mem].good : \E f \in memtabs'[mem] : OpOf(f) = OpOf(e)
    BY Zenon, <1>2, <1>4, EntriesHold DEF Running, MemHolds
  <2>3. QED
    BY Zenon, <1>1, <1>2, <2>1, <2>2 DEF Running, MemHolds
<1>11. GroupOK'
  BY Zenon, <1>1, <1>2, <1>9 DEF Running, GroupOK
<1>12. QED
  BY Zenon, <1>1, <1>2, <1>3, <1>5, <1>6, <1>7, <1>8, <1>10, <1>11, UpStep DEF Running

LEMMA FinishWriteStep ==
  ASSUME Inv, NEW w \in Writers, FinishWrite(w)
  PROVE  Inv'
<1>1. /\ proc = "up" /\ wst[w] \in Active /\ wst[w] \in {"inserted", "failed"}
      /\ vs' = [vs EXCEPT !.seq = vs.seq + group]
      /\ Reply(group, wst[w] = "inserted")
      /\ UNCHANGED <<logs, tables, manifests, current, proc, memtabs, mem, imm,
                     pending, sched, bg, recov, reader, excused>>
  BY Zenon, WriterUp DEF Active, FinishWrite, files, memVars, bgVars
<1>2. Running /\ DiskOK /\ bg'.at \in BgStages
  BY Zenon, <1>1 DEF Inv
<1>3. QueueOK' /\ \A v \in Writers : wst'[v] \in {"idle", "asleep", "front"}
  <2>1. group \in 1..Len(writers_)
    BY Zenon, <1>1 DEF Inv, QueueOK, Grouped
  <2>2. QED
    BY Zenon, <1>1, <2>1, ReplyQueue DEF Inv
<1>4. /\ VsRec(vs') /\ vs'.l0 = vs.l0 /\ vs'.low = vs.low /\ vs'.seek = vs.seek
      /\ vs'.log = vs.log /\ vs'.next = vs.next /\ vs'.manifest = vs.manifest
  BY <1>1, VsSeq DEF Inv, Forms
<1>5. Forms'
  BY Zenon, <1>1, <1>4 DEF Inv, Forms, LogsForm, TablesForm, ManForm, MemForm, ReaderForm
<1>6. SchedOK'
  BY Zenon, <1>1, <1>3, <1>4, SchedFrame DEF Inv
<1>7. VersionOK' /\ MemsOK' /\ ReadersOK' /\ BuildOK' /\ MergeOK' /\ EditOK' /\ DiskOK'
  BY Zenon, <1>1, <1>2, <1>4, FilesFrame DEF Running
<1>8. UNCHANGED <<Version, NextL0, NextLow, Editing>>
  BY Zenon, <1>1, <1>4 DEF Version, NextL0, NextLow, Editing
<1>9. EditKeeps'
  BY Zenon, <1>1, <1>2, <1>8 DEF Running, EditKeeps
<1>10. InMemory'
  <2>1. CASE wst[w] = "inserted"
    <3>1. acked' = acked \cup LoggedOps
      BY Zenon, <1>1, <2>1 DEF Reply, LoggedOps
    <3>2. \A a \in LoggedOps : a \in excused \/ InLog(a, logs, mem)
      BY Zenon, <1>2, <2>1 DEF Running, GroupOK
    <3>3. QED
      BY Zenon, <1>1, <1>2, <1>8, <3>1, <3>2 DEF Running, InMemory
  <2>2. CASE wst[w] # "inserted"
    BY Zenon, <1>1, <1>2, <1>8, <2>2 DEF Running, InMemory, Reply
  <2>3. QED
    BY Zenon, <2>1, <2>2
<1>11. MemHolds' /\ GroupOK'
  <2>1. \A v \in Writers : wst[v] # "logged"
    BY Zenon, <1>1, HeadOnly DEF Inv, Active
  <2>2. QED
    BY Zenon, <1>1, <1>2, <1>3, <2>1 DEF Running, MemHolds, GroupOK
<1>12. QED
  BY Zenon, <1>1, <1>2, <1>3, <1>5, <1>6, <1>7, <1>9, <1>10, <1>11, UpStep DEF Running

LEMMA SwitchMemTableStep ==
  ASSUME Inv, NEW w \in Writers, SwitchMemTable(w)
  PROVE  Inv'
<1>1. /\ proc = "up" /\ wst[w] \in Active /\ wst[w] = "front" /\ imm = 0
      /\ logs' = With(logs, vs.next, EmptyLog)
      /\ memtabs' = With(memtabs, vs.next, {})
      /\ imm' = mem /\ mem' = vs.next
      /\ vs' = [vs EXCEPT !.next = vs.next + 1] /\ sched' = TRUE
      /\ UNCHANGED <<tables, manifests, current, proc, writers_, wst, op, group,
                     pending, bg, recov, reader, acked, excused>>
  BY Zenon, WriterUp DEF Active, SwitchMemTable, MustWait, writeVars, history
<1>2. Running /\ DiskOK /\ QueueOK /\ bg'.at \in BgStages
  BY Zenon, <1>1 DEF Inv
<1>3. /\ VsRec(vs') /\ vs'.l0 = vs.l0 /\ vs'.low = vs.low /\ vs'.seek = vs.seek
      /\ vs'.log = vs.log /\ vs'.next = vs.next + 1 /\ vs'.manifest = vs.manifest
      /\ vs.next \in Pos /\ vs.log \in Nat /\ vs.next \in Nat
  <2>1. VsRec(vs) /\ vs.next + 1 \in Pos
    BY DEF Inv, Forms, VsRec, Pos
  <2>2. QED
    BY Zenon, <1>1, <2>1, VsNext DEF VsRec, Pos
<1>4. /\ mem # 0 /\ mem \in Nat /\ mem < vs.next /\ mem \in DOMAIN logs
      /\ mem \in DOMAIN memtabs /\ vs.log <= mem
  BY Zenon, <1>2 DEF Inv, Forms, MemForm, Running, MemsOK
<1>5. /\ DOMAIN logs' = DOMAIN logs \cup {vs.next} /\ logs'[vs.next] = EmptyLog
      /\ \A n \in DOMAIN logs : n # vs.next => logs'[n] = logs[n]
      /\ logs' = [n \in DOMAIN logs' |-> logs'[n]]
      /\ DOMAIN memtabs' = DOMAIN memtabs \cup {vs.next} /\ memtabs'[mem] = memtabs[mem]
      /\ memtabs' = [n \in DOMAIN memtabs' |-> memtabs'[n]]
      /\ logs'[mem] = logs[mem] /\ logs'[vs.next].good = {}
  <2>1. /\ DOMAIN logs' = DOMAIN logs \cup {vs.next} /\ logs'[vs.next] = EmptyLog
        /\ \A n \in DOMAIN logs : n # vs.next => logs'[n] = logs[n]
        /\ logs' = [n \in DOMAIN logs' |-> logs'[n]]
    BY Zenon, <1>1 DEF With
  <2>2. /\ DOMAIN memtabs' = DOMAIN memtabs \cup {vs.next}
        /\ \A n \in DOMAIN memtabs : n # vs.next => memtabs'[n] = memtabs[n]
        /\ memtabs' = [n \in DOMAIN memtabs' |-> memtabs'[n]]
    BY Zenon, <1>1 DEF With
  <2>3. mem # vs.next /\ EmptyLog.good = {}
    BY SMTT(40), <1>3, <1>4 DEF EmptyLog
  <2>4. QED
    BY Zenon, <1>4, <2>1, <2>2, <2>3
<1>6. Forms'
  <2>1. LogsForm'
    BY Zenon, <1>3, <1>5 DEF Inv, Forms, LogsForm, LogRec, EmptyLog
  <2>2. MemForm'
    BY Zenon, <1>1, <1>3, <1>4, <1>5 DEF MemForm
  <2>3. QED
    BY Zenon, <1>1, <1>3, <2>1, <2>2 DEF Inv, Forms, TablesForm, ManForm, ReaderForm
<1>7. QueueOK'
  BY Zenon, <1>1, <1>2 DEF QueueOK
<1>8. SchedOK'
  BY Zenon, <1>1, <1>4 DEF SchedOK, HasWork
<1>9. UNCHANGED <<Version, NextL0, NextLow, Editing, Man, Reading>>
  BY Zenon, <1>1, <1>3 DEF Version, NextL0, NextLow, Editing, Man, Reading
<1>10. MemsOK'
  BY SMTT(40), <1>1, <1>3, <1>4, <1>5 DEF MemsOK
<1>11. VersionOK' /\ DiskOK'
  <2>1. Man.next \in Nat /\ Version \subseteq Nat
    BY Zenon, <1>2 DEF Inv, Forms, ManForm, ManRec, Running, VersionOK, DiskOK, Man, Pos,
                Version, VsRec
  <2>2. VersionOK'
    BY SMTT(40), <1>1, <1>2, <1>3, <1>9, <2>1 DEF Running, VersionOK, Below
  <2>3. DiskOK'
    BY Zenon, <1>1, <1>2, <1>9 DEF DiskOK
  <2>4. QED
    BY Zenon, <2>2, <2>3
<1>12. ReadersOK' /\ BuildOK'
  <2>1. ReadersOK'
    BY SMTT(40), <1>1, <1>2, <1>3, <1>9 DEF Running, ReadersOK, Below, Pos
  <2>2. BuildOK'
    BY Zenon, <1>1, <1>2 DEF Running, BuildOK
  <2>3. QED
    BY Zenon, <2>1, <2>2
<1>13. MergeOK'
  <2>1. bg.merge.on => bg.merge.out \in Nat
    BY DEF Inv, Forms, BgRec, MergeRec, NoMerge
  <2>2. QED
    BY SMTT(40), <1>1, <1>2, <1>3, <1>9, <2>1 DEF Running, MergeOK
<1>14. EditOK'
  <2>1. bg.edit.next \in Nat /\ (Editing => bg.edit.del # {})
    BY Zenon, <1>1, <1>2 DEF Inv, Forms, BgRec, EditRec, Running, EditOK
  <2>2. QED
    BY SMTT(40), <1>1, <1>2, <1>3, <1>9, <2>1 DEF Running, EditOK
<1>15. InMemory'
  BY Zenon, <1>1, <1>2, <1>4, <1>5, <1>9 DEF Running, InMemory, InLog
<1>16. EditKeeps'
  <2>1. Editing => bg.edit.del # {}
    BY Zenon, <1>1, <1>2 DEF Running, EditOK
  <2>2. QED
    BY Zenon, <1>1, <1>2, <1>9, <2>1 DEF Running, EditKeeps
<1>17. MemHolds' /\ GroupOK'
  <2>1. \A v \in Writers : wst[v] \notin {"logged", "inserted"}
    BY Zenon, <1>1, HeadOnly DEF Inv, Active
  <2>2. QED
    BY Zenon, <1>1, <1>2, <1>5, <2>1 DEF Running, MemHolds, GroupOK
<1>18. QED
  BY Zenon, <1>1, <1>2, <1>6, <1>7, <1>8, <1>10, <1>11, <1>12, <1>13, <1>14, <1>15, <1>16, <1>17,
     UpStep DEF Running
-----------------------------------------------------------------------------
(* The steps of readers.                                                   *)
LEMMA BeginGetStep ==
  ASSUME Inv, NEW r \in Readers, BeginGet(r)
  PROVE  Inv'
<1>1. PICK x :
        /\ x = [at |-> "reading", mems |-> {mem, imm} \ {0}, files |-> vs.l0 \cup vs.low,
                snap |-> vs.seq]
        /\ proc = "up" /\ reader' = [reader EXCEPT ![r] = x]
        /\ UNCHANGED <<logs, tables, manifests, current, proc, vs, mem, imm, memtabs,
                       writers_, wst, op, group, pending, sched, bg, recov, acked, excused>>
  BY Zenon DEF BeginGet, files, memVars, writeVars, bgVars, history
<1>2. Running /\ DiskOK /\ QueueOK /\ bg'.at \in BgStages
  BY Zenon, <1>1 DEF Inv
<1>3. /\ reader' = [q \in Readers |-> reader'[q]] /\ reader'[r] = x
      /\ \A q \in Readers : q # r => reader'[q] = reader[q]
  BY Zenon, <1>1 DEF Inv, Forms, ReaderForm
<1>4. Forms'
  <2>1. x.at = "reading" /\ x = [at |-> "reading", mems |-> x.mems, files |-> x.files,
                                 snap |-> x.snap]
    BY Zenon, <1>1
  <2>2. ReaderRec(x)
    BY Zenon, <2>1 DEF ReaderRec
  <2>3. ReaderForm'
    BY Zenon, <1>3, <2>2 DEF Inv, Forms, ReaderForm
  <2>4. QED
    BY Zenon, <1>1, <2>3 DEF Inv, Forms, LogsForm, TablesForm, ManForm, MemForm
<1>5. QueueOK' /\ SchedOK'
  BY Zenon, <1>1, <1>2, SchedFrame DEF Inv, QueueOK
<1>6. VersionOK' /\ MemsOK' /\ BuildOK' /\ MergeOK' /\ EditOK' /\ DiskOK'
  <2>1. /\ mem \in DOMAIN memtabs'
        /\ imm # 0 => imm \in DOMAIN memtabs'
        /\ vs'.seek # 0 => vs'.seek \in Version
    BY Zenon, <1>1, <1>2 DEF Running, MemsOK, VersionOK
  <2>2. QED
    BY Zenon, <1>1, <1>2, <2>1, CoreFrame DEF Running
<1>7. ReadersOK'
  <2>1. /\ x.files \subseteq DOMAIN tables \cap Pos /\ Below(x.files, vs.next)
        /\ bg.at = "build" => bg.out \notin x.files
    <3>1. x.files = vs.l0 \cup vs.low
      BY Zenon, <1>1
    <3>2. QED
      BY Zenon, <1>2, <3>1 DEF Inv, Forms, VsRec, Running, VersionOK, Version, BuildOK, Below
  <2>2. \A q \in Reading' : \/ reader'[q] = x
                            \/ q \in Reading /\ reader'[q] = reader[q]
    <3>1. TAKE q \in Reading'
    <3>2. q \in Readers /\ reader'[q].at = "reading"
      BY Zenon DEF Reading
    <3>3. QED
      BY Zenon, <1>3, <3>2 DEF Reading
  <2>3. QED
    BY Zenon, <1>1, <1>2, <2>1, <2>2 DEF Running, ReadersOK, Below
<1>8. InMemory' /\ EditKeeps'
  BY Zenon, <1>1, <1>2, KeepFrame DEF Running
<1>9. MemHolds' /\ GroupOK'
  BY Zenon, <1>1, <1>2, GroupFrame DEF Running, LoggedOps
<1>10. QED
  BY Zenon, <1>1, <1>2, <1>4, <1>5, <1>6, <1>7, <1>8, <1>9, UpStep DEF Running

LEMMA EndGetStep ==
  ASSUME Inv, NEW r \in Readers, EndGet(r)
  PROVE  Inv'
<1>1. /\ proc = "up" /\ reader[r].at = "reading" /\ reader' = [reader EXCEPT ![r] = Idle]
      /\ memtabs' = Only(memtabs, ({mem, imm} \ {0}) \cup MemsOf(Reading \ {r}))
      /\ UNCHANGED <<logs, tables, manifests, current, proc, mem, imm,
                     writers_, wst, op, group, pending, bg, recov, acked, excused>>
  BY Zenon, ReaderUp DEF EndGet, files, writeVars, history
<1>2. Running /\ DiskOK /\ QueueOK /\ SchedOK /\ VsRec(vs) /\ bg'.at \in BgStages
  BY Zenon, <1>1 DEF Inv, Forms
<1>3. /\ reader' = [q \in Readers |-> reader'[q]] /\ reader'[r] = Idle
      /\ \A q \in Readers : q # r => reader'[q] = reader[q]
  BY Zenon, <1>1 DEF Inv, Forms, ReaderForm
<1>4. \/ vs' = vs /\ sched' = sched
      \/ /\ sched' = TRUE /\ vs.seek = 0
         /\ \E t \in vs.l0 \cup vs.low : vs' = [vs EXCEPT !.seek = t]
  BY Zenon DEF EndGet
<1>5. /\ VsRec(vs') /\ vs'.l0 = vs.l0 /\ vs'.low = vs.low /\ vs'.log = vs.log
      /\ vs'.next = vs.next /\ vs'.manifest = vs.manifest
      /\ \/ vs'.seek = vs.seek /\ sched' = sched
         \/ vs'.seek # 0 /\ vs'.seek \in Version /\ sched' = TRUE
  <2>1. CASE vs' = vs /\ sched' = sched
    BY Zenon, <1>2, <2>1
  <2>2. CASE sched' = TRUE /\ \E t \in vs.l0 \cup vs.low : vs' = [vs EXCEPT !.seek = t]
    <3>1. PICK t \in vs.l0 \cup vs.low : vs' = [vs EXCEPT !.seek = t]
      BY Zenon, <2>2
    <3>2. t \in Nat /\ t # 0 /\ t \in Version
      BY Zenon, <1>2 DEF VsRec, Pos, Version
    <3>3. /\ VsRec(vs') /\ vs'.l0 = vs.l0 /\ vs'.low = vs.low /\ vs'.log = vs.log
          /\ vs'.next = vs.next /\ vs'.manifest = vs.manifest /\ vs'.seek = t
      BY Zenon, <1>2, <3>1, <3>2 DEF VsRec
    <3>4. QED
      BY Zenon, <2>2, <3>2, <3>3
  <2>3. QED
    BY Zenon, <1>4, <2>1, <2>2
<1>6. /\ memtabs' = [n \in DOMAIN memtabs' |-> memtabs'[n]]
      /\ mem \in DOMAIN memtabs' /\ memtabs'[mem] = memtabs[mem]
      /\ imm # 0 => imm \in DOMAIN memtabs' /\ memtabs'[imm] = memtabs[imm]
  <2>1. mem \in DOMAIN memtabs /\ mem # 0 /\ (imm # 0 => imm \in DOMAIN memtabs)
    BY Zenon, <1>2 DEF Running, MemsOK
  <2>2. QED
    BY Zenon, <1>1, <2>1 DEF Only
<1>7. Forms'
  <2>1. ReaderForm'
    BY Zenon, <1>3 DEF Inv, Forms, ReaderForm, ReaderRec
  <2>2. MemForm'
    BY Zenon, <1>1, <1>6 DEF Inv, Forms, MemForm
  <2>3. QED
    BY Zenon, <1>1, <1>5, <2>1, <2>2 DEF Inv, Forms, LogsForm, TablesForm, ManForm
<1>8. QueueOK'
  BY Zenon, <1>1, <1>2 DEF QueueOK
<1>9. SchedOK'
  <2>1. CASE vs'.seek = vs.seek /\ sched' = sched
    BY Zenon, <1>1, <1>2, <1>5, <2>1, SchedFrame
  <2>2. CASE vs'.seek # 0 /\ sched' = TRUE
    BY Zenon, <1>1, <2>2 DEF SchedOK, HasWork
  <2>3. QED
    BY Zenon, <1>5, <2>1, <2>2
<1>10. VersionOK' /\ MemsOK' /\ BuildOK' /\ MergeOK' /\ EditOK' /\ DiskOK'
  <2>1. vs'.seek # 0 => vs'.seek \in Version
    BY Zenon, <1>2, <1>5 DEF Running, VersionOK
  <2>2. QED
    BY Zenon, <1>1, <1>2, <1>5, <1>6, <2>1, CoreFrame DEF Running
<1>11. ReadersOK'
  <2>1. \A q \in Reading' : q \in Reading /\ reader'[q] = reader[q]
    BY SMTT(40), <1>3 DEF Reading, Idle
  <2>2. QED
    BY Zenon, <1>1, <1>2, <1>5, <2>1 DEF Running, ReadersOK, Below
<1>12. InMemory' /\ EditKeeps'
  BY Zenon, <1>1, <1>2, <1>5, KeepFrame DEF Running
<1>13. LoggedOps' = LoggedOps
  BY Zenon, <1>1 DEF LoggedOps
<1>14. MemHolds' /\ GroupOK'
  BY Zenon, <1>1, <1>2, <1>6, <1>13 DEF Running, MemHolds, GroupOK
<1>15. QED
  BY Zenon, <1>1, <1>2, <1>7, <1>8, <1>9, <1>10, <1>11, <1>12, <1>14, UpStep DEF Running
=============================================================================
