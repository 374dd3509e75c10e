-------------------------- MODULE LevelDbSequence ---------------------------
(***************************************************************************)
(* The steps of LevelDb preserve a second invariant, SeqInv, where Inv of  *)
(* LevelDbInv holds before and after them: sequence numbers are used once, *)
(* the version and the memtables hold what was written, and a reader sees  *)
(* the entries of its snapshot.                                            *)
(***************************************************************************)
EXTENDS LevelDbInv, WellFoundedInduction, TLAPS

(* Sequence numbers of a set of entries: bounded, and none used twice.     *)
UpTo(E, n) == \A e \in E : SeqOf(e) \in Nat /\ SeqOf(e) <= n
Unique(E) == \A e, f \in E : SeqOf(e) = SeqOf(f) => e = f
LogEntries(N) == UNION {logs[n].good : n \in N}
MemEntries(m) == IF m = 0 THEN {} ELSE memtabs[m]

(* The files that recovery would start from.                               *)
DiskSeq ==
  /\ Man.seq \in Nat /\ UpTo(Contents(ManTables(Man)), Man.seq)
  /\ Unique(Contents(ManTables(Man)) \cup LogEntries(LogsFrom(Man.log)))
LogsBounded == \E b \in Nat : \A n \in DOMAIN logs : UpTo(logs[n].good, b)

(* DB::Open while it replays logs: the highest number seen so far.         *)
ReplaySeq ==
  /\ vs.seq = Man.seq /\ recov.seq \in Nat
  /\ \A n \in LogsFrom(Man.log) \ recov.todo : UpTo(logs[n].good, recov.seq)
  /\ Contents(recov.add) \subseteq LogEntries(LogsFrom(Man.log) \ recov.todo)

(* DB::Open once the new manifest is written: it starts from an empty log. *)
OpenSeq ==
  /\ vs.seq \in Nat /\ Opened.seq = vs.seq
  /\ UpTo(Contents(ManTables(Opened)), vs.seq) /\ Unique(Contents(ManTables(Opened)))
  /\ memtabs[mem] = {}
  /\ \A n \in DOMAIN logs : n <= mem

(* The running database: numbers above the last one belong to the group    *)
(* that is being written.                                                  *)
InFlight(S) == {e \in Entries : \E w \in Writers : wst[w] \in S}
Held == Contents(Version) \cup MemEntries(imm) \cup memtabs[mem]
Logged == logs[mem].good \cup (IF imm = 0 THEN {} ELSE logs[imm].good)

Numbered ==
  /\ vs.seq \in Nat
  /\ UpTo(Contents(Version) \cup MemEntries(imm), vs.seq)
  /\ UpTo(memtabs[mem] \ InFlight({"inserted"}), vs.seq)
  /\ UpTo(Logged \ InFlight({"logged", "inserted"}), vs.seq)
  /\ InFlight({"inserted"}) \subseteq memtabs[mem]
  /\ Unique(Held \cup Logged)
OnlyLogs == LogsFrom(vs.log) \subseteq {mem, imm} \ {0}
ManSeq == Man.seq \in Nat /\ UpTo(Contents(ManTables(Man)), Man.seq)
StoredIs == stored = {e \in Held : SeqOf(e) <= vs.seq}
EditSeq ==
  Editing =>
    LET E == Contents(NextL0 \cup NextLow)
    IN /\ E = Contents(Version) \cup (IF bg.edit.del = {} THEN MemEntries(imm) ELSE {})
       /\ bg.edit.seq \in Nat /\ UpTo(E, bg.edit.seq)
ReaderSeq ==
  \A r \in Reading :
    /\ reader[r].snap \in Nat /\ reader[r].snap <= vs.seq
    /\ reader[r].mems \subseteq DOMAIN memtabs \cap Nat /\ Below(reader[r].mems, vs.next)
    /\ bg.merge.on => bg.merge.out \notin reader[r].files

UpSeq == /\ Numbered /\ OnlyLogs /\ ManSeq /\ StoredIs /\ EditSeq /\ ReaderSeq
         /\ SnapshotExact

SeqInv ==
  /\ Unique(stored) /\ LogsBounded
  /\ current = 0 => DOMAIN logs = {}
  /\ proc # "up" /\ current # 0 => DiskSeq
  /\ proc = "replay" => ReplaySeq
  /\ proc \in {"manifest", "install"} => OpenSeq
  /\ proc = "up" => UpSeq

-----------------------------------------------------------------------------
(* What Inv says of a running database.                                    *)
LEMMA UpFacts ==
  ASSUME Inv, proc = "up"
  PROVE  /\ Running /\ VsRec(vs) /\ EditRec(bg.edit) /\ vs.next \in Nat /\ vs.log \in Nat
         /\ mem \in Nat /\ imm \in Nat /\ current \in Nat /\ current = vs.manifest
         /\ current \in DOMAIN manifests
<1>1. /\ Running /\ VsRec(vs) /\ BgRec(bg) /\ DiskOK /\ mem \in Nat /\ imm \in Nat /\ current \in Nat
      /\ current = vs.manifest /\ current # 0
  BY Zenon DEF Inv, Forms, MemForm, ManForm, Running, VersionOK
<1> QED
  BY Zenon, <1>1 DEF VsRec, BgRec, DiskOK, Pos

(* The background thread that has no work.                                 *)
LEMMA NoBgParts ==
  /\ NoBg.at = "idle" /\ NoBg.merge = NoMerge /\ NoBg.merge.on = FALSE
  /\ NoBg.edit.del = {} /\ NoBg.out = 0
  /\ NoBg = [at |-> NoBg.at, merge |-> NoBg.merge, out |-> NoBg.out, edit |-> NoBg.edit]
BY Zenon DEF NoBg, NoMerge

(* The version that the edit in hand makes.                                *)
LEMMA NewVersionParts ==
  ASSUME VsRec(vs)
  PROVE  /\ NewVersion.l0 = NextL0 /\ NewVersion.low = NextLow /\ NewVersion.log = bg.edit.log
         /\ NewVersion.next = vs.next /\ NewVersion.manifest = vs.manifest
<1>1. NewVersion = [vs EXCEPT !.seek = 0, !.l0 = NextL0, !.low = NextLow, !.log = bg.edit.log]
  BY Zenon DEF NewVersion, NextL0, NextLow
<1> QED
  BY Zenon, <1>1 DEF VsRec

(* What PickCompaction starts from is a table of the version.              *)
LEMMA FirstInputThere ==
  ASSUME Inv, proc = "up", bg.at = "idle", sched, imm = 0, NEW t \in FirstInput
  PROVE  t \in Version
<1>1. NeedsL0(vs) \/ vs.seek # 0
  BY Zenon DEF Inv, SchedOK, HasWork
<1> QED
  BY Zenon, <1>1 DEF Inv, Running, VersionOK, FirstInput, Version

(* Work of the background thread, of a writer or of a reader: proc is up.  *)
LEMMA BackgroundRuns ==
  ASSUME Inv, bg.at # "idle"
  PROVE  proc = "up"
BY Zenon, NoBgParts DEF Inv, Quiet

(* A writer in the queue: proc is up.                                      *)
LEMMA WriterRuns ==
  ASSUME Inv, NEW w \in Writers, wst[w] # "idle"
  PROVE  proc = "up"
<1>1. PICK i \in 1..Len(writers_) : writers_[i] = w
  BY Zenon DEF Inv, QueueOK
<1>2. writers_ # <<>>
  BY <1>1
<1> QED
  BY Zenon, <1>2 DEF Inv, Quiet

(* A reader with references: proc is up.                                   *)
LEMMA ReaderRuns ==
  ASSUME Inv, NEW r \in Readers, reader[r].at = "reading"
  PROVE  proc = "up"
BY DEF Inv, Quiet, Idle

(* Only the front of the queue writes, and once it has replied nobody does. *)
LEMMA FrontWriter ==
  ASSUME QueueOK, NEW w \in Writers, wst[w] \in Active
  PROVE  /\ 1 \in 1..Len(writers_) /\ writers_[1] = w
         /\ \A v \in Writers : wst[v] \in Active => v = w
BY SMTT(40) DEF QueueOK, Active

(* After the leader's reply no group is being written.                     *)
LEMMA Answered ==
  ASSUME QueueOK, NEW w \in Writers, wst[w] \in Active, NEW n \in 1..Len(writers_), NEW ok,
         Reply(n, ok)
  PROVE  \A v \in Writers : wst'[v] \notin {"logged", "inserted"}
<1>1. writers_[1] = w /\ \A v \in Writers : v # w => wst[v] \notin Active
  BY Zenon, FrontWriter
<1>2. 1 \in 1..n
  BY DEF QueueOK
<1> QED
  BY <1>1, <1>2 DEF Reply, Active
-----------------------------------------------------------------------------
(* Sequence numbers and snapshots: what a step of the running database     *)
(* preserves that adds no entry and replaces no table in use.              *)
LEMMA MemsSame ==
  ASSUME NEW M, \A m \in M : memtabs'[m] = memtabs[m]
  PROVE  UNION {memtabs'[m] : m \in M} = UNION {memtabs[m] : m \in M}
BY Zenon

(* Unchanged tables, or memtables, hold the same entries.                  *)
LEMMA ContentsSame ==
  ASSUME NEW T, \A t \in T : tables'[t] = tables[t]
  PROVE  UNION {tables'[t] : t \in T} = Contents(T)
BY Zenon DEF Contents

(* A new table adds its entries to those of the others.                    *)
LEMMA ContentsWith ==
  ASSUME NEW T, NEW o
  PROVE  UNION {tables'[t] : t \in T \cup {o}} = (UNION {tables'[t] : t \in T}) \cup tables'[o]
<1> DEFINE A == UNION {tables'[t] : t \in T \cup {o}}
           B == UNION {tables'[t] : t \in T}
<1>1. ASSUME NEW e, e \in A PROVE e \in B \cup tables'[o]
  <2>1. PICK t : (t \in T \/ t = o) /\ e \in tables'[t]
    BY Zenon, <1>1
  <2>2. t \in T => e \in B
    BY Zenon, <2>1
  <2> HIDE DEF A, B
  <2> QED
    BY Zenon, <2>1, <2>2
<1>2. ASSUME NEW e, e \in B \cup tables'[o] PROVE e \in A
  <2>1. CASE e \in B
    BY Zenon, <2>1
  <2>2. CASE e \in tables'[o]
    BY Zenon, <2>2
  <2> HIDE DEF A, B
  <2> QED
    BY Zenon, <1>2, <2>1, <2>2
<1> HIDE DEF A, B
<1>3. A = B \cup tables'[o]
  BY Zenon, <1>1, <1>2
<1> QED
  BY <1>3 DEF A, B

(* The entries of a single table.                                          *)
LEMMA UnitContents ==
  ASSUME NEW T, NEW U
  PROVE  Contents(T \cup U) = Contents(T) \cup Contents(U)
BY Zenon DEF Contents

(* Old or empty logs only: their numbers stay bounded.                     *)
LEMMA LogsBoundedKept ==
  ASSUME LogsBounded,
         \A n \in DOMAIN logs' : logs'[n].good = {} \/ (n \in DOMAIN logs /\ logs'[n] = logs[n])
  PROVE  LogsBounded'
<1>1. PICK b \in Nat : \A n \in DOMAIN logs : UpTo(logs[n].good, b)
  BY Zenon DEF LogsBounded
<1>2. \A n \in DOMAIN logs' : UpTo(logs'[n].good, b)
  BY Zenon, <1>1 DEF UpTo
<1> QED
  BY Zenon, <1>2 DEF LogsBounded, UpTo

(* The same entries in a new arrangement: numbers and stored agree.        *)
LEMMA NumberedKept ==
  ASSUME Numbered, UNCHANGED <<mem, writers_, op, group, vs.seq>>, imm' \in {0, imm},
         memtabs'[mem] = memtabs[mem],
         \A w \in Writers : /\ wst'[w] = "logged" <=> wst[w] = "logged"
                            /\ wst'[w] = "inserted" <=> wst[w] = "inserted",
         logs'[mem] = logs[mem], imm' # 0 => logs'[imm] = logs[imm],
         UNCHANGED (Contents(Version) \cup MemEntries(imm))
  PROVE  Numbered' /\ (StoredIs /\ stored' = stored => StoredIs')
<1>1. Held' = Held
  BY Zenon DEF Held
<1>2. Entries' = Entries
  BY Zenon DEF Entries
<1>3. /\ InFlight({"inserted"})' = InFlight({"inserted"})
      /\ InFlight({"logged", "inserted"})' = InFlight({"logged", "inserted"})
  BY Zenon, <1>2 DEF InFlight
<1>4. Logged' \subseteq Logged
  BY Zenon DEF Logged
<1>5. /\ UpTo(Contents(Version) \cup MemEntries(imm), vs.seq)'
      /\ UpTo(memtabs[mem] \ InFlight({"inserted"}), vs.seq)'
      /\ UpTo(Logged \ InFlight({"logged", "inserted"}), vs.seq)'
  BY Zenon, <1>3, <1>4 DEF Numbered, UpTo
<1>6. Unique(Held \cup Logged)'
  BY Zenon, <1>1, <1>4 DEF Numbered, Unique
<1> QED
  BY Zenon, <1>1, <1>3, <1>5, <1>6 DEF Numbered, StoredIs

(* A reader whose memtables and tables stay sees what it saw.              *)
LEMMA ReadersKept ==
  ASSUME ReaderSeq, SnapshotExact, UNCHANGED <<reader, stored, vs.seq>>,
         vs.next \in Nat, vs'.next \in Nat, vs.next <= vs'.next,
         \A r \in Reading : \A m \in reader[r].mems :
           m \in DOMAIN memtabs' /\ memtabs'[m] = memtabs[m],
         \A r \in Reading : /\ \A t \in reader[r].files : tables'[t] = tables[t]
                            /\ bg'.merge.on => bg'.merge.out \notin reader[r].files
  PROVE  ReaderSeq' /\ SnapshotExact'
<1>1. Reading' = Reading
  BY Zenon DEF Reading
<1>2. \A r \in Reading : Below(reader[r].mems, vs'.next)
  BY DEF ReaderSeq, Below
<1>3. ReaderSeq'
  BY Zenon, <1>1, <1>2 DEF ReaderSeq
<1>4. ASSUME NEW r \in Reading
      PROVE  /\ UNION {memtabs'[m] : m \in reader[r].mems}
                  = UNION {memtabs[m] : m \in reader[r].mems}
             /\ UNION {tables'[t] : t \in reader[r].files} = Contents(reader[r].files)
  <2>1. /\ \A m \in reader[r].mems : memtabs'[m] = memtabs[m]
        /\ \A t \in reader[r].files : tables'[t] = tables[t]
    BY Zenon
  <2> QED
    BY Zenon, <2>1, MemsSame, ContentsSame
<1>5. SnapshotExact'
  <2>1. reader' = reader /\ stored' = stored
    BY Zenon
  <2>2. ASSUME NEW r \in Readers, reader[r].at = "reading"
        PROVE  {e \in (UNION {memtabs'[m] : m \in reader[r].mems})
                       \cup UNION {tables'[t] : t \in reader[r].files} :
                  SeqOf(e) <= reader[r].snap}
               = {e \in stored : SeqOf(e) <= reader[r].snap}
    <3>1. /\ UNION {memtabs'[m] : m \in reader[r].mems}
               = UNION {memtabs[m] : m \in reader[r].mems}
          /\ UNION {tables'[t] : t \in reader[r].files} = Contents(reader[r].files)
      BY Zenon, <1>4, <2>2 DEF Reading
    <3>2. {e \in (UNION {memtabs[m] : m \in reader[r].mems}) \cup Contents(reader[r].files) :
             SeqOf(e) <= reader[r].snap}
          = {e \in stored : SeqOf(e) <= reader[r].snap}
      BY Zenon, <2>2 DEF SnapshotExact
    <3> QED
      BY <3>1, <3>2
  <2> QED
    BY Zenon, <2>1, <2>2 DEF SnapshotExact, Contents
<1> QED
  BY Zenon, <1>3, <1>5

(* A step of the running database that stores nothing.                     *)
LEMMA UpSeqStep ==
  ASSUME SeqInv, proc = "up", proc' = "up", current # 0, UNCHANGED <<current, stored>>,
         LogsBounded', UpSeq'
  PROVE  SeqInv'
BY Zenon DEF SeqInv

(* A step of the background thread that keeps what is held.                *)
LEMMA BgSeq ==
  ASSUME Inv, Inv', SeqInv, proc = "up", proc' = "up",
         UNCHANGED <<current, mem, stored, reader, writers_, op, group, vs.seq>>,
         imm' \in {0, imm}, memtabs'[mem] = memtabs[mem],
         \A w \in Writers : /\ wst'[w] = "logged" <=> wst[w] = "logged"
                            /\ wst'[w] = "inserted" <=> wst[w] = "inserted",
         \A n \in DOMAIN logs' : n \in DOMAIN logs /\ logs'[n] = logs[n],
         \A n \in DOMAIN logs' : n >= vs'.log => n \in {mem, imm'} \ {0},
         UNCHANGED (Contents(Version) \cup MemEntries(imm)),
         \A r \in Reading : \A m \in reader[r].mems :
           m \in DOMAIN memtabs' /\ memtabs'[m] = memtabs[m],
         vs.next <= vs'.next,
         \A r \in Reading : /\ \A t \in reader[r].files : tables'[t] = tables[t]
                            /\ bg'.merge.on => bg'.merge.out \notin reader[r].files,
         ManSeq', EditSeq'
  PROVE  SeqInv'
<1>1. UpSeq /\ LogsBounded
  BY Zenon DEF SeqInv
<1>2. MemsOK /\ MemsOK' /\ current # 0 /\ vs.next \in Nat /\ vs'.next \in Nat
  BY Zenon DEF Inv, Running, VersionOK, Forms, VsRec, Pos
<1>3. mem \in DOMAIN logs' /\ (imm' # 0 => imm \in DOMAIN logs')
  BY Zenon, <1>2 DEF MemsOK
<1>4. Numbered' /\ StoredIs'
  BY Zenon, <1>1, <1>3, NumberedKept DEF UpSeq
<1>5. ReaderSeq' /\ SnapshotExact'
  BY Zenon, <1>1, <1>2, ReadersKept DEF UpSeq
<1>6. OnlyLogs'
  BY Zenon DEF OnlyLogs, LogsFrom
<1>7. LogsBounded'
  BY Zenon, <1>1, LogsBoundedKept
<1> QED
  BY Zenon, <1>2, <1>4, <1>5, <1>6, <1>7, UpSeqStep DEF UpSeq

(* The tables of the manifest stay as they are.                            *)
LEMMA ManSeqKept ==
  ASSUME Inv, SeqInv, proc = "up", bg.at # "install",
         UNCHANGED <<Man.l0, Man.low, Man.seq>>, \A t \in Version : tables'[t] = tables[t]
  PROVE  ManSeq'
<1>1. ManSeq /\ ManTables(Man) = Version
  BY Zenon DEF SeqInv, UpSeq, Inv, Running, VersionOK, ManTables, Version
<1>2. ManTables(Man)' = ManTables(Man)
  BY Zenon DEF ManTables
<1>3. Contents(ManTables(Man))' = Contents(ManTables(Man))
  BY Zenon, <1>1, <1>2, ContentsSame DEF Contents
<1> QED
  BY Zenon, <1>1, <1>3 DEF ManSeq

(* Without an edit in hand there is nothing to show of it.                 *)
LEMMA NoEditSeq ==
  ASSUME bg'.at \notin {"log", "install"}
  PROVE  EditSeq'
BY Zenon DEF EditSeq, Editing

(* The version and the readers keep their tables.                          *)
LEMMA VersionSeq ==
  ASSUME Inv, Inv', SeqInv, proc = "up", proc' = "up",
         UNCHANGED <<current, mem, imm, memtabs, stored, reader, writers_, op, group,
                     vs.seq, vs.l0, vs.low, vs.log>>,
         \A w \in Writers : /\ wst'[w] = "logged" <=> wst[w] = "logged"
                            /\ wst'[w] = "inserted" <=> wst[w] = "inserted",
         \A n \in DOMAIN logs' : n \in DOMAIN logs /\ logs'[n] = logs[n],
         vs.next <= vs'.next, \A t \in Version \cup Referred : tables'[t] = tables[t],
         bg'.merge.on => bg'.merge.out \notin Referred,
         ManSeq', EditSeq'
  PROVE  SeqInv'
<1>1. UpSeq
  BY Zenon DEF SeqInv
<1>2. \A n \in DOMAIN logs' : n >= vs'.log => n \in {mem, imm'} \ {0}
  BY Zenon, <1>1 DEF UpSeq, OnlyLogs, LogsFrom
<1>3. UNCHANGED (Contents(Version) \cup MemEntries(imm))
  <2>1. Version' = Version
    BY Zenon DEF Version
  <2>2. Contents(Version)' = Contents(Version)
    BY Zenon, <2>1, ContentsSame DEF Contents
  <2> QED
    BY Zenon, <2>2 DEF MemEntries
<1>4. \A r \in Reading : \A m \in reader[r].mems :
        m \in DOMAIN memtabs' /\ memtabs'[m] = memtabs[m]
  BY Zenon, <1>1 DEF UpSeq, ReaderSeq
<1>5. \A r \in Reading : /\ \A t \in reader[r].files : tables'[t] = tables[t]
                         /\ bg'.merge.on => bg'.merge.out \notin reader[r].files
  BY Zenon DEF Referred
<1> QED
  BY Zenon, <1>2, <1>3, <1>4, <1>5, BgSeq

(* A new number is in use nowhere.                                         *)
LEMMA FreshOutput ==
  ASSUME Inv, proc = "up", NewOutput
  PROVE  /\ \A t \in Version \cup Referred : tables'[t] = tables[t] /\ t # vs.next
         /\ vs'.seq = vs.seq /\ vs.next <= vs'.next
         /\ UNCHANGED <<vs.l0, vs.low, vs.log>>
<1>1. VsRec(vs) /\ vs.next \in Nat /\ ReadersOK /\ VersionOK
  BY Zenon DEF Inv, Forms, VsRec, Pos, Running
<1>2. \A t \in Version \cup Referred : t \in DOMAIN tables /\ t < vs.next
  BY Zenon, <1>1 DEF ReadersOK, VersionOK, Below, Referred
<1>3. \A t \in Version \cup Referred : t # vs.next /\ t \in DOMAIN tables
  BY <1>1, <1>2
<1>4. vs' = [vs EXCEPT !.next = vs.next + 1] /\ tables' = With(tables, vs.next, {})
  BY Zenon DEF NewOutput
<1>5. vs'.seq = vs.seq /\ vs'.next = vs.next + 1 /\ UNCHANGED <<vs.l0, vs.low, vs.log>>
  BY Zenon, <1>1, <1>4 DEF VsRec
<1>6. vs.next <= vs'.next
  BY <1>1, <1>5
<1>7. \A t \in DOMAIN tables : t # vs.next => tables'[t] = tables[t]
  BY Zenon, <1>4 DEF With
<1> QED
  BY Zenon, <1>3, <1>5, <1>6, <1>7

(* No reader refers to the output of the merge in hand.                    *)
LEMMA MergeUnread ==
  ASSUME Inv, SeqInv, proc = "up"
  PROVE  bg.merge.on => bg.merge.out \notin Referred
BY Zenon DEF SeqInv, UpSeq, ReaderSeq, Referred

(* CompactMemTable takes the memtable; no contents change.                 *)
LEMMA CompactMemTableSeq ==
  ASSUME Inv, Inv', SeqInv, CompactMemTable
  PROVE  SeqInv'
<1>1. /\ proc = "up" /\ bg.at # "install" /\ NewOutput
      /\ bg' = [bg EXCEPT !.at = "build", !.out = vs.next]
      /\ UNCHANGED <<logs, manifests, current, proc, mem, imm, memtabs, writers_, wst, op,
                     group, reader, stored>>
  BY Zenon DEF CompactMemTable, memVars, writeVars, history
<1>2. /\ \A t \in Version \cup Referred : tables'[t] = tables[t] /\ t # vs.next
      /\ vs'.seq = vs.seq /\ vs.next <= vs'.next
      /\ UNCHANGED <<vs.l0, vs.low, vs.log>>
  BY Zenon, <1>1, FreshOutput
<1>3. bg'.at = "build" /\ bg'.merge = bg.merge
  BY Zenon, <1>1 DEF Inv, Forms, BgRec
<1>4. ManSeq'
  BY Zenon, <1>1, <1>2, ManSeqKept DEF Man
<1>5. EditSeq'
  BY Zenon, <1>3, NoEditSeq
<1> QED
  BY Zenon, <1>1, <1>2, <1>3, <1>4, <1>5, MergeUnread, VersionSeq

(* The merge opens its output under a new number.                          *)
LEMMA OpenCompactionOutputFileSeq ==
  ASSUME Inv, Inv', SeqInv, OpenCompactionOutputFile
  PROVE  SeqInv'
<1>1. /\ proc = "up" /\ bg.at = "merge" /\ NewOutput
      /\ bg' = [bg EXCEPT !.merge.out = vs.next]
      /\ UNCHANGED <<logs, manifests, current, proc, mem, imm, memtabs, writers_, wst, op,
                     group, reader, stored>>
  BY Zenon, BackgroundRuns DEF OpenCompactionOutputFile, memVars, writeVars, history
<1>2. /\ \A t \in Version \cup Referred : tables'[t] = tables[t] /\ t # vs.next
      /\ vs'.seq = vs.seq /\ vs.next <= vs'.next
      /\ UNCHANGED <<vs.l0, vs.low, vs.log>>
  BY Zenon, <1>1, FreshOutput
<1>3. /\ bg'.at = "merge" /\ bg'.merge = [bg.merge EXCEPT !.out = vs.next]
      /\ MergeRec(bg.merge) /\ bg.merge.on
  BY Zenon, <1>1 DEF Inv, Forms, BgRec, Running, MergeOK
<1>4. bg'.merge.out = vs.next
  BY <1>3 DEF MergeRec, NoMerge
<1>5. ManSeq'
  BY Zenon, <1>1, <1>2, ManSeqKept DEF Man
<1>6. EditSeq'
  BY Zenon, <1>3, NoEditSeq
<1> QED
  BY Zenon, <1>1, <1>2, <1>4, <1>5, <1>6, VersionSeq

(* A memtable becomes a table.                                             *)
LEMMA BuildTableSeq ==
  ASSUME Inv, Inv', SeqInv, BuildTable
  PROVE  SeqInv'
<1>1. /\ proc = "up" /\ bg.at = "build"
      /\ tables' = [tables EXCEPT ![bg.out] = memtabs[imm]]
      /\ UNCHANGED <<logs, manifests, current, proc, vs, mem, imm, memtabs, writers_, wst, op,
                     group, reader, stored>>
  BY Zenon, BackgroundRuns DEF BuildTable, memVars, writeVars, history
<1>2. /\ Running /\ BgRec(bg) /\ vs.next \in Nat /\ UpSeq
      /\ bg.out \in DOMAIN tables /\ bg.out \notin Version /\ imm # 0
  BY Zenon, <1>1 DEF Inv, Forms, VsRec, Pos, Running, BuildOK, SeqInv
<1>3. PICK A \in {{}, {bg.out}} :
        bg' = [bg EXCEPT !.at = "log", !.edit = Edit(A, {bg.out} \ A, {}, mem)]
  BY Zenon DEF BuildTable
<1>4. PICK B, o : B = {o} \ A /\ o = bg.out
  BY Zenon
<1>5. A \cup B = {o}
  BY Zenon, <1>3, <1>4
<1>6. PICK e : e = Edit(A, B, {}, mem)
  BY Zenon
<1>7. e.add0 = A /\ e.addLow = B /\ e.del = {} /\ e.seq = vs.seq
  BY <1>6 DEF Edit
<1>8. bg'.at = "log" /\ bg'.merge = bg.merge /\ bg'.edit = e
  BY Zenon, <1>2, <1>3, <1>4, <1>6 DEF BgRec
<1>9. o \notin Version \cup Referred
  BY Zenon, <1>1, <1>2, <1>4 DEF Running, ReadersOK, Referred
<1>10. tables'[o] = memtabs[imm] /\ \A t \in Version \cup Referred : tables'[t] = tables[t]
  <2>1. \A t \in Version \cup Referred : t \in DOMAIN tables
    BY Zenon, <1>2 DEF Running, VersionOK, ReadersOK, Referred
  <2>2. tables' = [tables EXCEPT ![o] = memtabs[imm]] /\ o \in DOMAIN tables
    BY Zenon, <1>1, <1>2, <1>4
  <2> QED
    BY Zenon, <1>9, <2>1, <2>2
<1>11. ManSeq'
  BY Zenon, <1>1, <1>10, ManSeqKept DEF Man
<1>12. Version' = Version /\ NextL0' \cup NextLow' = Version \cup {o} /\ MemEntries(imm)' = memtabs[imm]
  BY Zenon, <1>1, <1>2, <1>5, <1>7, <1>8 DEF NextL0, NextLow, Version, MemEntries
<1>13. /\ Contents(Version)' = Contents(Version)
       /\ Contents(NextL0 \cup NextLow)' = Contents(Version) \cup memtabs[imm]
  <2>1. UNION {tables'[t] : t \in Version} = Contents(Version)
    BY Zenon, <1>10, ContentsSame
  <2>2. UNION {tables'[t] : t \in Version \cup {o}}
          = (UNION {tables'[t] : t \in Version}) \cup tables'[o]
    BY Zenon, ContentsWith
  <2>3. Contents(Version)' = UNION {tables'[t] : t \in Version}
    BY Zenon, <1>12 DEF Contents
  <2>4. Contents(NextL0 \cup NextLow)' = UNION {tables'[t] : t \in Version \cup {o}}
    BY Zenon, <1>12 DEF Contents
  <2> QED
    BY <1>10, <2>1, <2>2, <2>3, <2>4
<1>14. UpTo(Contents(Version) \cup memtabs[imm], vs.seq) /\ vs.seq \in Nat
  BY Zenon, <1>2 DEF UpSeq, Numbered, MemEntries
<1>15. EditSeq'
  BY Zenon, <1>7, <1>8, <1>12, <1>13, <1>14 DEF EditSeq
<1>16. vs.next <= vs'.next
  BY <1>1, <1>2
<1> QED
  BY Zenon, <1>1, <1>8, <1>10, <1>11, <1>15, <1>16, MergeUnread, VersionSeq

(* Waking writers does not change which group is written.                  *)
LEMMA SignalledSame ==
  ASSUME wst' = Signalled(wst)
  PROVE  \A w \in Writers : /\ wst'[w] = "logged" <=> wst[w] = "logged"
                            /\ wst'[w] = "inserted" <=> wst[w] = "inserted"
BY Zenon DEF Signalled

(* RecordBackgroundError keeps the merge and the group.                    *)
LEMMA ErrorSame ==
  ASSUME Inv, AfterError
  PROVE  /\ bg'.at \in {"merge", "sleep"} /\ bg'.merge = bg.merge
         /\ \A w \in Writers : /\ wst'[w] = "logged" <=> wst[w] = "logged"
                               /\ wst'[w] = "inserted" <=> wst[w] = "inserted"
<1>1. PICK a : a = IF bg.merge.on THEN "merge" ELSE "sleep"
  BY Zenon
<1>2. bg' = [NoBg EXCEPT !.at = a, !.merge = bg.merge]
  BY Zenon, <1>1 DEF AfterError
<1> QED
  BY Zenon, <1>1, <1>2, NoBgParts, SignalledSame DEF BgRec, AfterError

(* WriteLevel0Table fails: the table it wrote is removed.                  *)
LEMMA BuildTableFailsSeq ==
  ASSUME Inv, Inv', SeqInv, BuildTableFails
  PROVE  SeqInv'
<1>1. /\ proc = "up" /\ bg.at = "build" /\ AfterError
      /\ tables' = Only(tables, DOMAIN tables \ {bg.out})
      /\ UNCHANGED <<logs, manifests, current, proc, vs, mem, imm, memtabs, writers_, op,
                     group, reader, stored>>
  BY Zenon, BackgroundRuns DEF BuildTableFails, memVars, history
<1>2. /\ Running /\ vs.next \in Nat
      /\ \A t \in Version \cup Referred : t \in DOMAIN tables /\ t # bg.out
  BY Zenon, <1>1 DEF Inv, Forms, VsRec, Pos, Running, BuildOK, VersionOK, ReadersOK, Referred
<1>3. \A t \in Version \cup Referred : tables'[t] = tables[t]
  BY Zenon, <1>1, <1>2 DEF Only
<1>4. /\ bg'.at \in {"merge", "sleep"} /\ bg'.merge = bg.merge
      /\ \A w \in Writers : /\ wst'[w] = "logged" <=> wst[w] = "logged"
                            /\ wst'[w] = "inserted" <=> wst[w] = "inserted"
  BY Zenon, <1>1, ErrorSame
<1>5. ManSeq' /\ EditSeq'
  BY Zenon, <1>1, <1>3, <1>4, ManSeqKept, NoEditSeq DEF Man
<1>6. vs.next <= vs'.next
  BY <1>1, <1>2
<1> QED
  BY Zenon, <1>1, <1>3, <1>4, <1>5, <1>6, MergeUnread, VersionSeq

(* Moves and merges of tables.                                             *)
LEMMA MoveDownSeq ==
  ASSUME Inv, Inv', SeqInv, MoveDown
  PROVE  SeqInv'
<1>1. /\ proc = "up" /\ bg.at = "idle" /\ sched /\ imm = 0
      /\ UNCHANGED <<files, proc, vs, mem, imm, memtabs, writers_, wst, op, group, reader, stored>>
  BY Zenon DEF MoveDown, memVars, writeVars, history
<1>2. PICK t \in FirstInput : bg' = [bg EXCEPT !.at = "log", !.edit = Edit({}, {t}, {t}, vs.log)]
  BY Zenon DEF MoveDown
<1>3. t \in Version /\ Running /\ BgRec(bg) /\ vs.next \in Nat /\ UpSeq
  BY Zenon, <1>1, <1>2, FirstInputThere DEF Inv, Forms, VsRec, Pos, SeqInv
<1>4. PICK T, e : T = {t} /\ e = Edit({}, T, T, vs.log)
  BY Zenon
<1>5. e.add0 = {} /\ e.addLow = T /\ e.del = T /\ e.seq = vs.seq /\ T # {}
  BY <1>4 DEF Edit
<1>6. bg'.at = "log" /\ bg'.merge = bg.merge /\ bg'.edit = e
  BY Zenon, <1>2, <1>3, <1>4 DEF BgRec
<1>7. ManSeq' /\ vs.next <= vs'.next
  BY <1>1, <1>3, ManSeqKept DEF Man, files
<1>8. Version' = Version /\ NextL0' \cup NextLow' = Version
  BY Zenon, <1>1, <1>3, <1>4, <1>5, <1>6 DEF NextL0, NextLow, Version
<1>9. Contents(NextL0 \cup NextLow)' = Contents(Version) /\ Contents(Version)' = Contents(Version)
  BY Zenon, <1>1, <1>8 DEF Contents, files
<1>10. UpTo(Contents(Version), vs.seq) /\ vs.seq \in Nat
  BY Zenon, <1>3 DEF UpSeq, Numbered, UpTo
<1>11. EditSeq'
  BY Zenon, <1>5, <1>6, <1>9, <1>10 DEF EditSeq
<1> QED
  BY Zenon, <1>1, <1>6, <1>7, <1>11, MergeUnread, VersionSeq DEF files

(* The choice of the inputs changes no contents.                           *)
LEMMA PickCompactionSeq ==
  ASSUME Inv, Inv', SeqInv, PickCompaction
  PROVE  SeqInv'
<1>1. /\ proc = "up" /\ bg.at = "idle" /\ sched /\ imm = 0
      /\ UNCHANGED <<files, proc, vs, mem, imm, memtabs, writers_, wst, op, group, reader, stored>>
  BY Zenon DEF PickCompaction, memVars, writeVars, history
<1>2. PICK I : bg' = [bg EXCEPT !.at = "merge",
                                !.merge = [on |-> TRUE, in |-> I, out |-> 0,
                                           files |-> vs.l0 \cup vs.low]]
  BY Zenon DEF PickCompaction
<1>3. bg'.at = "merge" /\ bg'.merge.out = 0
  BY Zenon, <1>2 DEF Inv, Forms, BgRec
<1>4. 0 \notin Referred
  BY Zenon, <1>1 DEF Inv, Running, ReadersOK, Referred, Pos
<1>5. ManSeq' /\ EditSeq'
  BY Zenon, <1>1, <1>3, ManSeqKept, NoEditSeq DEF Man, files
<1>6. vs.next <= vs'.next
  BY <1>1 DEF Inv, Forms, VsRec, Pos
<1> QED
  BY Zenon, <1>1, <1>3, <1>4, <1>5, <1>6, VersionSeq DEF files

(* Inputs replaced by an output that holds their entries.                  *)
LEMMA ContentsMerged ==
  ASSUME NEW V, NEW I \in SUBSET V, NEW o, o \notin V, \A t \in V : tables'[t] = tables[t],
         tables'[o] = UNION {tables[t] : t \in I}
  PROVE  UNION {tables'[t] : t \in (V \ I) \cup {o}} = Contents(V)
<1> DEFINE A == UNION {tables'[t] : t \in (V \ I) \cup {o}}
           B == Contents(V)
<1>1. ASSUME NEW e, e \in A PROVE e \in B
  <2>1. PICK t : (t \in V \ I \/ t = o) /\ e \in tables'[t]
    BY Zenon, <1>1
  <2>2. CASE t \in V \ I
    BY Zenon, <2>1, <2>2 DEF Contents
  <2>3. CASE t = o
    <3>1. PICK u \in I : e \in tables[u]
      BY Zenon, <2>1, <2>3
    <3> QED
      BY Zenon, <3>1 DEF Contents
  <2> QED
    BY Zenon, <2>1, <2>2, <2>3
<1>2. ASSUME NEW e, e \in B PROVE e \in A
  <2>1. PICK t \in V : e \in tables[t]
    BY Zenon, <1>2 DEF Contents
  <2>2. CASE t \in I
    <3>1. e \in tables'[o]
      BY Zenon, <2>1, <2>2
    <3> QED
      BY Zenon, <3>1
  <2>3. CASE t \notin I
    <3>1. e \in tables'[t] /\ t \in V \ I
      BY Zenon, <2>1, <2>3
    <3> QED
      BY Zenon, <3>1
  <2> QED
    BY Zenon, <2>2, <2>3
<1> HIDE DEF A, B
<1>3. A = B
  BY Zenon, <1>1, <1>2
<1> QED
  BY Zenon, <1>3 DEF A, B

(* The output of the merge holds the entries of its inputs.                *)
LEMMA FinishCompactionSeq ==
  ASSUME Inv, Inv', SeqInv, FinishCompaction
  PROVE  SeqInv'
<1>1. /\ proc = "up" /\ bg.at = "merge" /\ bg.merge.out # 0
      /\ tables' = [tables EXCEPT ![bg.merge.out] = UNION {tables[t] : t \in bg.merge.in}]
      /\ bg' = [bg EXCEPT !.at = "log", !.out = bg.merge.out,
                          !.edit = Edit({}, {bg.merge.out}, bg.merge.in, vs.log)]
      /\ UNCHANGED <<logs, manifests, current, proc, vs, mem, imm, memtabs, writers_, wst, op,
                     group, reader, stored>>
  BY Zenon, BackgroundRuns DEF FinishCompaction, memVars, writeVars, history
<1>2. /\ Running /\ BgRec(bg) /\ MergeRec(bg.merge) /\ bg.merge.on /\ vs.next \in Nat /\ UpSeq
  BY Zenon, <1>1 DEF Inv, Forms, BgRec, VsRec, Pos, Running, MergeOK, SeqInv
<1>3. PICK o, I : o = bg.merge.out /\ I = bg.merge.in
  BY Zenon
<1>4. I # {} /\ I \subseteq Version /\ o \in DOMAIN tables /\ o \notin Version
  BY <1>1, <1>2, <1>3 DEF MergeRec, NoMerge, Running, MergeOK
<1>5. PICK O, e : O = {o} /\ e = Edit({}, O, I, vs.log)
  BY Zenon
<1>6. e.add0 = {} /\ e.addLow = O /\ e.del = I /\ e.seq = vs.seq
  BY <1>5 DEF Edit
<1>7. bg'.at = "log" /\ bg'.merge = bg.merge /\ bg'.edit = e
  BY Zenon, <1>1, <1>2, <1>3, <1>5 DEF BgRec
<1>8. o \notin Referred
  BY Zenon, <1>1, <1>2, <1>3, MergeUnread
<1>9. /\ tables'[o] = UNION {tables[t] : t \in I}
      /\ \A t \in Version \cup Referred : tables'[t] = tables[t]
  <2>1. \A t \in Version \cup Referred : t \in DOMAIN tables
    BY Zenon, <1>2 DEF Running, VersionOK, ReadersOK, Referred
  <2>2. tables' = [tables EXCEPT ![o] = UNION {tables[t] : t \in I}]
    BY Zenon, <1>1, <1>3
  <2> QED
    BY Zenon, <1>4, <1>8, <2>1, <2>2
<1>10. ManSeq' /\ vs.next <= vs'.next
  BY <1>1, <1>2, <1>9, ManSeqKept DEF Man
<1>11. Version' = Version /\ NextL0' \cup NextLow' = (Version \ I) \cup O
  BY Zenon, <1>1, <1>6, <1>7 DEF NextL0, NextLow, Version
<1>12. /\ Contents(NextL0 \cup NextLow)' = Contents(Version)
       /\ Contents(Version)' = Contents(Version)
  <2>1. UNION {tables'[t] : t \in (Version \ I) \cup {o}} = Contents(Version)
    BY Zenon, <1>4, <1>9, ContentsMerged
  <2>2. UNION {tables'[t] : t \in Version} = Contents(Version)
    BY Zenon, <1>9, ContentsSame
  <2>3. Contents(NextL0 \cup NextLow)' = UNION {tables'[t] : t \in (Version \ I) \cup {o}}
    BY Zenon, <1>5, <1>11 DEF Contents
  <2>4. Contents(Version)' = UNION {tables'[t] : t \in Version}
    BY Zenon, <1>11 DEF Contents
  <2> QED
    BY <2>1, <2>2, <2>3, <2>4
<1>13. UpTo(Contents(Version), vs.seq) /\ vs.seq \in Nat
  BY Zenon, <1>2 DEF UpSeq, Numbered, UpTo
<1>14. EditSeq'
  BY Zenon, <1>4, <1>6, <1>7, <1>12, <1>13 DEF EditSeq
<1> QED
  BY Zenon, <1>1, <1>7, <1>9, <1>10, <1>14, MergeUnread, VersionSeq

(* Removal of obsolete files leaves parts of the files.                    *)
LEMMA Removed ==
  ASSUME NEW v, NEW live, DeleteObsoleteFiles(v, live)
  PROVE  /\ \A n \in DOMAIN logs' : n \in DOMAIN logs /\ logs'[n] = logs[n] /\ n >= v.log
         /\ \A t \in DOMAIN tables \cap live : tables'[t] = tables[t]
         /\ \A n \in DOMAIN manifests : n >= v.manifest => manifests'[n] = manifests[n]
BY Zenon DEF DeleteObsoleteFiles, Only

(* A failed merge: its output goes, no input does.                         *)
LEMMA FailCompactionSeq ==
  ASSUME Inv, Inv', SeqInv, bg.at \in {"merge", "undo"}, FailCompaction,
         UNCHANGED <<current, proc, vs, memVars, writers_, op, group, reader, history>>
  PROVE  SeqInv'
<1>1. /\ proc = "up" /\ wst' = Signalled(wst) /\ bg' = [NoBg EXCEPT !.at = "sleep"]
      /\ UNCHANGED <<current, proc, vs, mem, imm, memtabs, writers_, op, group, reader, stored>>
  BY Zenon, BackgroundRuns DEF FailCompaction, memVars, history
<1>2. PICK live : Version \cup Referred \subseteq live /\ DeleteObsoleteFiles(vs, live)
  BY Zenon DEF FailCompaction, Live, Version
<1>3. /\ \A t \in Version \cup Referred : t \in DOMAIN tables
      /\ current \in DOMAIN manifests /\ current = vs.manifest /\ vs.manifest \in Nat
      /\ vs.next \in Nat
  BY Zenon, <1>1 DEF Inv, Running, VersionOK, ReadersOK, Referred, DiskOK, Forms, VsRec, Pos
<1>4. /\ \A n \in DOMAIN logs' : n \in DOMAIN logs /\ logs'[n] = logs[n]
      /\ \A t \in Version \cup Referred : tables'[t] = tables[t]
  BY Zenon, <1>2, <1>3, Removed
<1>5. Man' = Man /\ vs.next <= vs'.next
  <2>1. current >= vs.manifest /\ vs.next <= vs'.next
    BY <1>1, <1>3
  <2> QED
    BY Zenon, <1>1, <1>2, <1>3, <2>1, Removed DEF Man
<1>6. bg'.at = "sleep" /\ ~bg'.merge.on
  BY Zenon, <1>1, NoBgParts DEF BgRec
<1>7. ManSeq' /\ EditSeq'
  <2>1. bg.at # "install"
    BY Zenon
  <2> QED
    BY Zenon, <1>1, <1>4, <1>5, <1>6, <2>1, ManSeqKept, NoEditSeq
<1> QED
  BY Zenon, <1>1, <1>4, <1>5, <1>6, <1>7, SignalledSame, VersionSeq

(* The record of an edit, and the version it describes.                    *)
LEMMA LogRecordSeq ==
  ASSUME Inv, Inv', SeqInv, LogRecord
  PROVE  SeqInv'
<1>1. /\ proc = "up" /\ bg.at = "log"
      /\ manifests' = [manifests EXCEPT ![vs.manifest] = Applied(@, bg.edit)]
      /\ bg' = [bg EXCEPT !.at = "install"]
      /\ UNCHANGED <<logs, tables, current, proc, vs, mem, imm, memtabs, writers_, wst, op,
                     group, reader, stored>>
  BY Zenon, BackgroundRuns DEF LogRecord, memVars, writeVars, history
<1>2. /\ BgRec(bg) /\ current = vs.manifest /\ current \in DOMAIN manifests /\ ManRec(Man)
      /\ vs.next \in Nat /\ Editing /\ EditSeq /\ VersionOK'
  BY Zenon, <1>1 DEF Inv, Forms, ManForm, Man, VsRec, Pos, Running, VersionOK, DiskOK, SeqInv,
                     UpSeq, Editing
<1>3. bg'.at = "install" /\ bg'.merge = bg.merge /\ bg'.edit = bg.edit
  BY Zenon, <1>1, <1>2 DEF BgRec
<1>4. Man' = Applied(Man, bg.edit)
  BY Zenon, <1>1, <1>2 DEF Man
<1>5. Man'.seq = bg.edit.seq
  <2>1. PICK a, b, l, n, s : Man' = [Man EXCEPT !.l0 = a, !.low = b, !.log = l, !.next = n, !.seq = s]
                             /\ s = bg.edit.seq
    BY Zenon, <1>4 DEF Applied
  <2> QED
    BY Zenon, <1>2, <2>1 DEF ManRec
<1>6. /\ UNCHANGED <<NextL0, NextLow, Version, MemEntries(imm), Editing>>
      /\ ManTables(Man)' = NextL0 \cup NextLow
  <2>1. UNCHANGED <<NextL0, NextLow, Version, MemEntries(imm)>>
    BY Zenon, <1>1, <1>3 DEF NextL0, NextLow, Version, MemEntries
  <2>2. Editing /\ Editing'
    BY Zenon, <1>2, <1>3 DEF Editing
  <2>3. Editing' = Editing
    BY <2>2 DEF Editing
  <2> QED
    BY Zenon, <1>2, <1>3, <2>1, <2>3 DEF VersionOK, ManTables
<1>7. /\ Contents(NextL0 \cup NextLow)' = Contents(NextL0 \cup NextLow)
      /\ Contents(Version)' = Contents(Version)
      /\ Contents(ManTables(Man))' = Contents(NextL0 \cup NextLow)
  BY Zenon, <1>1, <1>6 DEF Contents
<1>8. ManSeq' /\ EditSeq'
  BY Zenon, <1>2, <1>3, <1>5, <1>6, <1>7 DEF ManSeq, EditSeq
<1>9. vs.next <= vs'.next
  BY <1>1, <1>2
<1> QED
  BY Zenon, <1>1, <1>3, <1>8, <1>9, MergeUnread, VersionSeq

(* LogAndApply fails: the version stays, the manifest may be torn.         *)
LEMMA LogRecordFailsSeq ==
  ASSUME Inv, Inv', SeqInv, LogRecordFails
  PROVE  SeqInv'
<1>1. /\ proc = "up" /\ bg.at = "log"
      /\ UNCHANGED <<logs, tables, current, proc, vs, mem, imm, memtabs, writers_, op,
                     group, reader, stored>>
  BY Zenon, BackgroundRuns DEF LogRecordFails, memVars, history
<1>2. /\ BgRec(bg) /\ current = vs.manifest /\ current \in DOMAIN manifests /\ ManRec(Man)
      /\ vs.next \in Nat
  BY Zenon, <1>1 DEF Inv, Forms, ManForm, Man, VsRec, Pos, Running, VersionOK, DiskOK
<1>3. UNCHANGED <<Man.l0, Man.low, Man.seq>>
  <2>1. CASE manifests' = manifests
    BY Zenon, <1>1, <2>1 DEF Man
  <2>2. CASE manifests' = [manifests EXCEPT ![vs.manifest].torn = TRUE]
    <3>1. Man' = [Man EXCEPT !.torn = TRUE]
      BY Zenon, <1>1, <1>2, <2>2 DEF Man
    <3> QED
      BY Zenon, <1>2, <3>1 DEF ManRec
  <2> QED
    BY Zenon, <2>1, <2>2 DEF LogRecordFails
<1>4. /\ bg'.at \in {"undo", "merge", "sleep"} /\ bg'.merge = bg.merge
      /\ \A w \in Writers : /\ wst'[w] = "logged" <=> wst[w] = "logged"
                            /\ wst'[w] = "inserted" <=> wst[w] = "inserted"
  <2>1. CASE bg.edit.del # {} /\ bg.merge.on
    <3>1. wst' = wst /\ bg' = [bg EXCEPT !.at = "undo"]
      BY Zenon, <2>1 DEF LogRecordFails
    <3> QED
      BY Zenon, <1>2, <3>1 DEF BgRec
  <2>2. CASE ~(bg.edit.del # {} /\ bg.merge.on)
    BY Zenon, <2>2, ErrorSame DEF LogRecordFails
  <2> QED
    BY Zenon, <2>1, <2>2
<1>5. ManSeq' /\ EditSeq'
  BY Zenon, <1>1, <1>3, <1>4, ManSeqKept, NoEditSeq
<1>6. vs.next <= vs'.next
  BY <1>1, <1>2
<1> QED
  BY Zenon, <1>1, <1>4, <1>5, <1>6, MergeUnread, VersionSeq

(* The new version holds what the old one and imm_ held.                   *)
LEMMA InstalledSeq ==
  ASSUME Inv, Inv', SeqInv, proc = "up", proc' = "up", bg.at = "install", vs' = NewVersion,
         UNCHANGED <<current, mem, stored, reader, writers_, op, group>>,
         imm' = IF bg.edit.del = {} THEN 0 ELSE imm, memtabs'[mem] = memtabs[mem],
         imm' # 0 => memtabs'[imm] = memtabs[imm],
         wst' = Signalled(wst), bg'.at \notin {"log", "install"},
         bg'.merge.on => bg'.merge = bg.merge, Man' = Man,
         \A r \in Reading : \A m \in reader[r].mems :
           m \in DOMAIN memtabs' /\ memtabs'[m] = memtabs[m],
         \A n \in DOMAIN logs' : n \in DOMAIN logs /\ logs'[n] = logs[n],
         \A t \in DOMAIN tables : t \in NextL0 \cup NextLow \cup Referred =>
                                    tables'[t] = tables[t]
  PROVE  SeqInv'
<1>1. /\ Running /\ VersionOK /\ MemsOK /\ EditOK /\ Editing /\ VsRec(vs) /\ EditRec(bg.edit)
      /\ vs.next \in Nat /\ mem \in Nat /\ imm \in Nat /\ vs.log \in Nat /\ UpSeq
      /\ DOMAIN logs \subseteq Nat
  BY Zenon, UpFacts DEF Running, Pos, Editing, Inv, Forms, LogsForm, SeqInv
<1>2. vs'.l0 = NextL0 /\ vs'.low = NextLow /\ vs'.log = bg.edit.log /\ vs'.next = vs.next
  BY Zenon, <1>1, NewVersionParts
<1>3. vs'.seq = vs.seq
  <2>1. PICK a, b, l : vs' = [vs EXCEPT !.seek = 0, !.l0 = a, !.low = b, !.log = l]
    BY Zenon DEF NewVersion
  <2> QED
    BY Zenon, <1>1, <2>1 DEF VsRec
<1>4. Version' = NextL0 \cup NextLow
  BY Zenon, <1>2 DEF Version
<1>5. \A t \in NextL0 \cup NextLow \cup Referred : tables'[t] = tables[t]
  <2>1. NextL0 \cup NextLow \cup Referred \subseteq DOMAIN tables
    <3>1. NextL0 \cup NextLow \subseteq DOMAIN tables
      BY Zenon, <1>1 DEF VersionOK, EditOK, NextL0, NextLow, Version
    <3>2. Referred \subseteq DOMAIN tables
      BY Zenon, <1>1 DEF Running, ReadersOK, Referred
    <3> QED
      BY Zenon, <3>1, <3>2
  <2> QED
    BY Zenon, <2>1
<1>6. Contents(Version)' = Contents(NextL0 \cup NextLow)
  BY Zenon, <1>4, <1>5, ContentsSame DEF Contents
<1>7. UNCHANGED (Contents(Version) \cup MemEntries(imm))
  <2>1. Contents(NextL0 \cup NextLow)
          = Contents(Version) \cup (IF bg.edit.del = {} THEN MemEntries(imm) ELSE {})
    BY Zenon, <1>1 DEF UpSeq, EditSeq
  <2>2. CASE bg.edit.del = {}
    <3>1. MemEntries(imm)' = {}
      BY Zenon, <2>2 DEF MemEntries
    <3> QED
      BY Zenon, <1>6, <2>1, <2>2, <3>1
  <2>3. CASE bg.edit.del # {}
    <3>1. MemEntries(imm)' = MemEntries(imm)
      BY Zenon, <2>3 DEF MemEntries
    <3> QED
      BY Zenon, <1>6, <2>1, <2>3, <3>1
  <2> QED
    BY Zenon, <2>2, <2>3
<1>8. ManSeq'
  <2>1. ManTables(Man) = NextL0 \cup NextLow /\ ManSeq
    BY Zenon, <1>1 DEF VersionOK, ManTables, UpSeq
  <2>2. Contents(ManTables(Man))' = Contents(ManTables(Man))
    BY Zenon, <1>5, <2>1, ContentsSame DEF Contents
  <2> QED
    BY Zenon, <2>1, <2>2 DEF ManSeq
<1>9. \A n \in DOMAIN logs' : n >= vs'.log => n \in {mem, imm'} \ {0}
  <2>1. OnlyLogs
    BY Zenon, <1>1 DEF UpSeq
  <2>2. CASE bg.edit.del = {}
    <3>1. vs'.log = mem /\ vs.log <= mem /\ (imm # 0 => imm < mem)
      BY Zenon, <1>1, <1>2, <2>2 DEF EditOK, MemsOK
    <3> QED
      BY <1>1, <2>1, <3>1 DEF OnlyLogs, LogsFrom
  <2>3. CASE bg.edit.del # {}
    <3>1. vs'.log = vs.log /\ imm' = imm
      BY Zenon, <1>1, <1>2, <2>3 DEF EditOK
    <3> QED
      BY Zenon, <2>1, <3>1 DEF OnlyLogs, LogsFrom
  <2> QED
    BY Zenon, <2>2, <2>3
<1>10. \A r \in Reading : /\ \A t \in reader[r].files : tables'[t] = tables[t]
                          /\ bg'.merge.on => bg'.merge.out \notin reader[r].files
  BY Zenon, <1>1, <1>5 DEF Referred, UpSeq, ReaderSeq
<1>11. imm' \in {0, imm} /\ vs.next <= vs'.next
  BY <1>1, <1>2
<1> QED
  BY Zenon, <1>3, <1>7, <1>8, <1>9, <1>10, <1>11, SignalledSame, NoEditSeq, BgSeq

(* The flushed memtable is replaced by its table.                          *)
LEMMA InstallMemTableSeq ==
  ASSUME Inv, Inv', SeqInv, InstallMemTable
  PROVE  SeqInv'
<1>1. /\ proc = "up" /\ bg.at = "install" /\ bg.edit.del = {} /\ vs' = NewVersion /\ imm' = 0
      /\ wst' = Signalled(wst)
      /\ memtabs' = Only(memtabs, {mem} \cup MemsOf(Reading))
      /\ UNCHANGED <<current, proc, mem, writers_, op, group, reader, stored>>
  BY Zenon, BackgroundRuns DEF InstallMemTable, OfMemTable, history
<1>2. /\ VsRec(vs) /\ EditRec(bg.edit) /\ mem \in DOMAIN memtabs /\ ReaderSeq
      /\ current = vs.manifest /\ current \in DOMAIN manifests /\ current \in Nat
  BY Zenon, <1>1, UpFacts DEF Running, MemsOK, SeqInv, UpSeq
<1>3. /\ NewVersion.l0 = NextL0 /\ NewVersion.low = NextLow
      /\ NewVersion.manifest = vs.manifest
  BY Zenon, <1>2, NewVersionParts
<1>4. PICK live : /\ NextL0 \cup NextLow \cup Referred \subseteq live
                  /\ DeleteObsoleteFiles(NewVersion, live)
  BY Zenon, <1>3 DEF InstallMemTable, Live
<1>5. /\ \A n \in DOMAIN logs' : n \in DOMAIN logs /\ logs'[n] = logs[n]
      /\ \A t \in DOMAIN tables : t \in NextL0 \cup NextLow \cup Referred =>
                                    tables'[t] = tables[t]
      /\ Man' = Man
  <2>1. current >= NewVersion.manifest
    BY <1>2, <1>3
  <2> QED
    BY Zenon, <1>1, <1>2, <1>4, <2>1, Removed DEF Man
<1>6. /\ memtabs'[mem] = memtabs[mem]
      /\ \A r \in Reading : \A m \in reader[r].mems :
           m \in DOMAIN memtabs' /\ memtabs'[m] = memtabs[m]
  BY Zenon, <1>1, <1>2 DEF Only, ReaderSeq, MemsOf
<1>7. PICK a : a = IF bg.merge.on THEN "merge" ELSE "idle"
  BY Zenon
<1>8. bg'.at = a /\ bg'.merge = bg.merge
  <2>1. bg' = [NoBg EXCEPT !.at = a, !.merge = bg.merge]
    BY Zenon, <1>7 DEF InstallMemTable
  <2> QED
    BY Zenon, <2>1, NoBgParts DEF BgRec
<1>9. bg'.at \notin {"log", "install"}
  BY Zenon, <1>7, <1>8
<1> QED
  BY Zenon, <1>1, <1>5, <1>6, <1>8, <1>9, InstalledSeq

(* A table moved to a lower level holds the same entries.                  *)
LEMMA InstallMoveSeq ==
  ASSUME Inv, Inv', SeqInv, InstallMove
  PROVE  SeqInv'
<1>1. /\ proc = "up" /\ bg.at = "install" /\ bg.edit.del # {} /\ vs' = NewVersion
      /\ wst' = Signalled(wst) /\ bg' = NoBg
      /\ UNCHANGED <<logs, tables, manifests, current, proc, mem, imm, memtabs, writers_, op,
                     group, reader, stored>>
  BY Zenon, BackgroundRuns DEF InstallMove, OfMemTable, history, files, memVars
<1>2. bg'.at \notin {"log", "install"} /\ ~bg'.merge.on /\ Man' = Man
  BY Zenon, <1>1, NoBgParts DEF Man
<1>3. \A r \in Reading : \A m \in reader[r].mems :
        m \in DOMAIN memtabs' /\ memtabs'[m] = memtabs[m]
  BY Zenon, <1>1 DEF SeqInv, UpSeq, ReaderSeq
<1> QED
  BY Zenon, <1>1, <1>2, <1>3, InstalledSeq

(* The inputs of a merge are replaced by its output.                       *)
LEMMA InstallCompactionSeq ==
  ASSUME Inv, Inv', SeqInv, InstallCompaction
  PROVE  SeqInv'
<1>1. /\ proc = "up" /\ bg.at = "install" /\ bg.edit.del # {} /\ vs' = NewVersion
      /\ wst' = Signalled(wst) /\ bg' = NoBg
      /\ UNCHANGED <<current, proc, mem, imm, memtabs, writers_, op, group, reader, stored>>
  BY Zenon, BackgroundRuns DEF InstallCompaction, OfMemTable, history, memVars
<1>2. /\ VsRec(vs) /\ EditRec(bg.edit) /\ ReaderSeq
      /\ current = vs.manifest /\ current \in DOMAIN manifests /\ current \in Nat
  BY Zenon, <1>1, UpFacts DEF SeqInv, UpSeq
<1>3. /\ NewVersion.l0 = NextL0 /\ NewVersion.low = NextLow
      /\ NewVersion.manifest = vs.manifest
  BY Zenon, <1>2, NewVersionParts
<1>4. PICK live : /\ NextL0 \cup NextLow \cup Referred \subseteq live
                  /\ DeleteObsoleteFiles(NewVersion, live)
  BY Zenon, <1>3 DEF InstallCompaction, Live
<1>5. /\ \A n \in DOMAIN logs' : n \in DOMAIN logs /\ logs'[n] = logs[n]
      /\ \A t \in DOMAIN tables : t \in NextL0 \cup NextLow \cup Referred =>
                                    tables'[t] = tables[t]
      /\ Man' = Man
  <2>1. current >= NewVersion.manifest
    BY <1>2, <1>3
  <2> QED
    BY Zenon, <1>1, <1>2, <1>4, <2>1, Removed DEF Man
<1>6. \A r \in Reading : \A m \in reader[r].mems :
        m \in DOMAIN memtabs' /\ memtabs'[m] = memtabs[m]
  BY Zenon, <1>1, <1>2 DEF ReaderSeq
<1>7. bg'.at \notin {"log", "install"} /\ ~bg'.merge.on
  BY Zenon, <1>1, NoBgParts
<1> QED
  BY Zenon, <1>1, <1>5, <1>6, <1>7, InstalledSeq

(* The thread wakes from its pause after an error.                         *)
LEMMA EndSleepSeq ==
  ASSUME Inv, Inv', SeqInv, EndSleep
  PROVE  SeqInv'
<1>1. /\ proc = "up" /\ bg.at = "sleep" /\ wst' = Signalled(wst) /\ bg' = NoBg
      /\ UNCHANGED <<logs, tables, manifests, current, proc, vs, mem, imm, memtabs, writers_,
                     op, group, reader, stored>>
  BY Zenon, BackgroundRuns DEF EndSleep, history, files, memVars
<1>2. vs.next \in Nat
  BY Zenon DEF Inv, Forms, VsRec, Pos
<1>3. bg'.at = "idle" /\ ~bg'.merge.on /\ Man' = Man
  BY Zenon, <1>1, NoBgParts DEF Man
<1>4. ManSeq' /\ EditSeq'
  BY Zenon, <1>1, <1>3, ManSeqKept, NoEditSeq
<1>5. vs.next <= vs'.next
  BY <1>1, <1>2
<1> QED
  BY Zenon, <1>1, <1>3, <1>4, <1>5, SignalledSame, VersionSeq

(* Every step of the background thread keeps the numbers and snapshots.    *)
LEMMA BackgroundSeq ==
  ASSUME Inv, Inv', SeqInv, BgStep
  PROVE  SeqInv'
<1>1. CASE CompactionFails
  BY Zenon, <1>1, FailCompactionSeq DEF CompactionFails
<1>2. CASE UndoCompaction
  BY Zenon, <1>2, FailCompactionSeq DEF UndoCompaction
<1> QED
  BY Zenon, <1>1, <1>2, CompactMemTableSeq, BuildTableSeq, BuildTableFailsSeq, MoveDownSeq,
     PickCompactionSeq, OpenCompactionOutputFileSeq, FinishCompactionSeq, LogRecordSeq,
     LogRecordFailsSeq, InstallMemTableSeq, InstallMoveSeq, InstallCompactionSeq, EndSleepSeq
     DEF BgStep
-----------------------------------------------------------------------------
(* Sequence numbers on disk.                                               *)
LEMMA LogEntriesPart ==
  ASSUME NEW N, NEW M, \A n \in N : logs'[n].good = {} \/ (n \in M /\ logs'[n] = logs[n])
  PROVE  UNION {logs'[n].good : n \in N} \subseteq LogEntries(M)
BY Zenon DEF LogEntries

(* The files that recovery reads stay as they are.                         *)
LEMMA DiskSeqKept ==
  ASSUME DiskSeq, UNCHANGED <<Man.l0, Man.low, Man.log, Man.seq>>,
         \A t \in ManTables(Man) : tables'[t] = tables[t],
         \A n \in DOMAIN logs' : logs'[n].good = {} \/ (n \in DOMAIN logs /\ logs'[n] = logs[n])
  PROVE  DiskSeq'
<1>1. ManTables(Man)' = ManTables(Man)
  BY Zenon DEF ManTables
<1>2. Contents(ManTables(Man))' = Contents(ManTables(Man))
  BY Zenon, <1>1, ContentsSame DEF Contents
<1>3. \A n \in LogsFrom(Man.log)' :
        logs'[n].good = {} \/ (n \in LogsFrom(Man.log) /\ logs'[n] = logs[n])
  BY Zenon DEF LogsFrom
<1>4. LogEntries(LogsFrom(Man.log))' \subseteq LogEntries(LogsFrom(Man.log))
  BY Zenon, <1>3, LogEntriesPart DEF LogEntries
<1> QED
  BY Zenon, <1>2, <1>4 DEF DiskSeq, Unique

(* NewDB writes the first manifest, CURRENT does not name it yet.          *)
LEMMA NewDBSeq ==
  ASSUME Inv, SeqInv, NewDB
  PROVE  SeqInv'
<1>1. current = 0 /\ proc' = "newdb" /\ UNCHANGED <<logs, current, stored>>
  BY Zenon DEF NewDB, history
<1>2. LogsBounded'
  BY Zenon, <1>1 DEF SeqInv, LogsBounded
<1> QED
  BY Zenon, <1>1, <1>2 DEF SeqInv

(* CURRENT names a manifest without tables, and there is no log.           *)
LEMMA NewDBCurrentSeq ==
  ASSUME Inv, SeqInv, NewDBCurrent
  PROVE  SeqInv'
<1>1. proc = "newdb" /\ current' = 1 /\ proc' = "down" /\ UNCHANGED <<logs, tables, manifests, stored>>
  BY Zenon DEF NewDBCurrent, history
<1>2. manifests[1] = NewMan /\ DOMAIN logs = {} /\ LogsBounded /\ Unique(stored)
  BY Zenon, <1>1 DEF Inv, StartOK, SeqInv
<1>3. Man' = NewMan
  BY Zenon, <1>1, <1>2 DEF Man
<1>4. Man'.seq = 0 /\ ManTables(Man)' = {} /\ LogsFrom(Man.log)' = {}
  BY Zenon, <1>1, <1>2, <1>3 DEF NewMan, ManTables, LogsFrom
<1>5. Contents(ManTables(Man))' = {} /\ LogEntries(LogsFrom(Man.log))' = {}
  BY Zenon, <1>4 DEF Contents, LogEntries
<1>6. DiskSeq'
  BY <1>4, <1>5 DEF DiskSeq, UpTo, Unique
<1>7. LogsBounded' /\ Unique(stored)' /\ current' # 0
  BY <1>1, <1>2 DEF LogsBounded, Unique
<1> QED
  BY Zenon, <1>1, <1>6, <1>7 DEF SeqInv

(* VersionSet::Recover reads the manifest.                                 *)
LEMMA VersionRecoverSeq ==
  ASSUME Inv, SeqInv, VersionRecover
  PROVE  SeqInv'
<1>1. /\ proc = "down" /\ current # 0 /\ proc' = "replay"
      /\ vs' = [l0 |-> Man.l0, low |-> Man.low, seek |-> 0, log |-> Man.log,
                next |-> Man.next + 1, manifest |-> Man.next, seq |-> Man.seq]
      /\ recov' = [NoRecov EXCEPT !.todo = LogsFrom(Man.log)]
      /\ UNCHANGED <<logs, tables, manifests, current, stored>>
  BY Zenon DEF VersionRecover, Man, files, history
<1>2. DiskSeq /\ LogsBounded /\ Unique(stored)
  BY Zenon, <1>1 DEF SeqInv
<1>3. UNCHANGED <<Man, LogsFrom(Man.log)>>
  BY Zenon, <1>1 DEF Man, LogsFrom
<1>4. DiskSeq'
  BY Zenon, <1>1, <1>2, <1>3, DiskSeqKept
<1>5. vs'.seq = Man.seq /\ recov'.seq = 0 /\ recov'.add = {} /\ recov'.todo = LogsFrom(Man.log)
  BY <1>1 DEF NoRecov
<1>6. Contents(recov.add)' = {} /\ LogsFrom(Man.log)' \ recov'.todo = {}
  BY Zenon, <1>3, <1>5 DEF Contents
<1>7. ReplaySeq'
  BY <1>3, <1>5, <1>6 DEF ReplaySeq
<1>8. LogsBounded'
  BY Zenon, <1>1, <1>2, LogsBoundedKept
<1> QED
  BY Zenon, <1>1, <1>2, <1>4, <1>7, <1>8 DEF SeqInv

(* The step of a replay, once the highest number of the log is known.      *)
LEMMA ReplayedSeq ==
  ASSUME Inv, SeqInv, proc = "replay", proc' = "replay", NEW n \in recov.todo,
         UNCHANGED <<logs, manifests, current, stored, vs.seq>>,
         \A t \in DOMAIN tables : t < vs.next => tables'[t] = tables[t],
         recov'.todo = recov.todo \ {n}, recov'.seq \in Nat, recov.seq <= recov'.seq,
         UpTo(logs[n].good, recov'.seq),
         \A t \in recov'.add : t \in recov.add \/ tables'[t] = logs[n].good
  PROVE  SeqInv'
<1>1. /\ Replaying /\ DiskSeq /\ ReplaySeq /\ LogsBounded /\ Unique(stored) /\ current # 0
      /\ DiskOK /\ vs.next \in Nat /\ Man.next \in Nat /\ ManTables(Man) \subseteq Nat
  BY Zenon DEF Inv, SeqInv, StartOK, DiskOK, Forms, ManForm, Man, ManTables, ManRec, VsRec, Pos
<1>2. \A t \in ManTables(Man) : tables'[t] = tables[t]
  <2>1. /\ ManTables(Man) \subseteq DOMAIN tables /\ Below(ManTables(Man), Man.next)
        /\ Man.next < vs.next
    BY Zenon, <1>1 DEF DiskOK, Replaying
  <2>2. \A t \in ManTables(Man) : t < vs.next
    BY <1>1, <2>1 DEF Below
  <2> QED
    BY Zenon, <2>1, <2>2
<1>3. UNCHANGED <<Man, LogsFrom(Man.log)>>
  BY Zenon DEF Man, LogsFrom
<1>4. DiskSeq'
  BY Zenon, <1>1, <1>2, <1>3, DiskSeqKept
<1>5. LogsBounded'
  BY Zenon, <1>1, LogsBoundedKept
<1>6. \A k \in LogsFrom(Man.log) \ recov'.todo : UpTo(logs[k].good, recov'.seq)
  <2>1. SUFFICES ASSUME NEW k \in LogsFrom(Man.log) \ recov'.todo, k # n
                 PROVE  UpTo(logs[k].good, recov'.seq)
    BY Zenon
  <2>2. UpTo(logs[k].good, recov.seq) /\ recov.seq \in Nat
    BY Zenon, <1>1, <2>1 DEF ReplaySeq
  <2> QED
    BY <2>2 DEF UpTo
<1>7. Contents(recov.add)' \subseteq LogEntries(LogsFrom(Man.log) \ recov'.todo)
  <2>1. SUFFICES ASSUME NEW t \in recov'.add, NEW e \in tables'[t]
                 PROVE  e \in LogEntries(LogsFrom(Man.log) \ recov'.todo)
    BY Zenon DEF Contents
  <2>2. CASE t \in recov.add
    <3>1. tables'[t] = tables[t]
      BY Zenon, <1>1, <2>2 DEF Replaying
    <3>2. e \in LogEntries(LogsFrom(Man.log) \ recov.todo)
      BY Zenon, <1>1, <2>2, <3>1 DEF ReplaySeq, Contents
    <3> QED
      BY Zenon, <3>2 DEF LogEntries
  <2>3. CASE tables'[t] = logs[n].good
    <3>1. n \in LogsFrom(Man.log) \ recov'.todo
      BY Zenon, <1>1 DEF Replaying
    <3> QED
      BY Zenon, <2>3, <3>1 DEF LogEntries
  <2> QED
    BY Zenon, <2>2, <2>3
<1>8. ReplaySeq'
  <2>1. Man' = Man /\ logs' = logs /\ LogsFrom(Man.log)' = LogsFrom(Man.log) /\ vs'.seq = vs.seq
    BY Zenon, <1>3
  <2>2. LogEntries(LogsFrom(Man.log) \ recov.todo)' = LogEntries(LogsFrom(Man.log) \ recov'.todo)
    <3>1. PICK N : N = LogsFrom(Man.log) \ recov'.todo
      BY Zenon
    <3>2. (LogsFrom(Man.log) \ recov.todo)' = N
      BY Zenon, <2>1, <3>1
    <3>3. UNION {logs'[m].good : m \in N} = UNION {logs[m].good : m \in N}
      BY Zenon, <2>1
    <3> QED
      BY Zenon, <3>1, <3>2, <3>3 DEF LogEntries
  <2> QED
    BY Zenon, <1>1, <1>6, <1>7, <2>1, <2>2 DEF ReplaySeq
<1> QED
  BY Zenon, <1>1, <1>4, <1>5, <1>8 DEF SeqInv

(* The numbers of the new manifest cover every table and log.              *)
LEMMA NewManifestSeq ==
  ASSUME Inv, Inv', SeqInv, NewManifest
  PROVE  SeqInv'
<1>1. PICK n, m, s :
        /\ n = vs.next /\ s = MaxOf(vs.seq, recov.seq)
        /\ m = [l0 |-> vs.l0 \cup recov.add, low |-> vs.low, log |-> n,
                next |-> n + 1, seq |-> s, torn |-> FALSE]
        /\ proc = "replay" /\ recov.todo = {} /\ proc' = "manifest"
        /\ logs' = With(logs, n, EmptyLog) /\ mem' = n
        /\ vs' = [vs EXCEPT !.next = n + 1, !.seq = s]
        /\ memtabs' = With(memtabs, n, {})
        /\ manifests' = With(manifests, vs.manifest, m)
        /\ UNCHANGED <<tables, current, stored>>
  BY Zenon DEF NewManifest, history
<1>2. /\ Replaying /\ ReplaySeq /\ DiskSeq /\ LogsBounded /\ Unique(stored) /\ DiskOK /\ VsRec(vs)
      /\ current # 0 /\ ManForm /\ LogsForm
  BY Zenon, <1>1 DEF Inv, Forms, StartOK, SeqInv
<1>3. /\ n \in Nat /\ vs.manifest \in Nat /\ Man.next \in Nat
      /\ current \in Nat /\ current < Man.next /\ vs.manifest = Man.next /\ Man.next < n
      /\ current \in DOMAIN manifests /\ Man.log \in Nat /\ Man.log < Man.next
      /\ vs.seq = Man.seq /\ Man.seq \in Nat /\ recov.seq \in Nat
  BY Zenon, <1>1, <1>2 DEF VsRec, Pos, ManForm, ManRec, Man, DiskOK, Replaying, ReplaySeq, DiskSeq
<1>4. s \in Nat /\ Man.seq <= s /\ recov.seq <= s /\ current # vs.manifest
  BY <1>1, <1>3 DEF MaxOf
<1>5. vs'.seq = s /\ vs'.manifest = vs.manifest
  <2>1. PICK k : vs' = [vs EXCEPT !.next = k, !.seq = s]
    BY Zenon, <1>1
  <2> QED
    BY Zenon, <1>2, <2>1 DEF VsRec
<1>6. Man' = Man /\ Opened' = m
  BY Zenon, <1>1, <1>3, <1>4, <1>5 DEF Man, Opened, With
<1>7. /\ \A x \in DOMAIN logs' : logs'[x].good = {} \/ (x \in DOMAIN logs /\ logs'[x] = logs[x])
      /\ DOMAIN logs' = DOMAIN logs \cup {n} /\ memtabs'[n] = {}
  BY Zenon, <1>1 DEF With, EmptyLog
<1>8. DiskSeq' /\ LogsBounded'
  BY Zenon, <1>1, <1>2, <1>6, <1>7, DiskSeqKept, LogsBoundedKept
<1>9. m.seq = s /\ ManTables(m) = ManTables(Man) \cup recov.add
  <2>1. m.seq = s /\ m.l0 = vs.l0 \cup recov.add /\ m.low = vs.low
    BY Zenon, <1>1
  <2> QED
    BY Zenon, <1>2, <2>1 DEF ManTables, Replaying
<1>10. /\ Contents(ManTables(Opened))' = Contents(ManTables(Man)) \cup Contents(recov.add)
       /\ Contents(recov.add) \subseteq LogEntries(LogsFrom(Man.log))
       /\ \A x \in LogsFrom(Man.log) : UpTo(logs[x].good, recov.seq) /\ x < vs.next
  <2>1. Contents(ManTables(Opened))' = Contents(ManTables(Man) \cup recov.add)
    BY Zenon, <1>1, <1>6, <1>9 DEF Contents
  <2>2. LogsFrom(Man.log) \ recov.todo = LogsFrom(Man.log)
    BY Zenon, <1>1
  <2> QED
    BY Zenon, <1>2, <2>1, <2>2, UnitContents DEF ReplaySeq, Replaying
<1>11. Unique(Contents(ManTables(Opened)))'
  BY Zenon, <1>2, <1>10 DEF DiskSeq, Unique
<1>12. UpTo(Contents(ManTables(Opened)), vs.seq)'
  <2>1. UpTo(Contents(ManTables(Man)), Man.seq) /\ UpTo(LogEntries(LogsFrom(Man.log)), recov.seq)
    BY Zenon, <1>2, <1>10 DEF DiskSeq, LogEntries, UpTo
  <2>2. UpTo(Contents(ManTables(Man)), s) /\ UpTo(Contents(recov.add), s)
    BY <1>3, <1>4, <1>10, <2>1 DEF UpTo
  <2> QED
    BY Zenon, <1>5, <1>10, <2>2 DEF UpTo
<1>13. \A x \in DOMAIN logs' : x <= n
  <2>1. \A x \in DOMAIN logs : x \in Nat /\ (x >= Man.log => x < vs.next)
    BY Zenon, <1>2, <1>10 DEF LogsForm, LogsFrom
  <2> QED
    BY <1>1, <1>3, <1>7, <2>1
<1>14. OpenSeq'
  BY Zenon, <1>1, <1>4, <1>5, <1>6, <1>7, <1>9, <1>11, <1>12, <1>13 DEF OpenSeq
<1> QED
  BY Zenon, <1>1, <1>2, <1>8, <1>14 DEF SeqInv

(* CURRENT is switched: recovery now starts from the new files.            *)
LEMMA SetCurrentFileSeq ==
  ASSUME Inv, SeqInv, SetCurrentFile
  PROVE  SeqInv'
<1>1. /\ proc = "manifest" /\ current' = vs.manifest /\ proc' = "install"
      /\ UNCHANGED <<logs, tables, manifests, vs, mem, memtabs, recov, stored>>
  BY Zenon DEF SetCurrentFile, memVars
<1>2. Opening /\ OpenSeq /\ LogsBounded /\ Unique(stored) /\ LogsForm /\ mem \in Nat
  BY Zenon, <1>1 DEF Inv, SeqInv, Forms, MemForm
<1>3. Man' = Opened /\ Opened' = Opened
  BY Zenon, <1>1 DEF Man, Opened
<1>4. OpenSeq'
  BY Zenon, <1>1, <1>2, <1>3 DEF OpenSeq, Contents
<1>5. LogsFrom(Man.log)' \subseteq {mem}
  <2>1. Man'.log = mem
    BY Zenon, <1>2, <1>3 DEF Opening
  <2>2. \A n \in DOMAIN logs : n \in Nat /\ n <= mem
    BY Zenon, <1>2 DEF OpenSeq, LogsForm
  <2>3. \A n \in DOMAIN logs : n >= mem => n = mem
    BY <1>2, <2>2
  <2> QED
    BY Zenon, <1>1, <2>1, <2>3 DEF LogsFrom
<1>6. LogEntries(LogsFrom(Man.log))' = {}
  BY Zenon, <1>1, <1>2, <1>5 DEF LogEntries, Opening
<1>7. Contents(ManTables(Man))' = Contents(ManTables(Opened))
  BY Zenon, <1>1, <1>3 DEF Contents
<1>8. DiskSeq'
  <2>1. Man'.seq = vs.seq
    BY Zenon, <1>2, <1>3 DEF OpenSeq
  <2> QED
    BY Zenon, <1>2, <1>6, <1>7, <2>1 DEF DiskSeq, OpenSeq, Unique
<1>9. LogsBounded' /\ current' # 0
  BY Zenon, <1>1, <1>2, LogsBoundedKept DEF Opening
<1> QED
  BY Zenon, <1>1, <1>2, <1>4, <1>8, <1>9 DEF SeqInv

(* The database opens with what was recovered as stored.                   *)
LEMMA OpenDoneSeq ==
  ASSUME Inv, Inv', SeqInv, OpenDone
  PROVE  SeqInv'
<1>1. PICK v : /\ v = [vs EXCEPT !.l0 = vs.l0 \cup recov.add, !.log = mem]
               /\ vs' = v /\ DeleteObsoleteFiles(v, v.l0 \cup v.low)
               /\ stored' = UNION {tables[t] : t \in v.l0 \cup v.low}
  BY Zenon DEF OpenDone
<1>2. /\ proc = "install" /\ proc' = "up"
      /\ UNCHANGED <<current, mem, imm, memtabs, writers_, wst, op, group, bg, reader>>
  BY Zenon DEF OpenDone, memVars, writeVars
<1>3. /\ Opening /\ OpenSeq /\ VsRec(vs) /\ LogsForm /\ QueueOK /\ Quiet /\ LogsBounded
      /\ mem \in Nat /\ current \in Nat
  BY Zenon, <1>2 DEF Inv, Forms, MemForm, ManForm, SeqInv
<1>4. /\ v.l0 = vs.l0 \cup recov.add /\ v.low = vs.low /\ v.log = mem
      /\ v.manifest = vs.manifest /\ v.seq = vs.seq
  <2>1. PICK L : L = vs.l0 \cup recov.add
    BY Zenon
  <2>2. v = [vs EXCEPT !.l0 = L, !.log = mem]
    BY Zenon, <1>1, <2>1
  <2> QED
    BY Zenon, <1>3, <2>1, <2>2 DEF VsRec
<1>5. /\ current = vs.manifest /\ Man = Opened /\ Version' = ManTables(Opened) /\ current # 0
      /\ v.l0 \cup v.low = ManTables(Opened) /\ Version' \subseteq DOMAIN tables
      /\ current \in DOMAIN manifests
  BY Zenon, <1>1, <1>2, <1>3, <1>4 DEF Opening, Man, Opened, ManTables, Version
<1>6. /\ \A n \in DOMAIN logs' : n \in DOMAIN logs /\ logs'[n] = logs[n] /\ n >= mem
      /\ \A t \in Version' : tables'[t] = tables[t]
      /\ Man' = Man
  <2>1. current >= v.manifest
    BY <1>3, <1>4, <1>5
  <2>2. /\ \A n \in DOMAIN logs' : n \in DOMAIN logs /\ logs'[n] = logs[n] /\ n >= v.log
        /\ \A t \in DOMAIN tables \cap (v.l0 \cup v.low) : tables'[t] = tables[t]
        /\ \A n \in DOMAIN manifests : n >= v.manifest => manifests'[n] = manifests[n]
    BY Zenon, <1>1, Removed
  <2> QED
    BY Zenon, <1>2, <1>4, <1>5, <2>1, <2>2 DEF Man
<1>7. DOMAIN logs' \subseteq {mem} /\ mem # 0 /\ imm' = 0
  <2>1. \A n \in DOMAIN logs' : n \in Nat /\ n <= mem /\ n >= mem
    BY Zenon, <1>3, <1>6 DEF OpenSeq, LogsForm
  <2>2. \A n \in DOMAIN logs' : n = mem
    BY <1>3, <2>1
  <2> QED
    BY Zenon, <1>2, <1>3, <2>2 DEF Opening, Quiet
<1>8. mem \in DOMAIN logs'
  BY Zenon, <1>2 DEF Inv, Running, MemsOK
<1>9. /\ Contents(Version)' = Contents(ManTables(Opened)) /\ stored' = Contents(ManTables(Opened))
      /\ MemEntries(imm)' = {} /\ memtabs'[mem'] = {} /\ Logged' = {}
  <2>1. UNION {tables'[t] : t \in Version'} = Contents(Version')
    BY Zenon, <1>6, ContentsSame
  <2>2. Logged' = logs'[mem].good
    BY Zenon, <1>2, <1>7 DEF Logged
  <2>3. logs'[mem] = logs[mem] /\ logs[mem].good = {}
    BY Zenon, <1>3, <1>6, <1>8 DEF Opening
  <2> QED
    BY Zenon, <1>1, <1>2, <1>3, <1>5, <1>7, <2>1, <2>2, <2>3 DEF Contents, MemEntries, OpenSeq
<1>10. /\ \A r \in Readers : reader'[r] = Idle
       /\ \A w \in Writers : wst'[w] = "idle"
  <2>1. writers_ = <<>> /\ \A r \in Readers : reader'[r] = Idle
    BY Zenon, <1>2, <1>3 DEF Quiet
  <2>2. \A w \in Writers : wst'[w] = "idle"
    BY <1>2, <1>3, <2>1 DEF QueueOK
  <2> QED
    BY Zenon, <2>1, <2>2
<1>11. InFlight({"inserted"})' = {} /\ InFlight({"logged", "inserted"})' = {}
  <2>1. /\ ~\E w \in Writers : wst'[w] \in {"inserted"}
        /\ ~\E w \in Writers : wst'[w] \in {"logged", "inserted"}
    BY Zenon, <1>10
  <2> QED
    BY Zenon, <2>1 DEF InFlight
<1>12. Held' = Contents(ManTables(Opened)) /\ vs'.seq = vs.seq
  BY Zenon, <1>1, <1>4, <1>9 DEF Held
<1>13. Numbered'
  <2>1. vs.seq \in Nat /\ UpTo(Contents(ManTables(Opened)), vs.seq) /\ Unique(Contents(ManTables(Opened)))
    BY Zenon, <1>3 DEF OpenSeq
  <2>2. /\ UpTo(Contents(Version) \cup MemEntries(imm), vs.seq)'
        /\ UpTo(memtabs[mem] \ InFlight({"inserted"}), vs.seq)'
        /\ UpTo(Logged \ InFlight({"logged", "inserted"}), vs.seq)'
    BY Zenon, <1>9, <1>12, <2>1 DEF UpTo
  <2>3. Unique(Held \cup Logged)'
    BY Zenon, <1>9, <1>12, <2>1 DEF Unique
  <2> QED
    BY Zenon, <1>11, <1>12, <2>1, <2>2, <2>3 DEF Numbered
<1>14. OnlyLogs'
  BY Zenon, <1>2, <1>7 DEF OnlyLogs, LogsFrom
<1>15. ManSeq'
  <2>1. Man'.seq = vs.seq /\ ManTables(Man)' = ManTables(Opened)
    BY Zenon, <1>3, <1>5, <1>6 DEF OpenSeq
  <2>2. Contents(ManTables(Man))' = Contents(ManTables(Opened))
    BY Zenon, <1>5, <1>9, <2>1 DEF Contents
  <2> QED
    BY Zenon, <1>3, <2>1, <2>2 DEF ManSeq, OpenSeq
<1>16. StoredIs'
  BY Zenon, <1>3, <1>9, <1>12 DEF StoredIs, OpenSeq, UpTo
<1>17. EditSeq'
  <2>1. bg'.at = "idle"
    BY Zenon, <1>2, <1>3, NoBgParts DEF Quiet
  <2> QED
    BY Zenon, <2>1, NoEditSeq
<1>18. ReaderSeq' /\ SnapshotExact'
  <2>1. \A r \in Readers : reader'[r].at # "reading"
    BY <1>10 DEF Idle
  <2> QED
    BY Zenon, <2>1 DEF ReaderSeq, Reading, SnapshotExact
<1>19. LogsBounded' /\ Unique(stored)' /\ current' # 0
  BY Zenon, <1>2, <1>3, <1>5, <1>6, <1>9, LogsBoundedKept DEF OpenSeq
<1> QED
  BY Zenon, <1>2, <1>13, <1>14, <1>15, <1>16, <1>17, <1>18, <1>19 DEF SeqInv, UpSeq

(* A crash leaves files whose sequence numbers are in order.               *)
LEMMA RunningDisk ==
  ASSUME Inv, SeqInv, proc = "up"
  PROVE  DiskSeq
<1>1. /\ VersionOK /\ MemsOK /\ EditOK /\ UpSeq /\ mem \in Nat /\ imm \in Nat /\ vs.log \in Nat
      /\ LogsForm
  BY Zenon, UpFacts DEF Inv, Running, Forms, SeqInv
<1>2. /\ Contents(ManTables(Man)) \subseteq Held
      /\ \A n \in LogsFrom(Man.log) : n \in LogsFrom(vs.log)
  <2>1. CASE bg.at # "install"
    <3>1. ManTables(Man) = Version /\ Man.log = vs.log
      BY Zenon, <1>1, <2>1 DEF VersionOK, ManTables, Version
    <3> QED
      BY Zenon, <3>1 DEF Held
  <2>2. CASE bg.at = "install"
    <3>1. /\ ManTables(Man) = NextL0 \cup NextLow /\ Man.log = bg.edit.log /\ Editing
      BY Zenon, <1>1, <2>2 DEF VersionOK, ManTables, Editing
    <3>2. Contents(ManTables(Man)) \subseteq Contents(Version) \cup MemEntries(imm)
      BY Zenon, <1>1, <3>1 DEF UpSeq, EditSeq
    <3>3. Man.log \in Nat /\ vs.log <= Man.log
      <4>1. Man.log = mem \/ Man.log = vs.log
        BY Zenon, <1>1, <3>1 DEF EditOK
      <4> QED
        BY <1>1, <4>1 DEF MemsOK
    <3>4. \A n \in DOMAIN logs : n >= Man.log => n >= vs.log
      BY <1>1, <3>3 DEF LogsForm
    <3> QED
      BY Zenon, <3>2, <3>4 DEF Held, LogsFrom
  <2> QED
    BY Zenon, <2>1, <2>2
<1>3. LogEntries(LogsFrom(Man.log)) \subseteq Logged
  <2>1. \A n \in LogsFrom(Man.log) : n = mem \/ (imm # 0 /\ n = imm)
    BY Zenon, <1>1, <1>2 DEF UpSeq, OnlyLogs
  <2> QED
    BY Zenon, <2>1 DEF LogEntries, Logged
<1> QED
  BY Zenon, <1>1, <1>2, <1>3 DEF DiskSeq, UpSeq, ManSeq, Numbered, Unique

(* The process goes down and leaves the files as they are.                 *)
LEMMA DownSeq ==
  ASSUME Inv, SeqInv, proc' = "down", UNCHANGED <<logs, tables, current, stored>>,
         current # 0 => UNCHANGED <<Man.l0, Man.low, Man.log, Man.seq>>
  PROVE  SeqInv'
<1>1. current # 0 => DiskSeq
  BY Zenon, RunningDisk DEF SeqInv
<1>2. current' # 0 => DiskSeq'
  BY Zenon, <1>1, DiskSeqKept
<1>3. LogsBounded'
  BY Zenon, LogsBoundedKept DEF SeqInv
<1> QED
  BY Zenon, <1>2, <1>3 DEF SeqInv

(* DB::Open fails at any stage.                                            *)
LEMMA OpenFailsSeq ==
  ASSUME Inv, SeqInv, OpenFails
  PROVE  SeqInv'
<1>1. /\ proc \in {"newdb", "replay", "manifest"} /\ proc' = "down"
      /\ manifests' = IF proc = "manifest"
                      THEN Only(manifests, DOMAIN manifests \ {vs.manifest}) ELSE manifests
      /\ UNCHANGED <<logs, tables, current, stored>>
  BY Zenon DEF OpenFails, history
<1>2. current # 0 => Man' = Man
  <2>1. CASE proc # "manifest"
    BY Zenon, <1>1, <2>1 DEF Man
  <2>2. CASE proc = "manifest"
    <3>1. current # vs.manifest
      BY <2>2 DEF Inv, Opening, ManForm, Forms, VsRec
    <3> QED
      BY Zenon, <1>1, <2>2, <3>1 DEF Man, Inv, DiskOK, Only
  <2> QED
    BY Zenon, <2>1, <2>2
<1> QED
  BY Zenon, <1>1, <1>2, DownSeq

(* A crash at any step.                                                    *)
LEMMA CrashSeq ==
  ASSUME Inv, SeqInv, Crash
  PROVE  SeqInv'
<1>1. /\ \/ manifests' = manifests
         \/ /\ bg.at = "log"
            /\ manifests' = [manifests EXCEPT ![vs.manifest].torn = TRUE]
      /\ proc' = "down" /\ UNCHANGED <<logs, tables, current, stored>>
  BY Zenon DEF Crash, history
<1>2. CASE manifests' = manifests
  BY Zenon, <1>1, <1>2, DownSeq DEF Man
<1>3. CASE /\ bg.at = "log"
           /\ manifests' = [manifests EXCEPT ![vs.manifest].torn = TRUE]
  <2>1. current = vs.manifest /\ current \in DOMAIN manifests /\ ManRec(Man)
    BY Zenon, <1>3, BackgroundRuns DEF Inv, Running, VersionOK, DiskOK, Forms, ManForm, Man
  <2>2. Man' = [Man EXCEPT !.torn = TRUE]
    BY Zenon, <1>1, <1>3, <2>1 DEF Man
  <2>3. UNCHANGED <<Man.l0, Man.low, Man.log, Man.seq>>
    BY Zenon, <2>1, <2>2 DEF ManRec
  <2> QED
    BY Zenon, <1>1, <2>3, DownSeq
<1> QED
  BY Zenon, <1>1, <1>2, <1>3

(* The steps of DBImpl::Write.                                             *)
LEMMA EntriesAbove ==
  ASSUME vs.seq \in Nat, group \in Nat
  PROVE  /\ \A e \in Entries : SeqOf(e) \in Nat /\ vs.seq < SeqOf(e) /\ SeqOf(e) <= vs.seq + group
         /\ Unique(Entries)
BY DEF Entries, SeqOf, Unique

(* Tables, manifest and edit are not touched by the step.                  *)
LEMMA FilesSeq ==
  ASSUME SeqInv, proc = "up",
         UNCHANGED <<tables, manifests, current, mem, imm, bg, vs.l0, vs.low, vs.log,
                     MemEntries(imm), DOMAIN logs>>
  PROVE  OnlyLogs' /\ ManSeq' /\ EditSeq'
<1>1. OnlyLogs /\ ManSeq /\ EditSeq
  BY Zenon DEF SeqInv, UpSeq
<1>2. UNCHANGED <<Man, Version, NextL0, NextLow, LogsFrom(vs.log)>>
  BY Zenon DEF Man, Version, NextL0, NextLow, LogsFrom
<1>3. /\ Contents(ManTables(Man))' = Contents(ManTables(Man))
      /\ Contents(Version)' = Contents(Version)
      /\ Contents(NextL0 \cup NextLow)' = Contents(NextL0 \cup NextLow)
  BY Zenon, <1>2 DEF Contents
<1>4. OnlyLogs'
  BY Zenon, <1>1, <1>2 DEF OnlyLogs
<1>5. ManSeq'
  BY Zenon, <1>1, <1>2, <1>3 DEF ManSeq
<1>6. EditSeq'
  BY Zenon, <1>1, <1>3 DEF EditSeq, Editing
<1> QED
  BY Zenon, <1>4, <1>5, <1>6

(* A writer's step that changes logs but no table or memtable.             *)
LEMMA WriterSeq ==
  ASSUME Inv, Inv', SeqInv, proc = "up", proc' = "up",
         UNCHANGED <<tables, manifests, current, vs, mem, imm, memtabs, bg, reader, stored,
                     DOMAIN logs>>,
         LogsBounded', Numbered'
  PROVE  SeqInv'
<1>1. UpSeq /\ current # 0 /\ vs.next \in Nat
  BY Zenon DEF SeqInv, Inv, Running, VersionOK, Forms, VsRec, Pos
<1>2. OnlyLogs' /\ ManSeq' /\ EditSeq'
  BY Zenon, FilesSeq DEF MemEntries
<1>3. StoredIs'
  <2>1. Version' = Version
    BY Zenon DEF Version
  <2>2. Held' = Held
    BY Zenon, <2>1 DEF Held, Contents, MemEntries
  <2> QED
    BY Zenon, <1>1, <2>2 DEF UpSeq, StoredIs
<1>4. vs.next <= vs'.next
  BY <1>1
<1>5. ReaderSeq' /\ SnapshotExact'
  BY Zenon, <1>1, <1>4, ReadersKept DEF UpSeq, ReaderSeq
<1> QED
  BY Zenon, <1>1, <1>2, <1>3, <1>5, UpSeqStep DEF UpSeq

(* A step of the queue only.                                               *)
LEMMA QueueSeq ==
  ASSUME Inv, Inv', SeqInv, proc = "up", proc' = "up",
         UNCHANGED <<tables, manifests, current, vs, mem, imm, memtabs, bg, reader, stored,
                     logs, InFlight({"inserted"}), InFlight({"logged", "inserted"})>>
  PROVE  SeqInv'
<1>1. Numbered /\ LogsBounded
  BY Zenon DEF SeqInv, UpSeq
<1>2. Version' = Version
  BY Zenon DEF Version
<1>3. /\ Held' = Held /\ Logged' = Logged /\ Contents(Version)' = Contents(Version)
      /\ MemEntries(imm)' = MemEntries(imm)
  BY Zenon, <1>2 DEF Held, Logged, Contents, MemEntries
<1>4. Numbered'
  BY Zenon, <1>1, <1>3 DEF Numbered
<1>5. LogsBounded' /\ UNCHANGED DOMAIN logs
  BY Zenon, <1>1, LogsBoundedKept
<1> QED
  BY Zenon, <1>4, <1>5, WriterSeq

(* While the front writer is not between log and reply, no group is.       *)
LEMMA NobodyWrites ==
  ASSUME Inv, NEW w \in Writers, wst[w] \in {"front", "waiting", "logging", "failed"}
  PROVE  /\ proc = "up" /\ InFlight({"inserted"}) = {} /\ InFlight({"logged", "inserted"}) = {}
<1>1. wst[w] \in Active /\ proc = "up"
  BY Zenon, WriterRuns DEF Active
<1>2. \A v \in Writers : wst[v] \in Active => v = w
  BY Zenon, <1>1, FrontWriter DEF Inv
<1>3. \A v \in Writers : wst[v] \notin {"logged", "inserted"} /\ wst[v] # "inserted"
  BY Zenon, <1>2 DEF Active
<1> QED
  BY Zenon, <1>1, <1>3 DEF InFlight

(* The same of the state after a step.                                     *)
LEMMA NobodyWritesNext ==
  ASSUME \A v \in Writers : wst'[v] \notin {"logged", "inserted"}
  PROVE  InFlight({"inserted"})' = {} /\ InFlight({"logged", "inserted"})' = {}
BY Zenon DEF InFlight

(* DBImpl::Write joins the queue.                                          *)
LEMMA JoinQueueSeq ==
  ASSUME Inv, Inv', SeqInv, NEW w \in Writers, JoinQueue(w)
  PROVE  SeqInv'
<1>1. /\ proc = "up" /\ wst[w] = "idle" /\ writers_' = Append(writers_, w)
      /\ \A v \in Writers : v # w => op'[v] = op[v] /\ wst'[v] = wst[v]
      /\ wst'[w] \in {"front", "asleep"}
      /\ UNCHANGED <<logs, tables, manifests, current, proc, vs, mem, imm, memtabs, group, bg,
                     reader, stored>>
  <2>1. QueueOK
    BY Zenon DEF Inv
  <2> QED
    BY Zenon, <2>1 DEF JoinQueue, files, memVars, bgVars, QueueOK
<1>2. CASE \E v \in Writers : wst[v] \in {"logged", "inserted"}
  <2>1. /\ writers_ \in Seq(Writers) /\ group \in 1..Len(writers_)
        /\ \A i \in 1..Len(writers_) : wst[writers_[i]] # "idle"
    BY Zenon, <1>2 DEF Inv, QueueOK, Grouped
  <2>2. \A i \in 1..group : writers_'[i] = writers_[i] /\ writers_[i] \in Writers /\ writers_[i] # w
    BY <1>1, <2>1
  <2>3. \A i \in 1..group : op'[writers_'[i]] = op[writers_[i]]
    BY Zenon, <1>1, <2>2
  <2>4. Entries' = Entries
    <3>1. vs'.seq = vs.seq /\ group' = group
      BY Zenon, <1>1
    <3> QED
      BY <2>3, <3>1 DEF Entries
  <2>5. \A v \in Writers : /\ wst'[v] \in {"inserted"} <=> wst[v] \in {"inserted"}
                           /\ wst'[v] \in {"logged", "inserted"} <=> wst[v] \in {"logged", "inserted"}
    BY Zenon, <1>1
  <2>6. UNCHANGED <<InFlight({"inserted"}), InFlight({"logged", "inserted"})>>
    BY Zenon, <2>4, <2>5 DEF InFlight
  <2> QED
    BY Zenon, <1>1, <2>6, QueueSeq
<1>3. CASE ~\E v \in Writers : wst[v] \in {"logged", "inserted"}
  <2>1. InFlight({"inserted"}) = {} /\ InFlight({"logged", "inserted"}) = {}
    BY Zenon, <1>3 DEF InFlight
  <2>2. \A v \in Writers : wst'[v] \notin {"logged", "inserted"}
    BY Zenon, <1>1, <1>3
  <2> QED
    BY Zenon, <1>1, <2>1, <2>2, NobodyWritesNext, QueueSeq
<1> QED
  BY Zenon, <1>2, <1>3

(* The writer at the front takes a step, and no entry is in flight.        *)
LEMMA FrontSeq ==
  ASSUME Inv, Inv', SeqInv, NEW w \in Writers, wst[w] = "front",
         \A v \in Writers : wst'[v] \notin {"logged", "inserted"},
         UNCHANGED <<files, proc, vs, memVars, bgVars, reader, stored>>
  PROVE  SeqInv'
<1>1. /\ proc = "up" /\ InFlight({"inserted"}) = {} /\ InFlight({"logged", "inserted"}) = {}
  BY Zenon, NobodyWrites
<1>2. /\ proc' = "up"
      /\ UNCHANGED <<logs, tables, manifests, current, proc, vs, mem, imm, memtabs, bg, reader,
                     stored>>
  BY Zenon, <1>1 DEF files, memVars, bgVars
<1> QED
  BY Zenon, <1>1, <1>2, NobodyWritesNext, QueueSeq

(* The writer at the head changes its state.                               *)
LEMMA HeadMoved ==
  ASSUME Inv, NEW w \in Writers, wst[w] \in Active, NEW a, wst' = [wst EXCEPT ![w] = a]
  PROVE  /\ wst'[w] = a
         /\ \A v \in Writers : v # w => wst'[v] = wst[v] /\ wst[v] \notin Active
BY Zenon, FrontWriter DEF Inv, QueueOK

(* MakeRoomForWrite waits.                                                 *)
LEMMA WaitForRoomSeq ==
  ASSUME Inv, Inv', SeqInv, NEW w \in Writers, WaitForRoom(w)
  PROVE  SeqInv'
<1>1. wst[w] = "front" /\ wst[w] \in Active /\ wst' = [wst EXCEPT ![w] = "waiting"]
  BY Zenon DEF WaitForRoom, Active
<1>2. /\ wst'[w] = "waiting"
      /\ \A v \in Writers : v # w => wst'[v] = wst[v] /\ wst[v] \notin Active
  BY Zenon, <1>1, HeadMoved
<1>3. \A v \in Writers : wst'[v] \notin {"logged", "inserted"}
  BY Zenon, <1>2 DEF Active
<1> QED
  BY Zenon, <1>1, <1>3, FrontSeq DEF WaitForRoom, history

(* BuildBatchGroup chooses the group.                                      *)
LEMMA BuildBatchGroupSeq ==
  ASSUME Inv, Inv', SeqInv, NEW w \in Writers, BuildBatchGroup(w)
  PROVE  SeqInv'
<1>1. wst[w] = "front" /\ wst[w] \in Active /\ wst' = [wst EXCEPT ![w] = "logging"]
  BY Zenon DEF BuildBatchGroup, Active
<1>2. /\ wst'[w] = "logging"
      /\ \A v \in Writers : v # w => wst'[v] = wst[v] /\ wst[v] \notin Active
  BY Zenon, <1>1, HeadMoved
<1>3. \A v \in Writers : wst'[v] \notin {"logged", "inserted"}
  BY Zenon, <1>2 DEF Active
<1> QED
  BY Zenon, <1>1, <1>3, FrontSeq DEF BuildBatchGroup, history

(* The new log cannot be created: the write fails.                         *)
LEMMA SwitchFailsSeq ==
  ASSUME Inv, Inv', SeqInv, NEW w \in Writers, SwitchFails(w)
  PROVE  SeqInv'
<1>1. wst[w] = "front" /\ wst[w] \in Active /\ Reply(1, FALSE)
  BY Zenon DEF SwitchFails, Active
<1>2. 1 \in 1..Len(writers_)
  BY Zenon, <1>1, FrontWriter DEF Inv
<1>3. \A v \in Writers : wst'[v] \notin {"logged", "inserted"}
  BY Zenon, <1>1, <1>2, Answered DEF Inv
<1> QED
  BY Zenon, <1>1, <1>3, FrontSeq DEF SwitchFails

(* Numbers above all used ones make no number used twice.                  *)
LEMMA UniqueAbove ==
  ASSUME NEW A, NEW B, NEW n \in Nat, UpTo(A, n), Unique(A), Unique(B),
         \A e \in B : SeqOf(e) \in Nat /\ n < SeqOf(e)
  PROVE  Unique(A \cup B)
<1>1. \A e \in A, f \in B : SeqOf(e) # SeqOf(f)
  BY DEF UpTo
<1> QED
  BY Zenon, <1>1 DEF Unique

(* The record is torn: recovery does not read it.                          *)
LEMMA AddRecordFailsSeq ==
  ASSUME Inv, Inv', SeqInv, NEW w \in Writers, AddRecordFails(w)
  PROVE  SeqInv'
<1>1. /\ wst[w] = "logging" /\ wst[w] \in Active /\ logs' = [logs EXCEPT ![mem].torn = TRUE]
      /\ wst' = [wst EXCEPT ![w] = "failed"]
      /\ UNCHANGED <<tables, manifests, current, proc, vs, mem, imm, memtabs, writers_, op,
                     group, bg, reader, stored>>
  BY Zenon DEF AddRecordFails, memVars, bgVars, history, Active
<1>2. /\ proc = "up" /\ InFlight({"inserted"}) = {} /\ InFlight({"logged", "inserted"}) = {}
  BY Zenon, <1>1, NobodyWrites
<1>3. /\ mem \in DOMAIN logs /\ LogRec(logs[mem]) /\ Numbered /\ LogsBounded
      /\ (imm # 0 => imm \in DOMAIN logs)
  BY Zenon, <1>2 DEF Inv, Forms, LogsForm, Running, MemsOK, SeqInv, UpSeq
<1>4. logs'[mem] = [logs[mem] EXCEPT !.torn = TRUE]
  BY Zenon, <1>1, <1>3
<1>5. /\ DOMAIN logs' = DOMAIN logs /\ \A n \in DOMAIN logs : logs'[n].good = logs[n].good
  <2>1. logs'[mem].good = logs[mem].good
    BY Zenon, <1>3, <1>4 DEF LogRec
  <2> QED
    BY Zenon, <1>1, <2>1
<1>6. LogsBounded'
  BY Zenon, <1>3, <1>5 DEF LogsBounded, UpTo
<1>7. InFlight({"inserted"})' = {} /\ InFlight({"logged", "inserted"})' = {}
  <2>1. \A v \in Writers : wst'[v] \notin {"logged", "inserted"}
    <3>1. /\ wst'[w] = "failed"
          /\ \A v \in Writers : v # w => wst'[v] = wst[v] /\ wst[v] \notin Active
      BY Zenon, <1>1, HeadMoved
    <3> QED
      BY Zenon, <3>1 DEF Active
  <2> QED
    BY Zenon, <2>1, NobodyWritesNext
<1>8. Held' = Held /\ Logged' = Logged /\ Contents(Version)' = Contents(Version)
      /\ MemEntries(imm)' = MemEntries(imm)
  <2>1. Version' = Version
    BY Zenon, <1>1 DEF Version
  <2>2. Contents(Version)' = Contents(Version) /\ MemEntries(imm)' = MemEntries(imm)
    BY Zenon, <1>1, <2>1 DEF Contents, MemEntries
  <2>3. Held' = Held
    BY Zenon, <1>1, <2>2 DEF Held
  <2>4. Logged' = Logged
    BY Zenon, <1>1, <1>3, <1>5 DEF Logged
  <2> QED
    BY Zenon, <2>2, <2>3, <2>4
<1>9. Numbered'
  BY Zenon, <1>1, <1>2, <1>3, <1>7, <1>8 DEF Numbered
<1> QED
  BY Zenon, <1>1, <1>2, <1>5, <1>6, <1>9, WriterSeq

(* The group is in the log under numbers above the last one.               *)
LEMMA AddRecordSeq ==
  ASSUME Inv, Inv', SeqInv, NEW w \in Writers, AddRecord(w)
  PROVE  SeqInv'
<1>1. /\ wst[w] = "logging" /\ wst[w] \in Active
      /\ wst' = [wst EXCEPT ![w] = "logged"]
      /\ UNCHANGED <<tables, manifests, current, proc, vs, mem, imm, memtabs, writers_, op,
                     group, bg, reader, stored>>
  BY Zenon DEF AddRecord, memVars, bgVars, Active
<1>2. /\ proc = "up" /\ InFlight({"inserted"}) = {} /\ InFlight({"logged", "inserted"}) = {}
  BY Zenon, <1>1, NobodyWrites
<1>3. /\ mem \in DOMAIN logs /\ LogRec(logs[mem]) /\ Numbered /\ LogsBounded /\ MemsOK
      /\ (imm # 0 => imm \in DOMAIN logs) /\ vs.seq \in Nat /\ group \in Nat
      /\ mem \in Nat /\ imm \in Nat
  BY Zenon, <1>2 DEF Inv, Forms, LogsForm, MemForm, Running, MemsOK, SeqInv, UpSeq, Numbered, QueueOK
<1>4. /\ Entries' = Entries
      /\ InFlight({"inserted"})' = {} /\ InFlight({"logged", "inserted"})' = Entries
  <2>1. /\ wst'[w] = "logged"
        /\ \A v \in Writers : v # w => wst'[v] = wst[v] /\ wst[v] \notin Active
    BY Zenon, <1>1, HeadMoved
  <2>2. \A v \in Writers : wst'[v] \notin {"inserted"}
    BY Zenon, <2>1 DEF Active
  <2>3. wst'[w] \in {"logged", "inserted"}
    BY Zenon, <2>1
  <2>4. Entries' = Entries
    BY Zenon, <1>1 DEF Entries
  <2> QED
    BY Zenon, <2>2, <2>3, <2>4 DEF InFlight
<1>5. PICK X : /\ X \subseteq Entries /\ DOMAIN logs' = DOMAIN logs
               /\ logs'[mem].good = logs[mem].good \cup X
               /\ \A n \in DOMAIN logs : n # mem => logs'[n] = logs[n]
  <2>1. CASE logs' = [logs EXCEPT ![mem].good = @ \cup Entries]
    <3>1. logs'[mem] = [logs[mem] EXCEPT !.good = logs[mem].good \cup Entries]
      BY Zenon, <1>3, <2>1
    <3>2. logs'[mem].good = logs[mem].good \cup Entries
      BY Zenon, <1>3, <3>1 DEF LogRec
    <3> QED
      BY Zenon, <2>1, <3>2
  <2>2. CASE logs' = logs
    <3>1. PICK Z : Z = {}
      BY Zenon
    <3>2. /\ Z \subseteq Entries /\ DOMAIN logs' = DOMAIN logs
          /\ logs'[mem].good = logs[mem].good \cup Z
          /\ \A n \in DOMAIN logs : n # mem => logs'[n] = logs[n]
      BY Zenon, <2>2, <3>1
    <3> QED
      BY Zenon, <3>2
  <2> QED
    BY Zenon, <2>1, <2>2 DEF AddRecord
<1>6. /\ \A e \in Entries : /\ SeqOf(e) \in Nat /\ vs.seq < SeqOf(e)
                            /\ SeqOf(e) <= vs.seq + group
      /\ Unique(Entries)
  BY Zenon, <1>3, EntriesAbove
<1>7. Logged' = Logged \cup X /\ Held' = Held /\ Contents(Version)' = Contents(Version)
      /\ MemEntries(imm)' = MemEntries(imm)
  <2>1. Version' = Version
    BY Zenon, <1>1 DEF Version
  <2>2. imm # mem
    BY <1>3 DEF MemsOK
  <2>3. Logged' = Logged \cup X
    BY Zenon, <1>1, <1>3, <1>5, <2>2 DEF Logged
  <2> QED
    BY Zenon, <1>1, <2>1, <2>3 DEF Held, Contents, MemEntries
<1>8. Unique(Held \cup Logged)'
  <2>1. UpTo(Held \cup Logged, vs.seq) /\ Unique(Held \cup Logged)
    BY Zenon, <1>2, <1>3 DEF Numbered, Held, UpTo
  <2>2. Unique((Held \cup Logged) \cup Entries)
    BY Zenon, <1>3, <1>6, <2>1, UniqueAbove
  <2> QED
    BY Zenon, <1>5, <1>7, <2>2 DEF Unique
<1>9. Numbered'
  <2>1. UpTo(Logged \ InFlight({"logged", "inserted"}), vs.seq)'
    BY Zenon, <1>1, <1>2, <1>3, <1>4, <1>5, <1>7 DEF Numbered, UpTo
  <2> QED
    BY Zenon, <1>1, <1>2, <1>3, <1>4, <1>7, <1>8, <2>1 DEF Numbered
<1>10. LogsBounded'
  <2>1. PICK b \in Nat : \A n \in DOMAIN logs : UpTo(logs[n].good, b)
    BY Zenon, <1>3 DEF LogsBounded
  <2>2. PICK c \in Nat : b <= c /\ vs.seq + group <= c
    <3>1. b + vs.seq + group \in Nat /\ b <= b + vs.seq + group
          /\ vs.seq + group <= b + vs.seq + group
      BY <1>3, <2>1
    <3> QED
      BY Zenon, <3>1
  <2>3. \A n \in DOMAIN logs : UpTo(logs[n].good, c)
    BY <2>1, <2>2 DEF UpTo
  <2>4. UpTo(X, c)
    BY <1>3, <1>5, <1>6, <2>2 DEF UpTo
  <2>5. \A n \in DOMAIN logs' : UpTo(logs'[n].good, c)
    BY Zenon, <1>5, <2>3, <2>4 DEF UpTo
  <2> QED
    BY Zenon, <2>5 DEF LogsBounded, UpTo
<1> QED
  BY Zenon, <1>1, <1>2, <1>5, <1>9, <1>10, WriterSeq

(* Memtables and the store grow by entries above every snapshot.           *)
LEMMA ReadersGrow ==
  ASSUME SnapshotExact, UNCHANGED <<reader, tables>>, NEW X,
         \A r \in Reading : /\ \A e \in X : ~(SeqOf(e) <= reader[r].snap)
                            /\ \A m \in reader[r].mems : /\ memtabs[m] \subseteq memtabs'[m]
                                                         /\ memtabs'[m] \subseteq memtabs[m] \cup X,
         stored \subseteq stored', stored' \subseteq stored \cup X
  PROVE  SnapshotExact'
<1>1. ASSUME NEW r \in Readers, reader[r].at = "reading"
      PROVE  {e \in (UNION {memtabs'[m] : m \in reader[r].mems})
                      \cup UNION {tables'[t] : t \in reader[r].files} :
                SeqOf(e) <= reader[r].snap}
             = {e \in stored' : SeqOf(e) <= reader[r].snap}
  <2> DEFINE M == UNION {memtabs[m] : m \in reader[r].mems}
             N == UNION {memtabs'[m] : m \in reader[r].mems}
             F == Contents(reader[r].files)
  <2>1. r \in Reading
    BY Zenon, <1>1 DEF Reading
  <2>2. {e \in M \cup F : SeqOf(e) <= reader[r].snap} = {e \in stored : SeqOf(e) <= reader[r].snap}
    BY Zenon, <1>1 DEF SnapshotExact
  <2>3. M \subseteq N
    BY Zenon, <2>1
  <2>4. N \subseteq M \cup X
    <3>1. SUFFICES ASSUME NEW m \in reader[r].mems, NEW e \in memtabs'[m] PROVE e \in M \/ e \in X
      BY Zenon
    <3> QED
      BY Zenon, <2>1, <3>1
  <2>5. \A e \in X : ~(SeqOf(e) <= reader[r].snap)
    BY Zenon, <2>1
  <2> HIDE DEF M, N, F
  <2>6. {e \in N \cup F : SeqOf(e) <= reader[r].snap} = {e \in stored' : SeqOf(e) <= reader[r].snap}
    BY Zenon, <2>2, <2>3, <2>4, <2>5
  <2>7. UNION {tables'[t] : t \in reader[r].files} = F
    BY Zenon, ContentsSame DEF F
  <2> QED
    BY <2>6, <2>7 DEF N
<1>2. reader' = reader
  BY Zenon
<1> QED
  BY Zenon, <1>1, <1>2 DEF SnapshotExact, Contents

(* The group is in the memtable, above every reader's snapshot.            *)
LEMMA InsertIntoSeq ==
  ASSUME Inv, Inv', SeqInv, NEW w \in Writers, InsertInto(w)
  PROVE  SeqInv'
<1>1. /\ wst[w] = "logged" /\ wst[w] \in Active
      /\ memtabs' = [memtabs EXCEPT ![mem] = @ \cup Entries]
      /\ wst' = [wst EXCEPT ![w] = "inserted"]
      /\ UNCHANGED <<logs, tables, manifests, current, proc, vs, mem, imm, writers_, op,
                     group, bg, reader, stored>>
  BY Zenon DEF InsertInto, files, bgVars, history, Active
<1>2. proc = "up" /\ current # 0
  BY Zenon, <1>1, WriterRuns DEF Inv, Running, VersionOK
<1>3. /\ UpSeq /\ Numbered /\ LogsBounded /\ MemsOK /\ vs.seq \in Nat /\ group \in Nat
      /\ mem \in Nat /\ imm \in Nat /\ mem \in DOMAIN memtabs
      /\ (imm # 0 => imm \in DOMAIN memtabs)
  BY Zenon, <1>2 DEF Inv, Forms, MemForm, Running, MemsOK, SeqInv, UpSeq, Numbered, QueueOK
<1>4. /\ Entries' = Entries /\ InFlight({"logged", "inserted"}) = Entries
      /\ InFlight({"inserted"})' = Entries /\ InFlight({"logged", "inserted"})' = Entries
      /\ InFlight({"inserted"}) = {}
  <2>1. /\ wst'[w] = "inserted"
        /\ \A v \in Writers : v # w => wst'[v] = wst[v] /\ wst[v] \notin Active
    BY Zenon, <1>1, HeadMoved
  <2>2. \A v \in Writers : wst[v] \notin {"inserted"}
    BY Zenon, <1>1, <2>1 DEF Active
  <2>3. /\ wst'[w] \in {"logged", "inserted"} /\ wst'[w] \in {"inserted"}
        /\ wst[w] \in {"logged", "inserted"}
    BY Zenon, <1>1, <2>1
  <2>4. Entries' = Entries
    BY Zenon, <1>1 DEF Entries
  <2> QED
    BY Zenon, <2>2, <2>3, <2>4 DEF InFlight
<1>5. /\ \A e \in Entries : SeqOf(e) \in Nat /\ vs.seq < SeqOf(e)
      /\ Unique(Entries)
  BY Zenon, <1>3, EntriesAbove
<1>6. \A e \in Entries : ~(SeqOf(e) <= vs.seq)
  BY <1>3, <1>5
<1>7. /\ memtabs'[mem] = memtabs[mem] \cup Entries /\ DOMAIN memtabs' = DOMAIN memtabs
      /\ \A m \in DOMAIN memtabs : m # mem => memtabs'[m] = memtabs[m]
  BY Zenon, <1>1, <1>3
<1>8. /\ Logged' = Logged /\ Held' = Held \cup Entries /\ MemEntries(imm)' = MemEntries(imm)
      /\ Contents(Version)' = Contents(Version)
  <2>1. Version' = Version
    BY Zenon, <1>1 DEF Version
  <2>2. imm # mem
    BY <1>3 DEF MemsOK
  <2>3. MemEntries(imm)' = MemEntries(imm)
    BY Zenon, <1>1, <1>3, <1>7, <2>2 DEF MemEntries
  <2>4. Contents(Version)' = Contents(Version)
    BY Zenon, <1>1, <2>1 DEF Contents
  <2> QED
    BY Zenon, <1>1, <1>7, <2>3, <2>4 DEF Held, Logged
<1>9. Unique(Held \cup Logged)'
  <2>1. PICK A : A = Held \cup (Logged \ Entries)
    BY Zenon
  <2>2. UpTo(A, vs.seq) /\ Unique(A)
    BY Zenon, <1>3, <1>4, <2>1 DEF Numbered, Held, UpTo, Unique
  <2>3. Unique(A \cup Entries)
    BY Zenon, <1>3, <1>5, <2>2, UniqueAbove
  <2> QED
    BY Zenon, <1>8, <2>1, <2>3 DEF Unique
<1>10. Numbered'
  <2>1. /\ UpTo(memtabs[mem] \ InFlight({"inserted"}), vs.seq)'
        /\ UpTo(Logged \ InFlight({"logged", "inserted"}), vs.seq)'
        /\ UpTo(Contents(Version) \cup MemEntries(imm), vs.seq)'
    BY Zenon, <1>1, <1>3, <1>4, <1>7, <1>8 DEF Numbered, UpTo
  <2> QED
    BY Zenon, <1>1, <1>3, <1>4, <1>7, <1>9, <2>1 DEF Numbered
<1>11. StoredIs'
  <2>1. {e \in Held \cup Entries : SeqOf(e) <= vs.seq} = {e \in Held : SeqOf(e) <= vs.seq}
    BY Zenon, <1>6
  <2> QED
    BY Zenon, <1>1, <1>3, <1>8, <2>1 DEF UpSeq, StoredIs
<1>12. OnlyLogs' /\ ManSeq' /\ EditSeq'
  BY Zenon, <1>1, <1>2, <1>8, FilesSeq
<1>13. ReaderSeq'
  BY Zenon, <1>1, <1>3, <1>7 DEF UpSeq, ReaderSeq, Reading
<1>14. SnapshotExact'
  <2>1. \A r \in Reading : reader[r].snap \in Nat /\ reader[r].snap <= vs.seq
    BY Zenon, <1>3 DEF UpSeq, ReaderSeq
  <2>2. \A r \in Reading : \A e \in Entries : ~(SeqOf(e) <= reader[r].snap)
    BY <1>3, <1>5, <2>1
  <2>3. \A r \in Reading : \A m \in reader[r].mems :
          memtabs[m] \subseteq memtabs'[m] /\ memtabs'[m] \subseteq memtabs[m] \cup Entries
    BY Zenon, <1>3, <1>7 DEF UpSeq, ReaderSeq
  <2> QED
    BY Zenon, <1>1, <1>3, <2>2, <2>3, ReadersGrow DEF UpSeq
<1>15. LogsBounded'
  BY Zenon, <1>1, <1>3, LogsBoundedKept
<1> QED
  BY Zenon, <1>1, <1>2, <1>10, <1>11, <1>12, <1>13, <1>14, <1>15, UpSeqStep DEF UpSeq

(* The last sequence number moves: the group is stored.                    *)
LEMMA FinishWriteSeq ==
  ASSUME Inv, Inv', SeqInv, NEW w \in Writers, FinishWrite(w)
  PROVE  SeqInv'
<1>1. /\ wst[w] \in {"inserted", "failed"} /\ wst[w] \in Active /\ wst[w] \in Grouped
      /\ vs' = [vs EXCEPT !.seq = vs.seq + group]
      /\ Reply(group, wst[w] = "inserted")
      /\ stored' = IF wst[w] = "inserted" THEN stored \cup Entries ELSE stored
      /\ UNCHANGED <<logs, tables, manifests, current, proc, memtabs, mem, imm, bg, reader>>
  BY Zenon DEF Active, Grouped, FinishWrite, files, memVars, bgVars
<1>2. proc = "up" /\ current # 0
  BY Zenon, <1>1, WriterRuns DEF Inv, Running, VersionOK
<1>3. /\ UpSeq /\ Numbered /\ LogsBounded /\ vs.seq \in Nat /\ QueueOK
      /\ group \in 1..Len(writers_) /\ VsRec(vs)
  BY Zenon, <1>1, <1>2 DEF Inv, Forms, SeqInv, UpSeq, Numbered, QueueOK
<1>4. group \in Nat /\ vs.seq + group \in Nat /\ vs.seq <= vs.seq + group
  <2>1. group \in Nat
    BY Zenon, <1>3 DEF QueueOK
  <2> QED
    BY <1>3, <2>1
<1>5. /\ vs'.seq = vs.seq + group /\ vs'.next = vs.next
      /\ UNCHANGED <<vs.l0, vs.low, vs.log>>
  <2>1. PICK s : s = vs.seq + group /\ vs' = [vs EXCEPT !.seq = s]
    BY Zenon, <1>1
  <2> QED
    BY Zenon, <1>3, <2>1 DEF VsRec
<1>6. PICK X : /\ X = InFlight({"inserted"}) /\ X = InFlight({"logged", "inserted"})
               /\ stored' = stored \cup X /\ X \subseteq Entries
  <2>1. \A v \in Writers : v # w => wst[v] \notin Active
    BY Zenon, <1>1, <1>3, FrontWriter
  <2>2. CASE wst[w] = "inserted"
    <3>1. InFlight({"inserted"}) = Entries /\ InFlight({"logged", "inserted"}) = Entries
      BY Zenon, <2>2 DEF InFlight
    <3> QED
      BY Zenon, <1>1, <2>2, <3>1
  <2>3. CASE wst[w] = "failed"
    <3>1. InFlight({"inserted"}) = {} /\ InFlight({"logged", "inserted"}) = {}
      BY Zenon, <2>3, NobodyWrites
    <3>2. PICK Z : Z = {}
      BY Zenon
    <3>3. stored' = stored \cup Z /\ Z \subseteq Entries
      BY Zenon, <1>1, <2>3, <3>2
    <3> QED
      BY Zenon, <3>1, <3>2, <3>3
  <2> QED
    BY Zenon, <1>1, <2>2, <2>3
<1>7. /\ \A e \in X : /\ SeqOf(e) \in Nat /\ vs.seq < SeqOf(e)
                      /\ SeqOf(e) <= vs.seq + group
  BY Zenon, <1>3, <1>4, <1>6, EntriesAbove
<1>8. UpTo(Held \cup Logged, vs.seq + group)
  <2>1. UpTo((Held \cup Logged) \ X, vs.seq)
    BY Zenon, <1>3, <1>6 DEF Numbered, Held, UpTo
  <2> QED
    BY <1>3, <1>4, <1>7, <2>1 DEF UpTo
<1>9. InFlight({"inserted"})' = {} /\ InFlight({"logged", "inserted"})' = {}
  <2>1. \A v \in Writers : wst'[v] \notin {"logged", "inserted"}
    BY Zenon, <1>1, <1>3, Answered
  <2> QED
    BY Zenon, <2>1, NobodyWritesNext
<1>10. /\ Held' = Held /\ Logged' = Logged /\ MemEntries(imm)' = MemEntries(imm)
       /\ Contents(Version)' = Contents(Version)
  <2>1. Version' = Version
    BY Zenon, <1>5 DEF Version
  <2> QED
    BY Zenon, <1>1, <2>1 DEF Held, Logged, Contents, MemEntries
<1>11. Numbered'
  <2>1. /\ UpTo(memtabs[mem] \ InFlight({"inserted"}), vs.seq)'
        /\ UpTo(Logged \ InFlight({"logged", "inserted"}), vs.seq)'
        /\ UpTo(Contents(Version) \cup MemEntries(imm), vs.seq)'
    BY Zenon, <1>1, <1>5, <1>8, <1>10 DEF Held, UpTo
  <2> QED
    BY Zenon, <1>3, <1>4, <1>5, <1>9, <1>10, <2>1 DEF Numbered
<1>12. stored' = Held
  <2>1. stored = {e \in Held : SeqOf(e) <= vs.seq} /\ X \subseteq Held
    BY Zenon, <1>3, <1>6 DEF UpSeq, StoredIs, Numbered, Held
  <2>2. \A e \in Held : e \in X \/ SeqOf(e) <= vs.seq
    BY Zenon, <1>3, <1>6 DEF Numbered, Held, UpTo
  <2> QED
    BY Zenon, <1>6, <2>1, <2>2
<1>13. StoredIs'
  BY Zenon, <1>5, <1>8, <1>10, <1>12 DEF StoredIs, UpTo
<1>14. OnlyLogs' /\ ManSeq' /\ EditSeq'
  BY Zenon, <1>1, <1>2, <1>5, <1>10, FilesSeq
<1>15. \A r \in Reading : reader[r].snap \in Nat /\ reader[r].snap <= vs.seq
  BY Zenon, <1>3 DEF UpSeq, ReaderSeq
<1>16. ReaderSeq'
  <2>1. \A r \in Reading : reader[r].snap \in Nat /\ reader[r].snap <= vs.seq + group
    BY <1>3, <1>4, <1>15
  <2> QED
    BY Zenon, <1>1, <1>3, <1>5, <2>1 DEF UpSeq, ReaderSeq, Reading
<1>17. SnapshotExact'
  <2>1. \A r \in Reading : \A e \in X : ~(SeqOf(e) <= reader[r].snap)
    BY <1>3, <1>7, <1>15
  <2> QED
    BY Zenon, <1>1, <1>3, <1>6, <2>1, ReadersGrow DEF UpSeq
<1>18. LogsBounded' /\ Unique(stored)'
  BY Zenon, <1>1, <1>3, <1>12, LogsBoundedKept DEF Numbered, Unique
<1> QED
  BY Zenon, <1>1, <1>2, <1>11, <1>13, <1>14, <1>16, <1>17, <1>18 DEF SeqInv, UpSeq

(* The memtable becomes imm_; a new log and memtable start empty.          *)
LEMMA SwitchMemTableSeq ==
  ASSUME Inv, Inv', SeqInv, NEW w \in Writers, SwitchMemTable(w)
  PROVE  SeqInv'
<1>1. /\ wst[w] = "front" /\ imm = 0
      /\ logs' = With(logs, vs.next, EmptyLog)
      /\ memtabs' = With(memtabs, vs.next, {})
      /\ imm' = mem /\ mem' = vs.next
      /\ vs' = [vs EXCEPT !.next = vs.next + 1]
      /\ UNCHANGED <<tables, manifests, current, proc, writers_, wst, op, group, bg, reader, stored>>
  BY Zenon DEF SwitchMemTable, MustWait, writeVars, history
<1>2. /\ proc = "up" /\ InFlight({"inserted"}) = {} /\ InFlight({"logged", "inserted"}) = {}
  BY Zenon, <1>1, NobodyWrites
<1>3. /\ UpSeq /\ Numbered /\ LogsBounded /\ MemsOK /\ EditOK /\ VsRec(vs) /\ vs.next \in Nat
      /\ mem \in Nat /\ current # 0
  BY Zenon, <1>2 DEF Inv, Forms, MemForm, VsRec, Pos, Running, VersionOK, SeqInv, UpSeq
<1>4. /\ vs'.seq = vs.seq /\ vs'.next = vs.next + 1
      /\ UNCHANGED <<vs.l0, vs.low, vs.log>>
  BY Zenon, <1>1, <1>3 DEF VsRec
<1>5. mem # vs.next /\ vs.next # 0 /\ mem # 0 /\ mem \in DOMAIN logs /\ mem \in DOMAIN memtabs
      /\ vs.next <= vs'.next /\ vs'.next \in Nat
  BY <1>3, <1>4 DEF MemsOK
<1>6. /\ logs'[vs.next].good = {} /\ logs'[mem] = logs[mem] /\ DOMAIN logs' = DOMAIN logs \cup {vs.next}
      /\ memtabs'[vs.next] = {} /\ memtabs'[mem] = memtabs[mem]
      /\ DOMAIN memtabs' = DOMAIN memtabs \cup {vs.next}
      /\ \A m \in DOMAIN memtabs : m # vs.next => memtabs'[m] = memtabs[m]
      /\ \A n \in DOMAIN logs' : logs'[n].good = {} \/ (n \in DOMAIN logs /\ logs'[n] = logs[n])
  BY Zenon, <1>1, <1>5 DEF With, EmptyLog
<1>7. /\ Contents(Version)' = Contents(Version) /\ MemEntries(imm) = {}
      /\ MemEntries(imm)' = memtabs[mem] /\ memtabs'[mem'] = {}
      /\ Logged = logs[mem].good /\ Logged' = logs[mem].good
  <2>1. Version' = Version
    BY Zenon, <1>4 DEF Version
  <2>2. Contents(Version)' = Contents(Version)
    BY Zenon, <1>1, <2>1 DEF Contents
  <2>3. Logged' = logs'[vs.next].good \cup logs'[mem].good /\ Logged = logs[mem].good \cup {}
    BY Zenon, <1>1, <1>5 DEF Logged
  <2>4. Logged = logs[mem].good /\ Logged' = logs[mem].good
    BY Zenon, <1>6, <2>3
  <2> QED
    BY Zenon, <1>1, <1>5, <1>6, <2>2, <2>4 DEF MemEntries
<1>8. Held' = Held
  BY Zenon, <1>7 DEF Held
<1>9. InFlight({"inserted"})' = {} /\ InFlight({"logged", "inserted"})' = {}
  <2>1. Entries' = Entries
    BY Zenon, <1>1, <1>4 DEF Entries
  <2> QED
    BY Zenon, <1>1, <1>2, <2>1 DEF InFlight
<1>10. Numbered'
  <2>1. /\ UpTo(memtabs[mem] \ InFlight({"inserted"}), vs.seq)'
        /\ UpTo(Logged \ InFlight({"logged", "inserted"}), vs.seq)'
        /\ UpTo(Contents(Version) \cup MemEntries(imm), vs.seq)'
    BY Zenon, <1>2, <1>3, <1>4, <1>7 DEF Numbered, UpTo
  <2> QED
    BY Zenon, <1>3, <1>4, <1>7, <1>8, <1>9, <2>1 DEF Numbered
<1>11. StoredIs'
  BY Zenon, <1>1, <1>3, <1>4, <1>8 DEF UpSeq, StoredIs
<1>12. OnlyLogs'
  BY Zenon, <1>1, <1>3, <1>4, <1>5, <1>6 DEF UpSeq, OnlyLogs, LogsFrom
<1>13. ManSeq' /\ EditSeq'
  <2>1. UNCHANGED <<Man, Version, NextL0, NextLow>>
    BY Zenon, <1>1, <1>4 DEF Man, Version, NextL0, NextLow
  <2>2. /\ Contents(ManTables(Man))' = Contents(ManTables(Man))
        /\ Contents(NextL0 \cup NextLow)' = Contents(NextL0 \cup NextLow)
    BY Zenon, <1>1, <2>1 DEF Contents
  <2>3. Editing => bg.edit.del # {}
    BY Zenon, <1>1, <1>3 DEF EditOK
  <2>4. ManSeq'
    BY Zenon, <1>3, <2>1, <2>2 DEF ManSeq, UpSeq
  <2>5. EditSeq'
    BY Zenon, <1>1, <1>3, <1>7, <2>2, <2>3 DEF EditSeq, UpSeq, Editing
  <2> QED
    BY Zenon, <2>4, <2>5
<1>14. ReaderSeq' /\ SnapshotExact'
  <2>1. \A r \in Reading : reader[r].mems \subseteq DOMAIN memtabs \cap Nat /\ Below(reader[r].mems, vs.next)
    BY Zenon, <1>3 DEF UpSeq, ReaderSeq
  <2>2. \A r \in Reading : \A m \in reader[r].mems : m \in DOMAIN memtabs /\ m # vs.next
    BY <1>3, <2>1 DEF Below
  <2>3. \A r \in Reading : \A m \in reader[r].mems :
          m \in DOMAIN memtabs' /\ memtabs'[m] = memtabs[m]
    BY Zenon, <1>6, <2>2
  <2> QED
    BY Zenon, <1>1, <1>3, <1>4, <1>5, <2>3, ReadersKept DEF UpSeq, ReaderSeq
<1>15. LogsBounded'
  BY Zenon, <1>3, <1>6, LogsBoundedKept
<1> QED
  BY Zenon, <1>1, <1>2, <1>3, <1>10, <1>11, <1>12, <1>13, <1>14, <1>15, UpSeqStep DEF UpSeq

(* The steps of DBImpl::Get.                                               *)
LEMMA BeginGetSeq ==
  ASSUME Inv, Inv', SeqInv, NEW r \in Readers, BeginGet(r)
  PROVE  SeqInv'
<1>1. PICK x :
        /\ x = [at |-> "reading", mems |-> {mem, imm} \ {0}, files |-> vs.l0 \cup vs.low,
                snap |-> vs.seq]
        /\ proc = "up" /\ reader' = [reader EXCEPT ![r] = x]
        /\ UNCHANGED <<logs, tables, manifests, current, proc, vs, mem, imm, memtabs,
                       writers_, wst, op, group, bg, stored>>
  BY Zenon DEF BeginGet, files, memVars, writeVars, bgVars, history
<1>2. /\ UpSeq /\ Numbered /\ LogsBounded /\ MemsOK /\ MergeOK /\ Version \subseteq Pos /\ vs.next \in Nat
      /\ mem \in Nat /\ imm \in Nat /\ current # 0 /\ vs.seq \in Nat
      /\ reader = [q \in Readers |-> reader[q]]
  BY Zenon, <1>1 DEF Inv, Forms, MemForm, ReaderForm, VsRec, Pos, Running, VersionOK, SeqInv, UpSeq,
                     Numbered, Version
<1>3. /\ x.at = "reading" /\ x.mems = {mem, imm} \ {0} /\ x.files = Version /\ x.snap = vs.seq
  BY Zenon, <1>1 DEF Version
<1>4. /\ reader'[r] = x /\ \A q \in Readers : q # r => reader'[q] = reader[q]
  BY Zenon, <1>1, <1>2
<1>5. /\ Held' = Held /\ Logged' = Logged /\ MemEntries(imm)' = MemEntries(imm)
      /\ Contents(Version)' = Contents(Version)
      /\ InFlight({"inserted"})' = InFlight({"inserted"})
      /\ InFlight({"logged", "inserted"})' = InFlight({"logged", "inserted"})
  <2>1. Version' = Version /\ Entries' = Entries
    BY Zenon, <1>1 DEF Version, Entries
  <2> QED
    BY Zenon, <1>1, <2>1 DEF Held, Logged, Contents, MemEntries, InFlight
<1>6. Numbered' /\ StoredIs'
  BY Zenon, <1>1, <1>2, <1>5 DEF Numbered, UpSeq, StoredIs
<1>7. OnlyLogs' /\ ManSeq' /\ EditSeq'
  BY Zenon, <1>1, <1>5, FilesSeq
<1>8. ReaderSeq'
  <2>1. /\ x.mems \subseteq DOMAIN memtabs \cap Nat /\ Below(x.mems, vs.next)
        /\ x.snap \in Nat /\ x.snap <= vs.seq
    <3>1. /\ mem \in DOMAIN memtabs /\ mem < vs.next
          /\ imm # 0 => imm \in DOMAIN memtabs /\ imm < mem
      BY Zenon, <1>2 DEF MemsOK
    <3>2. imm # 0 => imm < vs.next
      BY <1>2, <3>1
    <3>3. x.mems \subseteq DOMAIN memtabs \cap Nat /\ Below(x.mems, vs.next)
      BY Zenon, <1>2, <1>3, <3>1, <3>2 DEF Below
    <3> QED
      BY <1>2, <1>3, <3>3
  <2>2. bg.merge.on => bg.merge.out \notin x.files
    <3>1. 0 \notin Version
      BY Zenon, <1>2 DEF Pos
    <3> QED
      BY Zenon, <1>2, <1>3, <3>1 DEF MergeOK
  <2>3. ASSUME NEW q \in Readers, reader'[q].at = "reading"
        PROVE  /\ reader'[q].snap \in Nat /\ reader'[q].snap <= vs.seq
               /\ reader'[q].mems \subseteq DOMAIN memtabs \cap Nat
               /\ Below(reader'[q].mems, vs.next)
               /\ bg.merge.on => bg.merge.out \notin reader'[q].files
    <3>1. CASE q = r
      BY Zenon, <1>4, <2>1, <2>2, <3>1
    <3>2. CASE q # r
      BY Zenon, <1>2, <1>4, <2>3, <3>2 DEF UpSeq, ReaderSeq, Reading
    <3> QED
      BY Zenon, <3>1, <3>2
  <2> QED
    BY Zenon, <1>1, <2>3 DEF ReaderSeq, Reading
<1>9. SnapshotExact'
  <2>1. (UNION {memtabs[m] : m \in x.mems}) \cup Contents(x.files) = Held
    <3>1. UNION {memtabs[m] : m \in x.mems} = MemEntries(imm) \cup memtabs[mem]
      <4>1. mem # 0
        BY Zenon, <1>2 DEF MemsOK
      <4>2. CASE imm = 0
        <5>1. x.mems = {mem} /\ MemEntries(imm) = {}
          BY Zenon, <1>3, <4>1, <4>2 DEF MemEntries
        <5> QED
          BY Zenon, <5>1
      <4>3. CASE imm # 0
        <5>1. x.mems = {mem, imm} /\ MemEntries(imm) = memtabs[imm]
          BY Zenon, <1>3, <4>1, <4>3 DEF MemEntries
        <5> QED
          BY Zenon, <5>1
      <4> QED
        BY Zenon, <4>2, <4>3
    <3> QED
      BY Zenon, <1>3, <3>1 DEF Held
  <2>2. {e \in Held : SeqOf(e) <= vs.seq} = {e \in stored : SeqOf(e) <= vs.seq}
    BY Zenon, <1>2 DEF UpSeq, StoredIs
  <2>3. ASSUME NEW q \in Readers, reader'[q].at = "reading"
        PROVE  {e \in (UNION {memtabs[m] : m \in reader'[q].mems}) \cup Contents(reader'[q].files) :
                  SeqOf(e) <= reader'[q].snap}
               = {e \in stored : SeqOf(e) <= reader'[q].snap}
    <3>1. CASE q = r
      BY <1>3, <1>4, <2>1, <2>2, <3>1
    <3>2. CASE q # r
      <4>1. reader'[q] = reader[q] /\ SnapshotExact
        BY Zenon, <1>2, <1>4, <3>2 DEF UpSeq
      <4> QED
        BY Zenon, <2>3, <4>1 DEF SnapshotExact
    <3> QED
      BY Zenon, <3>1, <3>2
  <2>4. tables' = tables /\ memtabs' = memtabs /\ stored' = stored
    BY Zenon, <1>1
  <2> QED
    BY Zenon, <2>3, <2>4 DEF SnapshotExact, Contents
<1>10. LogsBounded'
  BY Zenon, <1>1, <1>2, LogsBoundedKept
<1> QED
  BY Zenon, <1>1, <1>2, <1>6, <1>7, <1>8, <1>9, <1>10, UpSeqStep DEF UpSeq

(* A reader drops its references: memtables nobody refers to go.           *)
LEMMA EndGetSeq ==
  ASSUME Inv, Inv', SeqInv, NEW r \in Readers, EndGet(r)
  PROVE  SeqInv'
<1>1. /\ proc = "up" /\ reader' = [reader EXCEPT ![r] = Idle]
      /\ memtabs' = Only(memtabs, ({mem, imm} \ {0}) \cup MemsOf(Reading \ {r}))
      /\ UNCHANGED <<logs, tables, manifests, current, proc, mem, imm,
                     writers_, wst, op, group, bg, stored>>
  BY Zenon, ReaderRuns DEF EndGet, files, writeVars, history
<1>2. /\ UpSeq /\ Numbered /\ LogsBounded /\ MemsOK /\ current # 0 /\ VsRec(vs)
      /\ reader = [q \in Readers |-> reader[q]]
  BY Zenon, <1>1 DEF Inv, Forms, ReaderForm, Running, VersionOK, SeqInv, UpSeq
<1>3. UNCHANGED <<vs.l0, vs.low, vs.log, vs.seq, vs.next>>
  <2>1. vs' = vs \/ \E t : vs' = [vs EXCEPT !.seek = t]
    BY Zenon DEF EndGet
  <2> QED
    BY Zenon, <1>2, <2>1 DEF VsRec
<1>4. /\ \A q \in Reading' : q \in Reading \ {r} /\ reader'[q] = reader[q]
      /\ \A q \in Readers : reader'[q].at = "reading" => q \in Reading \ {r} /\ reader'[q] = reader[q]
  <2>1. reader'[r] = Idle /\ \A q \in Readers : q # r => reader'[q] = reader[q]
    BY Zenon, <1>1, <1>2
  <2>2. reader'[r].at # "reading"
    BY <2>1 DEF Idle
  <2> QED
    BY Zenon, <2>1, <2>2 DEF Reading
<1>5. /\ memtabs'[mem] = memtabs[mem] /\ (imm # 0 => memtabs'[imm] = memtabs[imm])
      /\ \A q \in Reading \ {r} : \A m \in reader[q].mems :
           m \in DOMAIN memtabs' /\ memtabs'[m] = memtabs[m]
  BY Zenon, <1>1, <1>2 DEF MemsOK, Only, MemsOf, UpSeq, ReaderSeq
<1>6. /\ Held' = Held /\ Logged' = Logged /\ MemEntries(imm)' = MemEntries(imm)
      /\ Contents(Version)' = Contents(Version)
      /\ InFlight({"inserted"})' = InFlight({"inserted"})
      /\ InFlight({"logged", "inserted"})' = InFlight({"logged", "inserted"})
  <2>1. Version' = Version /\ Entries' = Entries
    BY Zenon, <1>1, <1>3 DEF Version, Entries
  <2>2. Contents(Version)' = Contents(Version) /\ MemEntries(imm)' = MemEntries(imm)
    BY Zenon, <1>1, <1>5, <2>1 DEF Contents, MemEntries
  <2> QED
    BY Zenon, <1>1, <1>5, <2>1, <2>2 DEF Held, Logged, InFlight
<1>7. Numbered' /\ StoredIs'
  BY Zenon, <1>1, <1>2, <1>3, <1>5, <1>6 DEF Numbered, UpSeq, StoredIs
<1>8. OnlyLogs' /\ ManSeq' /\ EditSeq'
  BY Zenon, <1>1, <1>3, <1>6, FilesSeq
<1>9. ReaderSeq'
  BY Zenon, <1>1, <1>2, <1>3, <1>4, <1>5 DEF UpSeq, ReaderSeq
<1>10. SnapshotExact'
  <2>1. ASSUME NEW q \in Readers, reader'[q].at = "reading"
        PROVE  {e \in (UNION {memtabs'[m] : m \in reader'[q].mems}) \cup Contents(reader'[q].files) :
                  SeqOf(e) <= reader'[q].snap}
               = {e \in stored : SeqOf(e) <= reader'[q].snap}
    <3>1. reader'[q] = reader[q] /\ reader[q].at = "reading"
          /\ \A m \in reader[q].mems : memtabs'[m] = memtabs[m]
      BY Zenon, <1>4, <1>5, <2>1 DEF Reading
    <3>2. UNION {memtabs'[m] : m \in reader[q].mems} = UNION {memtabs[m] : m \in reader[q].mems}
      BY Zenon, <3>1, MemsSame
    <3>3. {e \in (UNION {memtabs[m] : m \in reader[q].mems}) \cup Contents(reader[q].files) :
                  SeqOf(e) <= reader[q].snap}
               = {e \in stored : SeqOf(e) <= reader[q].snap}
      BY Zenon, <1>2, <3>1 DEF UpSeq, SnapshotExact
    <3> QED
      BY <3>1, <3>2, <3>3
  <2>2. tables' = tables /\ stored' = stored
    BY Zenon, <1>1
  <2> QED
    BY Zenon, <2>1, <2>2 DEF SnapshotExact, Contents
<1>11. LogsBounded'
  BY Zenon, <1>1, <1>2, LogsBoundedKept
<1> QED
  BY Zenon, <1>1, <1>2, <1>7, <1>8, <1>9, <1>10, <1>11, UpSeqStep DEF UpSeq

(* A set of natural numbers has a least element.                           *)
LEMMA LeastNat ==
  ASSUME NEW T \in SUBSET Nat, T # {}
  PROVE  \E x \in T : \A y \in T : x <= y
<1>1. PICK R : R = OpToRel(<, Nat)
  BY Zenon
<1>2. IsWellFoundedOn(R, Nat)
  BY Zenon, <1>1, NatLessThanWellFounded
<1>3. PICK x \in T : \A y \in T : ~(<<y, x>> \in R)
  BY Zenon, <1>2, WFMin
<1>4. \A y, z \in Nat : y < z => <<y, z>> \in R
  BY <1>1 DEF OpToRel
<1>5. \A y \in T : y \in Nat /\ x \in Nat /\ ~(y < x)
  BY Zenon, <1>3, <1>4
<1>6. \A y \in T : x <= y
  BY <1>5
<1> QED
  BY Zenon, <1>6

(* A log that has entries has a last sequence number.                      *)
LEMMA LastSeqIs ==
  ASSUME NEW E, NEW b \in Nat, NEW c \in Nat, UpTo(E, c)
  PROVE  LastSeq(E, b) \in Nat /\ b <= LastSeq(E, b) /\ UpTo(E, LastSeq(E, b))
<1>1. CASE ~\E e \in E : SeqOf(e) > b
  <2>1. LastSeq(E, b) = b
    BY Zenon, <1>1 DEF LastSeq
  <2> QED
    BY <1>1, <2>1 DEF UpTo
<1>2. CASE \E e \in E : SeqOf(e) > b
  <2>1. PICK x \in {k \in Nat : UpTo(E, k)} : \A y \in {k \in Nat : UpTo(E, k)} : x <= y
    <3>1. {k \in Nat : UpTo(E, k)} \in SUBSET Nat /\ {k \in Nat : UpTo(E, k)} # {}
      BY Zenon
    <3> QED
      BY Zenon, <3>1, LeastNat
  <2>2. \E e \in E : SeqOf(e) = x
    <3>1. SUFFICES ASSUME \A e \in E : SeqOf(e) # x PROVE FALSE
      BY Zenon
    <3>2. \A e \in E : SeqOf(e) \in Nat /\ SeqOf(e) <= x - 1
      BY <2>1, <3>1 DEF UpTo
    <3>3. x - 1 \in Nat
      BY <1>2, <2>1, <3>2
    <3>4. UpTo(E, x - 1)
      BY <3>2 DEF UpTo
    <3>5. x <= x - 1
      BY <2>1, <3>3, <3>4
    <3> QED
      BY <2>1, <3>5
  <2>3. \E e \in E : \A f \in E : SeqOf(f) <= SeqOf(e)
    BY Zenon, <2>1, <2>2 DEF UpTo
  <2>4. PICK e \in E : LastSeq(E, b) = SeqOf(e) /\ \A f \in E : SeqOf(f) <= SeqOf(e)
    BY Zenon, <1>2, <2>3 DEF LastSeq
  <2>5. \A f \in E : SeqOf(f) \in Nat
    BY Zenon DEF UpTo
  <2> QED
    BY <1>2, <2>4, <2>5 DEF UpTo
<1> QED
  BY Zenon, <1>1, <1>2

(* RecoverLogFile reads a log to its end.                                  *)
LEMMA RecoverLogFileSeq ==
  ASSUME Inv, SeqInv, RecoverLogFile
  PROVE  SeqInv'
<1>1. proc = "replay" /\ proc' = "replay" /\ UNCHANGED <<logs, manifests, current, stored>>
  BY Zenon DEF RecoverLogFile, history
<1>2. PICK n, k, T, A, s, t :
        /\ n \in recov.todo
        /\ tables' = IF logs[n].good = {} THEN tables ELSE With(tables, vs.next, logs[n].good)
        /\ recov' = [recov EXCEPT !.todo = T, !.add = A, !.seq = s, !.ok = t]
        /\ vs' = [vs EXCEPT !.next = k]
        /\ T = recov.todo \ {n} /\ s = LastSeq(logs[n].good, recov.seq)
        /\ A = IF logs[n].good = {} THEN recov.add ELSE recov.add \cup {vs.next}
  <2>1. PICK n \in recov.todo :
        /\ tables' = IF logs[n].good = {} THEN tables ELSE With(tables, vs.next, logs[n].good)
        /\ recov' = [recov EXCEPT !.todo = recov.todo \ {n},
                       !.add = IF logs[n].good = {} THEN recov.add
                               ELSE recov.add \cup {vs.next},
                       !.seq = LastSeq(logs[n].good, recov.seq),
                       !.ok = TRUE]
        /\ vs' = [vs EXCEPT !.next = MarkUsed(IF logs[n].good = {} THEN vs.next
                                              ELSE vs.next + 1, n)]
    BY Zenon DEF RecoverLogFile
  <2> QED
    BY Zenon, <2>1
<1>3. /\ ReplaySeq /\ LogsBounded /\ n \in DOMAIN logs /\ VsRec(vs) /\ RecovRec(recov)
      /\ vs.next \in Nat /\ recov.seq \in Nat
  BY Zenon, <1>1, <1>2 DEF Inv, Forms, VsRec, Pos, Replaying, LogsFrom, SeqInv, ReplaySeq
<1>4. vs'.seq = vs.seq /\ recov'.todo = T /\ recov'.add = A /\ recov'.seq = s
  BY Zenon, <1>2, <1>3 DEF VsRec, RecovRec
<1>5. s \in Nat /\ recov.seq <= s /\ UpTo(logs[n].good, s)
  BY Zenon, <1>2, <1>3, LastSeqIs DEF LogsBounded
<1>6. /\ \A x \in DOMAIN tables : x < vs.next => tables'[x] = tables[x]
      /\ \A x \in A : x \in recov.add \/ tables'[x] = logs[n].good
  <2>1. CASE logs[n].good = {}
    <3>1. tables' = tables /\ A = recov.add
      BY Zenon, <1>2, <2>1
    <3> QED
      BY Zenon, <3>1
  <2>2. CASE logs[n].good # {}
    <3>1. tables' = With(tables, vs.next, logs[n].good) /\ A = recov.add \cup {vs.next}
      BY Zenon, <1>2, <2>2
    <3>2. /\ tables'[vs.next] = logs[n].good
          /\ \A x \in DOMAIN tables : x # vs.next => tables'[x] = tables[x]
      BY Zenon, <3>1 DEF With
    <3>3. \A x : x < vs.next => x # vs.next
      BY <1>3
    <3> QED
      BY Zenon, <3>1, <3>2, <3>3
  <2> QED
    BY Zenon, <2>1, <2>2
<1> QED
  BY Zenon, <1>1, <1>2, <1>4, <1>5, <1>6, ReplayedSeq

(* RecoverLogFile stops at an error.                                       *)
LEMMA RecoverLogFailsSeq ==
  ASSUME Inv, SeqInv, RecoverLogFails
  PROVE  SeqInv'
<1>1. /\ proc = "replay" /\ proc' = "replay"
      /\ UNCHANGED <<logs, tables, manifests, current, stored>>
  BY Zenon DEF RecoverLogFails, files, history
<1>2. PICK n, k, T, D, s, f :
        /\ n \in recov.todo
        /\ recov' = [recov EXCEPT !.todo = T, !.ok = f, !.seq = s, !.doubt = D]
        /\ vs' = [vs EXCEPT !.next = k]
        /\ T = recov.todo \ {n} /\ s = LastSeq(logs[n].good, recov.seq)
  <2>1. PICK n \in recov.todo :
        /\ recov' = [recov EXCEPT !.todo = recov.todo \ {n}, !.ok = FALSE,
                       !.seq = LastSeq(logs[n].good, recov.seq),
                       !.doubt = recov.doubt \cup Ops(logs[n].good)]
        /\ vs' = [vs EXCEPT !.next = MarkUsed(vs.next + 1, n)]
    BY Zenon DEF RecoverLogFails
  <2> QED
    BY Zenon, <2>1
<1>3. /\ ReplaySeq /\ LogsBounded /\ n \in DOMAIN logs /\ VsRec(vs) /\ RecovRec(recov)
      /\ recov.seq \in Nat
  BY Zenon, <1>1, <1>2 DEF Inv, Forms, Replaying, LogsFrom, SeqInv, ReplaySeq
<1>4. vs'.seq = vs.seq /\ recov'.todo = T /\ recov'.add = recov.add /\ recov'.seq = s
  BY Zenon, <1>2, <1>3 DEF VsRec, RecovRec
<1>5. s \in Nat /\ recov.seq <= s /\ UpTo(logs[n].good, s)
  BY Zenon, <1>2, <1>3, LastSeqIs DEF LogsBounded
<1> QED
  BY Zenon, <1>1, <1>2, <1>4, <1>5, ReplayedSeq

(* A step that changes nothing.                                            *)
LEMMA SeqStutters ==
  ASSUME Inv, SeqInv, UNCHANGED vars
  PROVE  SeqInv'
<1>1. UNCHANGED <<logs, tables, manifests, current, proc, vs, mem, imm, memtabs,
                  writers_, wst, op, group, bg, recov, reader, stored>>
  BY ZenonT(40) DEF vars, files, memVars, writeVars, bgVars, history
<1>2. UNCHANGED <<Version, Entries, Man, Editing, NextL0, NextLow, Reading, Opened>>
  BY ZenonT(40), <1>1 DEF Version, Entries, Man, Editing, NextL0, NextLow, Reading, Opened
<1>3. Unique(stored)' /\ LogsBounded'
  BY Zenon, <1>1 DEF SeqInv, Unique, LogsBounded
<1>4. proc # "up" /\ current # 0 => DiskSeq'
  BY ZenonT(40), <1>1, <1>2 DEF SeqInv, DiskSeq, Contents, LogEntries, LogsFrom
<1>5. proc = "replay" => ReplaySeq'
  <2>1. /\ Contents(recov.add)' = Contents(recov.add)
        /\ LogsFrom(Man.log)' = LogsFrom(Man.log)
        /\ LogEntries(LogsFrom(Man.log) \ recov.todo)' = LogEntries(LogsFrom(Man.log) \ recov.todo)
    BY Zenon, <1>1, <1>2 DEF Contents, LogEntries, LogsFrom
  <2> QED
    BY ZenonT(40), <1>1, <1>2, <2>1 DEF SeqInv, ReplaySeq
<1>6. proc \in {"manifest", "install"} => OpenSeq'
  BY ZenonT(40), <1>1, <1>2 DEF SeqInv, OpenSeq, Contents
<1>7. proc = "up" => UpSeq'
  <2>1. UNCHANGED <<Held, Logged, MemEntries(imm), InFlight({"inserted"}),
                    InFlight({"logged", "inserted"}), Contents(Version)>>
    BY ZenonT(40), <1>1, <1>2 DEF Held, Logged, MemEntries, InFlight, Contents
  <2>2. proc = "up" => Numbered' /\ OnlyLogs' /\ StoredIs'
    BY ZenonT(40), <1>1, <2>1 DEF SeqInv, UpSeq, Numbered, OnlyLogs, LogsFrom, StoredIs
  <2>3. proc = "up" => ManSeq' /\ EditSeq'
    BY Zenon, <1>1, <2>1, FilesSeq
  <2>4. proc = "up" => ReaderSeq' /\ SnapshotExact'
    <3>1. /\ UNCHANGED <<reader, vs, bg, DOMAIN memtabs, Reading>>
          /\ \A r \in Readers : UNCHANGED <<UNION {memtabs[m] : m \in reader[r].mems},
                                            Contents(reader[r].files)>>
      BY Zenon, <1>1, <1>2 DEF Contents
    <3>2. ReaderSeq => ReaderSeq'
      BY Zenon, <3>1 DEF ReaderSeq
    <3>3. SnapshotExact => SnapshotExact'
      BY ZenonT(40), <1>1, <3>1 DEF SnapshotExact
    <3> QED
      BY Zenon, <3>2, <3>3 DEF SeqInv, UpSeq
  <2> QED
    BY Zenon, <2>2, <2>3, <2>4 DEF UpSeq
<1> QED
  BY Zenon, <1>1, <1>3, <1>4, <1>5, <1>6, <1>7 DEF SeqInv

(* The invariant holds at the start.                                       *)
LEMMA InitSeq ==
  ASSUME Init
  PROVE  SeqInv
<1>1. Unique(stored) /\ DOMAIN logs = {}
  BY Zenon DEF Init, Unique
<1>2. LogsBounded
  <2>1. 0 \in Nat
    OBVIOUS
  <2> QED
    BY Zenon, <1>1, <2>1 DEF LogsBounded
<1>3. proc = "down" /\ current = 0
  BY Zenon DEF Init
<1> QED
  BY Zenon, <1>1, <1>2, <1>3 DEF SeqInv

(* Every step of a writer preserves it.                                    *)
LEMMA WriterStepSeq ==
  ASSUME Inv, Inv', SeqInv, NEW w \in Writers, WriteStep(w)
  PROVE  SeqInv'
BY Zenon, JoinQueueSeq, WaitForRoomSeq, SwitchMemTableSeq, SwitchFailsSeq,
   BuildBatchGroupSeq, AddRecordSeq, AddRecordFailsSeq, InsertIntoSeq, FinishWriteSeq
   DEF WriteStep

(* Every step preserves it.                                                *)
LEMMA SeqNext ==
  ASSUME Inv, Inv', SeqInv, [Next]_vars
  PROVE  SeqInv'
<1>1. CASE OpenStep
  BY ZenonT(40), <1>1, NewDBSeq, NewDBCurrentSeq, VersionRecoverSeq, RecoverLogFileSeq,
     RecoverLogFailsSeq, NewManifestSeq, SetCurrentFileSeq, OpenFailsSeq,
     OpenDoneSeq DEF OpenStep
<1>2. CASE \E w \in Writers : WriteStep(w)
  BY Zenon, <1>2, WriterStepSeq
<1>3. CASE BgStep
  BY Zenon, <1>3, BackgroundSeq
<1>4. CASE \E r \in Readers : BeginGet(r) \/ EndGet(r)
  BY ZenonT(40), <1>4, BeginGetSeq, EndGetSeq
<1>5. CASE Crash
  BY Zenon, <1>5, CrashSeq
<1>6. CASE UNCHANGED vars
  BY Zenon, <1>6, SeqStutters
<1> QED
  BY Zenon, <1>1, <1>2, <1>3, <1>4, <1>5, <1>6 DEF Next

(* What it says of sequence numbers.                                       *)
LEMMA SeqUnique ==
  ASSUME SeqInv
  PROVE  SequenceUnique
BY Zenon DEF SeqInv, UpSeq, StoredIs, Unique, SequenceUnique

(* What it says of snapshots.                                              *)
LEMMA SeqSnapshot ==
  ASSUME Inv, SeqInv
  PROVE  SnapshotExact
<1>1. CASE proc = "up"
  BY Zenon, <1>1 DEF SeqInv, UpSeq
<1>2. CASE proc # "up"
  <2>1. \A r \in Readers : reader[r].at # "reading"
    BY <1>2 DEF Inv, Quiet, Idle
  <2> QED
    BY Zenon, <2>1 DEF SnapshotExact
<1> QED
  BY Zenon, <1>1, <1>2
=============================================================================
