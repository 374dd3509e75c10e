------------------------------ MODULE LevelDb ------------------------------
(***************************************************************************)
(* The leveldb engine below GentDb: group commit of concurrent writers,    *)
(* the switch of a full memtable, the background thread that writes        *)
(* memtables to tables and merges tables, the MANIFEST and CURRENT files,  *)
(* removal of obsolete files, readers that keep old versions alive, and    *)
(* recovery after a crash of the process.  Keys and levels are in Levels,  *)
(* bytes of a log in LogFormat: here an update is an entry <<sequence,     *)
(* operation>>, a log the set of entries a reader of it gets back, and a   *)
(* MANIFEST the state that its records add up to.  A replayed log becomes  *)
(* one table, a merge writes one output, and levels below 0 are merged     *)
(* when a read asks for it: which of several reasons started a merge makes *)
(* no difference to files and memtables.                                   *)
(***************************************************************************)
EXTENDS Integers, FiniteSets, Sequences

CONSTANTS
  Writers,      \* client threads that call DB::Write
  Readers,      \* client threads that call DB::Get
  WriteBuffer,  \* entries of a memtable that still has room
  L0Trigger,    \* kL0_CompactionTrigger
  L0Stop,       \* kL0_StopWritesTrigger
  MaxOps,       \* bound: operations issued
  MaxCrashes,   \* bound: crashes of the process
  MaxFaults,    \* bound: failing calls of the Env
  MaxSeeks      \* bound: merges that reads ask for

ASSUME LevelDbAssumption ==
  /\ WriteBuffer \in Nat
  /\ L0Trigger \in Nat \ {0}
  /\ L0Stop \in Nat
  /\ L0Trigger <= L0Stop
  /\ MaxOps \in Nat /\ MaxCrashes \in Nat
  /\ MaxFaults \in Nat /\ MaxSeeks \in Nat

VARIABLES
  \* files, which survive a crash of the process
  logs,       \* number -> [good: entries a reader gets back, torn: a failed append]
  tables,     \* number -> entries
  manifests,  \* number -> [l0, low: table numbers, log, next, seq, torn]
  current,    \* the manifest CURRENT names, 0 before the database exists
  \* memory
  proc,       \* "down", the steps of DB::Open, or "up"
  vs,         \* VersionSet: [l0, low, seek: file_to_compact_, log, next, manifest, seq]
  mem, imm,   \* log numbers of mem_ and imm_, imm = 0 for NULL
  memtabs,    \* log number -> entries of its memtable
  writers_,   \* the queue of Write
  wst,        \* where each writer stands
  op,         \* each writer's operation
  group,      \* writers in the leader's batch group
  pending,    \* pending_outputs_
  sched,      \* bg_compaction_scheduled_
  bg,         \* the background thread
  recov,      \* DB::Open: [todo: logs to replay, add: tables, seq, ok, doubt]
  reader,     \* each reader's references and snapshot
  \* history and bounds
  nextOp, acked, stored, excused, crashes, faults, seeks

files == <<logs, tables, manifests, current>>
writeVars == <<writers_, wst, op, group>>
memVars == <<mem, imm, memtabs>>
bgVars == <<pending, sched, bg>>
history == <<nextOp, acked, stored, excused>>
vars == <<files, proc, vs, memVars, writeVars, bgVars, recov, reader,
          history, crashes, faults, seeks>>
-----------------------------------------------------------------------------
With(f, n, v) == [x \in DOMAIN f \cup {n} |-> IF x = n THEN v ELSE f[x]]
Only(f, S) == [x \in DOMAIN f \cap S |-> f[x]]
SeqOf(e) == e[1]
OpOf(e) == e[2]
Ops(E) == {OpOf(e) : e \in E}
MaxOf(a, b) == IF a >= b THEN a ELSE b

Idle == [at |-> "idle"]
NoMerge == [on |-> FALSE]
NoBg == [at |-> "idle", merge |-> NoMerge, out |-> 0,
         edit |-> [add0 |-> {}, addLow |-> {}, del |-> {}, log |-> 0,
                   next |-> 0, seq |-> 0]]
NoRecov == [todo |-> {}, add |-> {}, seq |-> 0, ok |-> TRUE, doubt |-> {}]
NoVersion == [l0 |-> {}, low |-> {}, seek |-> 0, log |-> 0, next |-> 2,
              manifest |-> 0, seq |-> 0]
EmptyLog == [good |-> {}, torn |-> FALSE]

\* Nothing in memory: before DB::Open and after a crash.
Forget ==
  /\ vs' = NoVersion
  /\ mem' = 0 /\ imm' = 0 /\ memtabs' = [n \in {} |-> {}]
  /\ writers_' = <<>> /\ wst' = [w \in Writers |-> "idle"]
  /\ op' = [w \in Writers |-> 0] /\ group' = 0
  /\ pending' = {} /\ sched' = FALSE /\ bg' = NoBg
  /\ recov' = NoRecov
  /\ reader' = [r \in Readers |-> Idle]

Init ==
  /\ logs = [n \in {} |-> EmptyLog] /\ tables = [n \in {} |-> {}]
  /\ manifests = [n \in {} |-> 0] /\ current = 0
  /\ proc = "down"
  /\ vs = NoVersion
  /\ mem = 0 /\ imm = 0 /\ memtabs = [n \in {} |-> {}]
  /\ writers_ = <<>> /\ wst = [w \in Writers |-> "idle"]
  /\ op = [w \in Writers |-> 0] /\ group = 0
  /\ pending = {} /\ sched = FALSE /\ bg = NoBg
  /\ recov = NoRecov
  /\ reader = [r \in Readers |-> Idle]
  /\ nextOp = 1 /\ acked = {} /\ stored = {} /\ excused = {}
  /\ crashes = 0 /\ faults = 0 /\ seeks = 0

\* A call of the Env fails.
Fault == faults < MaxFaults /\ faults' = faults + 1
-----------------------------------------------------------------------------
(* DB::Open *)

\* NewDB writes the first manifest; SetCurrentFile makes it count.
NewDB ==
  /\ proc = "down" /\ current = 0
  /\ manifests' = With(manifests, 1,
                       [l0 |-> {}, low |-> {}, log |-> 0, next |-> 2,
                        seq |-> 0, torn |-> FALSE])
  /\ proc' = "newdb"
  /\ UNCHANGED <<logs, tables, current, vs, memVars, writeVars, bgVars, recov,
                 reader, history, crashes, seeks, faults>>

NewDBCurrent ==
  /\ proc = "newdb"
  /\ current' = 1
  /\ proc' = "down"
  /\ UNCHANGED <<logs, tables, manifests, vs, memVars, writeVars, bgVars,
                 recov, reader, history, crashes, seeks, faults>>

LogsFrom(n) == {x \in DOMAIN logs : x >= n}

\* VersionSet::Recover, and the list of the logs to replay.  Any damage to
\* the manifest makes it, and DB::Open, fail.
VersionRecover ==
  /\ proc = "down" /\ current # 0
  /\ ~manifests[current].torn
  /\ LET m == manifests[current] IN
       /\ vs' = [l0 |-> m.l0, low |-> m.low, seek |-> 0, log |-> m.log,
                 next |-> m.next + 1, manifest |-> m.next, seq |-> m.seq]
       /\ recov' = [NoRecov EXCEPT !.todo = LogsFrom(m.log)]
  /\ proc' = "replay"
  /\ UNCHANGED <<files, memVars, writeVars, bgVars, reader, history, crashes, seeks,
                 faults>>

\* Logs are replayed in the order of their numbers.
Earliest(n) == n \in recov.todo /\ \A x \in recov.todo : n <= x

\* MarkFileNumberUsed
MarkUsed(next, n) == IF next <= n THEN n + 1 ELSE next

LastSeqKept(E, base) == base  \* a mutant: the log's sequence numbers are ignored
LastSeq(E, base) == IF \E e \in E : SeqOf(e) > base
                    THEN SeqOf(CHOOSE e \in E : \A f \in E : SeqOf(f) <= SeqOf(e))
                    ELSE base

\* RecoverLogFile: one log becomes a level-0 table, unless it is empty.
RecoverLogFile ==
  /\ proc = "replay"
  /\ \E n \in recov.todo :
       LET E == logs[n].good
           k == vs.next
       IN /\ Earliest(n)
          /\ tables' = IF E = {} THEN tables ELSE With(tables, k, E)
          /\ recov' = [recov EXCEPT
               !.todo = @ \ {n},
               !.add = IF E = {} THEN @ ELSE @ \cup {k},
               !.seq = LastSeq(E, @),
               !.ok = TRUE]
          /\ vs' = [vs EXCEPT !.next = MarkUsed(IF E = {} THEN k ELSE k + 1, n)]
  /\ UNCHANGED <<logs, manifests, current, proc, memVars, writeVars, bgVars,
                 reader, history, crashes, seeks, faults>>

\* The table cannot be written: the status of this log is an error, which
\* only the status of the last log brings to DB::Open.
RecoverLogFails ==
  /\ proc = "replay"
  /\ Fault
  /\ \E n \in recov.todo :
       /\ Earliest(n) /\ logs[n].good # {}
       /\ recov' = [recov EXCEPT !.todo = @ \ {n}, !.ok = FALSE,
                                 !.seq = LastSeq(logs[n].good, @),
                                 !.doubt = @ \cup Ops(logs[n].good)]
       /\ vs' = [vs EXCEPT !.next = MarkUsed(@ + 1, n)]
  /\ UNCHANGED <<files, proc, memVars, writeVars, bgVars, reader, history,
                 crashes, seeks>>

\* Recover returned an error, or a file of DB::Open cannot be written: the
\* new manifest is removed and the caller gets no database.
OpenFails ==
  /\ proc \in {"newdb", "replay", "manifest"} /\ recov.todo = {}
  /\ IF recov.ok THEN Fault ELSE UNCHANGED faults
  /\ manifests' = IF proc = "manifest"
                  THEN Only(manifests, DOMAIN manifests \ {vs.manifest})
                  ELSE manifests
  /\ proc' = "down"
  /\ Forget
  /\ UNCHANGED <<logs, tables, current, history, crashes, seeks>>

\* DB::Open after Recover: a new log, and LogAndApply with a new manifest
\* that holds the version, the replayed tables and the new log number.
NewManifest ==
  /\ proc = "replay" /\ recov.todo = {} /\ recov.ok
  /\ LET n == vs.next
         seq == MaxOf(vs.seq, recov.seq)
     IN /\ logs' = With(logs, n, EmptyLog)
        /\ vs' = [vs EXCEPT !.next = n + 1, !.seq = seq]
        /\ mem' = n
        /\ memtabs' = With(memtabs, n, {})
        /\ manifests' = With(manifests, vs.manifest,
             [l0 |-> vs.l0 \cup recov.add, low |-> vs.low, log |-> n,
              next |-> n + 1, seq |-> seq, torn |-> FALSE])
  /\ proc' = "manifest"
  /\ UNCHANGED <<tables, current, imm, writeVars, bgVars, recov, reader,
                 history, crashes, seeks, faults>>

SetCurrentFile ==
  /\ proc = "manifest"
  /\ current' = vs.manifest
  /\ excused' = excused \cup recov.doubt
  /\ proc' = "install"
  /\ UNCHANGED <<logs, tables, manifests, vs, memVars, writeVars, bgVars, recov,
                 reader, nextOp, acked, stored, crashes, seeks, faults>>
-----------------------------------------------------------------------------
(* Versions and obsolete files *)

\* MaybeScheduleCompaction: imm_ or NeedsCompaction.
NeedsL0(v) == Cardinality(v.l0) >= L0Trigger
HasWork(i, v) == i # 0 \/ NeedsL0(v) \/ v.seek # 0

\* AddLiveFiles: tables of every version someone refers to.
Reading == {r \in Readers : reader[r].at = "reading"}
Referred == UNION {reader[r].files : r \in Reading}
\* MemTable::Unref: a memtable lives while mem_, imm_ or a reader refers to it.
MemsOf(R) == UNION {reader[r].mems : r \in R}

\* DeleteObsoleteFiles, given the state of the version set it runs in.
DeleteObsoleteFiles(v, live) ==
  /\ logs' = [n \in {x \in DOMAIN logs : x >= v.log} |-> logs[n]]
  /\ tables' = Only(tables, live)
  /\ manifests' = [n \in {x \in DOMAIN manifests : x >= v.manifest} |->
                     manifests[n]]

\* The rest of DB::Open: the new version is current.
OpenDone ==
  /\ proc = "install"
  /\ LET v == [vs EXCEPT !.l0 = @ \cup recov.add, !.log = mem]
     IN /\ vs' = v
        /\ DeleteObsoleteFiles(v, v.l0 \cup v.low)
        /\ sched' = HasWork(0, v)
        /\ stored' = UNION {tables[t] : t \in v.l0 \cup v.low}
  /\ recov' = NoRecov
  /\ proc' = "up"
  /\ UNCHANGED <<current, memVars, writeVars, pending, bg, reader, nextOp,
                 acked, excused, crashes, seeks, faults>>
-----------------------------------------------------------------------------
(* DBImpl::Write *)

\* The writer joins the queue; it sleeps on its own condition variable
\* unless it is at the front.
JoinQueue(w) ==
  /\ proc = "up" /\ wst[w] = "idle" /\ nextOp <= MaxOps
  /\ writers_' = Append(writers_, w)
  /\ wst' = [wst EXCEPT ![w] = IF writers_ = <<>> THEN "front" ELSE "asleep"]
  /\ op' = [op EXCEPT ![w] = nextOp]
  /\ nextOp' = nextOp + 1
  /\ UNCHANGED <<files, proc, vs, memVars, group, bgVars, recov, reader, acked,
                 stored, excused, crashes, seeks, faults>>

\* MakeRoomForWrite
Room == Cardinality(memtabs[mem]) <= WriteBuffer
WaitForTables == Cardinality(vs.l0) >= L0Stop  \* a mutant: imm_ is not looked at
MustWait == imm # 0 \/ Cardinality(vs.l0) >= L0Stop

\* bg_cv_.Wait()
WaitForRoom(w) ==
  /\ wst[w] = "front" /\ ~Room /\ MustWait
  /\ wst' = [wst EXCEPT ![w] = "waiting"]
  /\ UNCHANGED <<files, proc, vs, memVars, writers_, op, group, bgVars, recov,
                 reader, history, crashes, seeks, faults>>

\* bg_cv_.SignalAll()
Signalled(st) == [w \in Writers |-> IF st[w] = "waiting" THEN "front" ELSE st[w]]

SwitchMemTable(w) ==
  /\ wst[w] = "front" /\ ~Room /\ ~MustWait
  /\ logs' = With(logs, vs.next, EmptyLog)
  /\ memtabs' = With(memtabs, vs.next, {})
  /\ imm' = mem
  /\ mem' = vs.next
  /\ vs' = [vs EXCEPT !.next = @ + 1]
  /\ sched' = TRUE
  /\ UNCHANGED <<tables, manifests, current, proc, writeVars, pending, bg, recov,
                 reader, history, crashes, seeks, faults>>

ReplyToGroup(n, ok) ==  \* a mutant: the next in line is not woken
  /\ writers_' = SubSeq(writers_, n + 1, Len(writers_))
  /\ wst' = [w \in Writers |-> IF \E i \in 1..n : writers_[i] = w THEN "idle" ELSE wst[w]]
  /\ acked' = IF ok THEN acked \cup {op[writers_[i]] : i \in 1..n} ELSE acked
  /\ op' = [w \in Writers |-> IF \E i \in 1..n : writers_[i] = w THEN 0 ELSE op[w]]
  /\ group' = 0

\* The leader takes the n first writers off the queue, wakes them with its
\* status, and wakes the next in line.
Reply(n, ok) ==
  /\ writers_' = SubSeq(writers_, n + 1, Len(writers_))
  /\ wst' = [w \in Writers |->
       CASE \E i \in 1..n : writers_[i] = w -> "idle"
         [] n < Len(writers_) /\ writers_[n + 1] = w -> "front"
         [] OTHER -> wst[w]]
  /\ acked' = IF ok THEN acked \cup {op[writers_[i]] : i \in 1..n} ELSE acked
  /\ op' = [w \in Writers |-> IF \E i \in 1..n : writers_[i] = w THEN 0 ELSE op[w]]
  /\ group' = 0

\* NewWritableFile fails: the number is given back and the write fails.
SwitchFails(w) ==
  /\ wst[w] = "front" /\ ~Room /\ ~MustWait
  /\ Fault
  /\ Reply(1, FALSE)
  /\ UNCHANGED <<files, proc, vs, memVars, bgVars, recov, reader, nextOp, stored,
                 excused, crashes, seeks>>

\* BuildBatchGroup: the leader takes along as many followers as fit.
BuildBatchGroup(w) ==
  /\ wst[w] = "front" /\ Room
  /\ group' \in 1..Len(writers_)
  /\ wst' = [wst EXCEPT ![w] = "logging"]
  /\ UNCHANGED <<files, proc, vs, memVars, writers_, op, bgVars, recov, reader,
                 history, crashes, seeks, faults>>

Entries == {<<vs.seq + i, op[writers_[i]]>> : i \in 1..group}

\* The record reaches the log.  Behind a failed append the writer's idea of
\* the block offset is wrong, and a record may be unreadable.
AddRecord(w) ==
  /\ wst[w] = "logging"
  /\ \/ /\ logs' = [logs EXCEPT ![mem].good = @ \cup Entries]
        /\ UNCHANGED excused
     \/ /\ logs[mem].torn
        /\ excused' = excused \cup Ops(Entries)
        /\ UNCHANGED logs
  /\ wst' = [wst EXCEPT ![w] = "logged"]
  /\ UNCHANGED <<tables, manifests, current, proc, vs, memVars, writers_, op,
                 group, bgVars, recov, reader, nextOp, acked, stored, crashes, seeks,
                 faults>>

AddRecordFails(w) ==
  /\ wst[w] = "logging"
  /\ Fault
  /\ logs' = [logs EXCEPT ![mem].torn = TRUE]
  /\ wst' = [wst EXCEPT ![w] = "failed"]
  /\ UNCHANGED <<tables, manifests, current, proc, vs, memVars, writers_, op,
                 group, bgVars, recov, reader, history, crashes, seeks>>

InsertInto(w) ==
  /\ wst[w] = "logged"
  /\ memtabs' = [memtabs EXCEPT ![mem] = @ \cup Entries]
  /\ wst' = [wst EXCEPT ![w] = "inserted"]
  /\ UNCHANGED <<files, proc, vs, mem, imm, writers_, op, group, bgVars, recov,
                 reader, history, crashes, seeks, faults>>

\* With the mutex again: SetLastSequence, also after an error.
FinishWrite(w) ==
  /\ wst[w] \in {"inserted", "failed"}
  /\ vs' = [vs EXCEPT !.seq = @ + group]
  /\ Reply(group, wst[w] = "inserted")
  /\ stored' = IF wst[w] = "inserted" THEN stored \cup Entries ELSE stored
  /\ UNCHANGED <<files, proc, memVars, bgVars, recov, reader, nextOp, excused,
                 crashes, seeks, faults>>
-----------------------------------------------------------------------------
(* The background thread *)

\* BackgroundCall ends: the thread reschedules itself if there is work left.
Resched(i, v) == sched' = HasWork(i, v)

NewOutputBare ==  \* a mutant: not in pending_outputs_
  /\ tables' = With(tables, vs.next, {})
  /\ vs' = [vs EXCEPT !.next = @ + 1]
  /\ UNCHANGED pending

\* A table number for an output, protected by pending_outputs_.
NewOutput ==
  /\ pending' = pending \cup {vs.next}
  /\ tables' = With(tables, vs.next, {})
  /\ vs' = [vs EXCEPT !.next = @ + 1]

\* CompactMemTable, first thing in a background call or between two keys of
\* a merge: WriteLevel0Table takes a number and releases the mutex.
CompactMemTable ==
  /\ proc = "up" /\ imm # 0
  /\ \/ bg.at = "idle" /\ sched
     \/ bg.at = "merge"
  /\ NewOutput
  /\ bg' = [bg EXCEPT !.at = "build", !.out = vs.next]
  /\ UNCHANGED <<logs, manifests, current, proc, memVars, writeVars, sched, recov,
                 reader, history, crashes, seeks, faults>>

\* The edit as LogAndApply completes it before it releases the mutex.
Edit(add0, addLow, del, log) ==
  [add0 |-> add0, addLow |-> addLow, del |-> del, log |-> log,
   next |-> vs.next, seq |-> vs.seq]

\* BuildTable succeeds; PickLevelForMemTableOutput may place the table below
\* level 0.  The log of mem_ is the first one still needed.
BuildTable ==
  /\ bg.at = "build"
  /\ tables' = [tables EXCEPT ![bg.out] = memtabs[imm]]
  /\ pending' = pending \ {bg.out}
  /\ \E add0 \in {{}, {bg.out}} :
       bg' = [bg EXCEPT !.at = "log",
                        !.edit = Edit(add0, {bg.out} \ add0, {}, mem)]
  /\ UNCHANGED <<logs, manifests, current, proc, vs, memVars, writeVars, sched,
                 recov, reader, history, crashes, seeks, faults>>

\* After an error the thread signals, and sleeps a second unless the error
\* was one of a memtable within a merge, which DoCompactionWork ignores.
AfterError ==
  /\ bg' = [NoBg EXCEPT !.at = IF bg.merge.on THEN "merge" ELSE "sleep",
                        !.merge = bg.merge]
  /\ wst' = Signalled(wst)

BuildTableFails ==
  /\ bg.at = "build"
  /\ Fault
  /\ tables' = Only(tables, DOMAIN tables \ {bg.out})
  /\ pending' = pending \ {bg.out}
  /\ AfterError
  /\ UNCHANGED <<logs, manifests, current, proc, vs, memVars, writers_, op, group,
                 sched, recov, reader, history, crashes, seeks>>

\* PickCompaction: the first input is a file of level 0 when that is full,
\* else the file that cost too many seeks.
FirstInput == IF NeedsL0(vs) THEN vs.l0 ELSE {vs.seek}

\* BackgroundCompaction without imm_: a single file that overlaps nothing
\* below it is moved.
MoveDown ==
  /\ proc = "up" /\ bg.at = "idle" /\ sched /\ imm = 0
  /\ \E t \in FirstInput : bg' = [bg EXCEPT !.at = "log",
                                       !.edit = Edit({}, {t}, {t}, vs.log)]
  /\ UNCHANGED <<files, proc, vs, memVars, writeVars, pending, sched, recov,
                 reader, history, crashes, seeks, faults>>

\* Otherwise it is merged with the files it overlaps: some of level 0 if it
\* is there, and some below.  The compaction refers to its version.
PickCompaction ==
  /\ proc = "up" /\ bg.at = "idle" /\ sched /\ imm = 0
  /\ \E t \in FirstInput, in \in SUBSET (vs.l0 \cup vs.low) :
       /\ t \in in /\ (t \in vs.low => in \subseteq vs.low)
       /\ bg' = [bg EXCEPT !.at = "merge",
                           !.merge = [on |-> TRUE, in |-> in, out |-> 0,
                                      files |-> vs.l0 \cup vs.low]]
  /\ UNCHANGED <<files, proc, vs, memVars, writeVars, pending, sched, recov,
                 reader, history, crashes, seeks, faults>>

OpenCompactionOutputFile ==
  /\ bg.at = "merge" /\ bg.merge.out = 0
  /\ NewOutput
  /\ bg' = [bg EXCEPT !.merge.out = vs.next]
  /\ UNCHANGED <<logs, manifests, current, proc, memVars, writeVars, sched, recov,
                 reader, history, crashes, seeks, faults>>

\* The end of DoCompactionWork, and InstallCompactionResults up to the record.
FinishCompaction ==
  /\ bg.at = "merge" /\ bg.merge.out # 0
  /\ tables' = [tables EXCEPT ![bg.merge.out] =
                  UNION {tables[t] : t \in bg.merge.in}]
  /\ bg' = [bg EXCEPT !.at = "log", !.out = bg.merge.out,
              !.edit = Edit({}, {bg.merge.out}, bg.merge.in, vs.log)]
  /\ UNCHANGED <<logs, manifests, current, proc, vs, memVars, writeVars, pending,
                 sched, recov, reader, history, crashes, seeks, faults>>

\* The edit is a memtable's, not the merge's own.
OfMemTable == bg.edit.del = {}
Live(v) == v.l0 \cup v.low \cup Referred

\* CleanupCompaction and DeleteObsoleteFiles after a failed merge.
FailCompaction ==
  /\ pending' = pending \ {bg.merge.out}
  /\ DeleteObsoleteFiles(vs, Live(vs) \cup (pending \ {bg.merge.out}))
  /\ bg' = [NoBg EXCEPT !.at = "sleep"]
  /\ wst' = Signalled(wst)

CompactionFails ==
  /\ bg.at = "merge"
  /\ Fault
  /\ FailCompaction
  /\ UNCHANGED <<current, proc, vs, memVars, writers_, op, group, sched, recov,
                 reader, history, crashes, seeks>>

Applied(m, e) ==
  [m EXCEPT !.l0 = (@ \ e.del) \cup e.add0, !.low = (@ \ e.del) \cup e.addLow,
            !.log = e.log, !.next = e.next, !.seq = e.seq]

\* LogAndApply without the mutex: the record is in the manifest, and synced.
LogRecord ==
  /\ bg.at = "log"
  /\ manifests' = [manifests EXCEPT ![vs.manifest] = Applied(@, bg.edit)]
  /\ bg' = [bg EXCEPT !.at = "install"]
  /\ UNCHANGED <<logs, tables, current, proc, vs, memVars, writeVars, pending,
                 sched, recov, reader, history, crashes, seeks, faults>>

\* The append fails and ManifestContains finds no record: the version stays.
\* What was written of the record may damage the manifest.
LogRecordFails ==
  /\ bg.at = "log"
  /\ Fault
  /\ \/ manifests' = manifests
     \/ manifests' = [manifests EXCEPT ![vs.manifest].torn = TRUE]
  /\ IF bg.edit.del # {} /\ bg.merge.on
     THEN bg' = [bg EXCEPT !.at = "undo"] /\ UNCHANGED wst
     ELSE AfterError
  /\ UNCHANGED <<logs, tables, current, proc, vs, memVars, writers_, op, group,
                 pending, sched, recov, reader, history, crashes, seeks>>

\* With the mutex again after a failed record of a merge.
UndoCompaction ==
  /\ bg.at = "undo"
  /\ FailCompaction
  /\ UNCHANGED <<current, proc, vs, memVars, writers_, op, group, sched, recov,
                 reader, history, crashes, seeks, faults>>

NewVersion == [vs EXCEPT !.seek = 0,
                         !.l0 = (@ \ bg.edit.del) \cup bg.edit.add0,
                         !.low = (@ \ bg.edit.del) \cup bg.edit.addLow,
                         !.log = bg.edit.log]

\* The memtable's version is installed: imm_ is released, its log removed.
InstallMemTable ==
  /\ bg.at = "install" /\ OfMemTable
  /\ vs' = NewVersion
  /\ imm' = 0
  /\ memtabs' = Only(memtabs, {mem} \cup MemsOf(Reading))
  /\ DeleteObsoleteFiles(NewVersion,
       Live(NewVersion) \cup pending
         \cup (IF bg.merge.on THEN bg.merge.files ELSE {}))
  /\ bg' = [NoBg EXCEPT !.at = IF bg.merge.on THEN "merge" ELSE "idle",
                        !.merge = bg.merge]
  /\ IF bg.merge.on THEN UNCHANGED sched ELSE Resched(0, NewVersion)
  /\ wst' = Signalled(wst)
  /\ UNCHANGED <<current, proc, mem, writers_, op, group, pending, recov, reader,
                 history, crashes, seeks, faults>>

\* A move installs its version and removes nothing.
InstallMove ==
  /\ bg.at = "install" /\ ~OfMemTable /\ ~bg.merge.on
  /\ vs' = NewVersion
  /\ bg' = NoBg
  /\ Resched(imm, NewVersion)
  /\ wst' = Signalled(wst)
  /\ UNCHANGED <<files, proc, memVars, writers_, op, group, pending, recov, reader,
                 history, crashes, seeks, faults>>

\* A merge installs its version, releases its inputs and cleans up.
InstallCompaction ==
  /\ bg.at = "install" /\ ~OfMemTable /\ bg.merge.on
  /\ vs' = NewVersion
  /\ pending' = pending \ {bg.merge.out}
  /\ DeleteObsoleteFiles(NewVersion,
       Live(NewVersion) \cup (pending \ {bg.merge.out}))
  /\ bg' = NoBg
  /\ Resched(imm, NewVersion)
  /\ wst' = Signalled(wst)
  /\ UNCHANGED <<current, proc, memVars, writers_, op, group, recov, reader,
                 history, crashes, seeks, faults>>

\* The second of sleep after an error is over.
EndSleep ==
  /\ bg.at = "sleep"
  /\ bg' = NoBg
  /\ Resched(imm, vs)
  /\ wst' = Signalled(wst)
  /\ UNCHANGED <<files, proc, vs, memVars, writers_, op, group, pending, recov,
                 reader, history, crashes, seeks, faults>>
-----------------------------------------------------------------------------
(* DBImpl::Get *)

BeginGetMem(r) ==  \* a mutant: imm_ is not read
  /\ proc = "up" /\ reader[r].at = "idle"
  /\ reader' = [reader EXCEPT ![r] =
       [at |-> "reading", mems |-> {mem}, files |-> vs.l0 \cup vs.low,
        snap |-> vs.seq]]
  /\ UNCHANGED <<files, proc, vs, memVars, writeVars, bgVars, recov, history,
                 crashes, seeks, faults>>

\* With the mutex: references to the memtables and the version, a snapshot.
BeginGet(r) ==
  /\ proc = "up" /\ reader[r].at = "idle"
  /\ reader' = [reader EXCEPT ![r] =
       [at |-> "reading", mems |-> {mem, imm} \ {0}, files |-> vs.l0 \cup vs.low,
        snap |-> vs.seq]]
  /\ UNCHANGED <<files, proc, vs, memVars, writeVars, bgVars, recov, history,
                 crashes, seeks, faults>>

\* With the mutex again: UpdateStats may find that a table of the version
\* was searched too often; the references are dropped.
EndGet(r) ==
  /\ reader[r].at = "reading"
  /\ \/ UNCHANGED <<vs, sched, seeks>>
     \/ /\ vs.seek = 0 /\ reader[r].files = vs.l0 \cup vs.low
        /\ seeks < MaxSeeks /\ seeks' = seeks + 1
        /\ \E t \in reader[r].files : vs' = [vs EXCEPT !.seek = t]
        /\ sched' = TRUE
  /\ reader' = [reader EXCEPT ![r] = Idle]
  /\ memtabs' = Only(memtabs, ({mem, imm} \ {0}) \cup MemsOf(Reading \ {r}))
  /\ UNCHANGED <<files, proc, mem, imm, writeVars, pending, bg, recov, history,
                 crashes, faults>>

\* The process dies.  A manifest record half written damages the manifest.
Crash ==
  /\ proc # "down" /\ crashes < MaxCrashes
  /\ crashes' = crashes + 1
  /\ \/ manifests' = manifests
     \/ /\ bg.at = "log"
        /\ manifests' = [manifests EXCEPT ![vs.manifest].torn = TRUE]
  /\ proc' = "down"
  /\ Forget
  /\ UNCHANGED <<logs, tables, current, history, faults, seeks>>
-----------------------------------------------------------------------------
OpenStep == NewDB \/ NewDBCurrent \/ VersionRecover \/ RecoverLogFile
            \/ RecoverLogFails \/ NewManifest \/ SetCurrentFile \/ OpenFails
            \/ OpenDone
WriteStep(w) == JoinQueue(w) \/ WaitForRoom(w) \/ SwitchMemTable(w)
                \/ SwitchFails(w) \/ BuildBatchGroup(w) \/ AddRecord(w)
                \/ AddRecordFails(w) \/ InsertInto(w) \/ FinishWrite(w)
BgStep == CompactMemTable \/ BuildTable \/ BuildTableFails \/ MoveDown
          \/ PickCompaction \/ OpenCompactionOutputFile \/ FinishCompaction
          \/ CompactionFails \/ LogRecord \/ LogRecordFails \/ UndoCompaction
          \/ InstallMemTable \/ InstallMove \/ InstallCompaction \/ EndSleep

Next ==
  \/ OpenStep
  \/ \E w \in Writers : WriteStep(w)
  \/ BgStep
  \/ \E r \in Readers : BeginGet(r) \/ EndGet(r)
  \/ Crash

Spec == Init /\ [][Next]_vars
-----------------------------------------------------------------------------
(* Properties *)

Entry == (1..(2 * MaxOps)) \X (1..MaxOps)

\* Files and variables have their types, and a group is a part of the queue.
TypeOK ==
  /\ DOMAIN logs \subseteq Nat /\ DOMAIN tables \subseteq Nat
  /\ \A n \in DOMAIN logs : logs[n] \in [good : SUBSET Entry, torn : BOOLEAN]
  /\ \A n \in DOMAIN tables : tables[n] \subseteq Entry
  /\ current \in Nat
  /\ mem \in Nat /\ imm \in Nat
  /\ group \in 0..Len(writers_)
  /\ acked \subseteq 1..MaxOps /\ excused \subseteq 1..MaxOps
  /\ stored \subseteq Entry

Contents(T) == UNION {tables[t] : t \in T}

\* What recovery would rebuild from the files as they are now.
OnDisk ==
  IF current = 0 THEN {}
  ELSE LET m == manifests[current]
       IN Contents((m.l0 \cup m.low) \cap DOMAIN tables)
          \cup UNION {logs[n].good : n \in LogsFrom(m.log)}

\* Every write that returned OK is in the files that recovery reads, at every
\* moment and wherever the process may die, except for writes to a log behind
\* a failed append and for a log whose replay failed unnoticed.
Durable == acked \subseteq Ops(OnDisk) \cup excused

\* No file in use is missing: the tables of the current version, of every
\* version a reader or a merge refers to and of the manifest CURRENT names,
\* and the log of each memtable.
FilesThere ==
  /\ current # 0 => /\ current \in DOMAIN manifests
                    /\ LET m == manifests[current]
                       IN m.l0 \cup m.low \subseteq DOMAIN tables
  /\ proc = "up" => /\ vs.l0 \cup vs.low \cup Referred \subseteq DOMAIN tables
                    /\ {mem, imm} \ {0} \subseteq DOMAIN logs
  /\ bg.merge.on => bg.merge.in \cup ({bg.merge.out} \ {0}) \subseteq DOMAIN tables

\* A Get finds exactly the writes that had returned OK when it took its
\* snapshot, whatever memtable switches, merges and deletions of files happen
\* while it reads.
SnapshotExact ==
  \A r \in Readers : reader[r].at = "reading" =>
    {e \in (UNION {memtabs[m] : m \in reader[r].mems}) \cup Contents(reader[r].files) :
       SeqOf(e) <= reader[r].snap}
    = {e \in stored : SeqOf(e) <= reader[r].snap}

\* Sequence numbers are never used twice, also across a recovery.
SequenceUnique ==
  /\ proc = "up" => \A e \in stored : SeqOf(e) <= vs.seq
  /\ \A e, f \in stored : SeqOf(e) = SeqOf(f) => e = f

\* No writer is left asleep: the front of the queue is awake, and a writer
\* that waits for room has the background thread at work.
NobodyForgotten ==
  /\ writers_ # <<>> => wst[Head(writers_)] \notin {"idle", "asleep"}
  /\ (\E w \in Writers : wst[w] = "waiting") => sched
=============================================================================
