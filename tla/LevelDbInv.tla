----------------------------- MODULE LevelDbInv -----------------------------
(***************************************************************************)
(* The inductive invariant behind the theorems of LevelDbProofs.  Durable  *)
(* is not inductive: what an acknowledged write rests on changes from the  *)
(* log of a memtable to a table, to the output of a merge and, after a     *)
(* crash, to the tables of a replay.  The invariant says at each of these  *)
(* stages where the write is, that the files it is in are not removed, and *)
(* that new files get fresh numbers.                                       *)
(***************************************************************************)
EXTENDS LevelDb

Pos == Nat \ {0}
-----------------------------------------------------------------------------
(* Forms of the records.                                                   *)
LogRec(x) == x = [good |-> x.good, torn |-> x.torn]
ManRec(m) ==
  /\ m = [l0 |-> m.l0, low |-> m.low, log |-> m.log, next |-> m.next,
          seq |-> m.seq, torn |-> m.torn]
  /\ m.l0 \subseteq Pos /\ m.low \subseteq Pos /\ IsFiniteSet(m.l0)
  /\ m.log \in Nat /\ m.next \in Pos
VsRec(v) ==
  /\ v = [l0 |-> v.l0, low |-> v.low, seek |-> v.seek, log |-> v.log,
          next |-> v.next, manifest |-> v.manifest, seq |-> v.seq]
  /\ v.l0 \subseteq Pos /\ v.low \subseteq Pos /\ IsFiniteSet(v.l0)
  /\ v.seek \in Nat /\ v.log \in Nat /\ v.next \in Pos /\ v.manifest \in Nat
EditRec(e) ==
  /\ e = [add0 |-> e.add0, addLow |-> e.addLow, del |-> e.del, log |-> e.log,
          next |-> e.next, seq |-> e.seq]
  /\ e.add0 \subseteq Pos /\ e.addLow \subseteq Pos /\ IsFiniteSet(e.add0)
  /\ e.log \in Nat /\ e.next \in Nat
MergeRec(g) ==
  \/ g = NoMerge
  \/ /\ g = [on |-> TRUE, in |-> g.in, out |-> g.out, files |-> g.files]
     /\ g.out \in Nat /\ g.in # {}
BgRec(b) ==
  /\ b = [at |-> b.at, merge |-> b.merge, out |-> b.out, edit |-> b.edit]
  /\ b.out \in Nat
  /\ MergeRec(b.merge) /\ EditRec(b.edit)
RecovRec(x) ==
  /\ x = [todo |-> x.todo, add |-> x.add, seq |-> x.seq, ok |-> x.ok,
          doubt |-> x.doubt]
  /\ x.add \subseteq Pos /\ IsFiniteSet(x.add)
ReaderRec(x) ==
  x = Idle \/ x = [at |-> "reading", mems |-> x.mems, files |-> x.files,
                   snap |-> x.snap]

LogsForm ==
  /\ DOMAIN logs \subseteq Nat /\ logs = [n \in DOMAIN logs |-> logs[n]]
  /\ \A n \in DOMAIN logs : LogRec(logs[n])
TablesForm == tables = [n \in DOMAIN tables |-> tables[n]]
ManForm ==
  /\ DOMAIN manifests \subseteq Nat
  /\ manifests = [n \in DOMAIN manifests |-> manifests[n]]
  /\ \A n \in DOMAIN manifests : ManRec(manifests[n])
  /\ current \in Nat
MemForm ==
  /\ mem \in Nat /\ imm \in Nat
  /\ memtabs = [n \in DOMAIN memtabs |-> memtabs[n]]
ReaderForm ==
  /\ reader = [r \in Readers |-> reader[r]]
  /\ \A r \in Readers : ReaderRec(reader[r])

Forms == /\ LogsForm /\ TablesForm /\ ManForm /\ MemForm /\ ReaderForm
         /\ VsRec(vs) /\ BgRec(bg) /\ RecovRec(recov)
-----------------------------------------------------------------------------
(* The queue of Write: only its head is awake.                             *)
Active == {"front", "waiting", "logging", "logged", "inserted", "failed"}
Grouped == {"logging", "logged", "inserted", "failed"}

QueueOK ==
  /\ writers_ \in Seq(Writers)
  /\ wst \in [Writers -> {"idle", "asleep"} \cup Active]
  /\ op = [w \in Writers |-> op[w]]
  /\ \A i, j \in 1..Len(writers_) : writers_[i] = writers_[j] => i = j
  /\ \A i \in 1..Len(writers_) : wst[writers_[i]] # "idle"
  /\ \A i \in 2..Len(writers_) : wst[writers_[i]] = "asleep"
  /\ \A w \in Writers : wst[w] # "idle" => \E i \in 1..Len(writers_) : writers_[i] = w
  /\ writers_ # <<>> => wst[writers_[1]] \in Active
  /\ group \in Nat
  /\ \A w \in Writers : wst[w] \in Grouped => group \in 1..Len(writers_)

(* Without a database in memory nothing is going on.                       *)
Stages == {"down", "newdb", "replay", "manifest", "install", "up"}
BgStages == {"idle", "build", "merge", "log", "undo", "install", "sleep"}
Quiet ==
  proc # "up" => /\ bg = NoBg /\ imm = 0 /\ pending = {} /\ writers_ = <<>>
                 /\ sched = FALSE
                 /\ \A r \in Readers : reader[r] = Idle

(* The background thread is scheduled when there is work, and only then.   *)
SchedOK ==
  /\ sched \in BOOLEAN
  /\ bg.at # "idle" => sched
  /\ HasWork(imm, vs) /\ proc = "up" => sched
  /\ bg.at = "idle" /\ sched => HasWork(imm, vs)
  /\ (\E w \in Writers : wst[w] = "waiting") => sched
-----------------------------------------------------------------------------
(* The files that recovery would start from.                               *)
Man == manifests[current]
ManTables(m) == m.l0 \cup m.low
Below(T, n) == \A t \in T : t < n

DiskOK ==
  current # 0 => /\ current \in DOMAIN manifests /\ current < Man.next
                 /\ ManTables(Man) \subseteq DOMAIN tables
                 /\ Below(ManTables(Man), Man.next) /\ Man.log < Man.next

InTables(a, tb, T) == \E t \in T : \E e \in tb[t] : OpOf(e) = a
InLog(a, lg, n) == \E e \in lg[n].good : OpOf(e) = a

(* Every acknowledged operation is in these files.                         *)
Recoverable ==
  \A a \in acked : \/ a \in excused
                   \/ InTables(a, tables, ManTables(Man))
                   \/ \E n \in LogsFrom(Man.log) : InLog(a, logs, n)

NewMan == [l0 |-> {}, low |-> {}, log |-> 0, next |-> 2, seq |-> 0, torn |-> FALSE]
StartOK ==
  /\ current = 0 => proc \in {"down", "newdb"} /\ acked = {}
  /\ proc = "newdb" => /\ current = 0 /\ 1 \in DOMAIN manifests
                       /\ manifests[1] = NewMan
  /\ current # 0 /\ proc # "up" => Recoverable

(* DB::Open while it replays logs.                                         *)
Replaying ==
  /\ vs.l0 = Man.l0 /\ vs.low = Man.low /\ vs.log = Man.log /\ vs.seek = 0
  /\ vs.manifest = Man.next /\ Man.next < vs.next
  /\ recov.todo \subseteq LogsFrom(Man.log)
  /\ recov.add \subseteq DOMAIN tables
  /\ \A t \in recov.add : Man.next < t /\ t < vs.next
  /\ \A n \in LogsFrom(Man.log) \ recov.todo :
       /\ n < vs.next
       /\ \A e \in logs[n].good :
            OpOf(e) \in recov.doubt \/ InTables(OpOf(e), tables, recov.add)

(* DB::Open once the new manifest is written.                              *)
Opened == manifests[vs.manifest]
Opening ==
  /\ vs.manifest \in DOMAIN manifests /\ vs.manifest # 0
  /\ Opened.l0 = vs.l0 \cup recov.add /\ Opened.low = vs.low /\ Opened.log = mem
  /\ Opened.next = vs.next /\ vs.manifest < vs.next /\ vs.seek = 0
  /\ mem # 0 /\ mem < vs.next /\ mem \in DOMAIN logs /\ mem \in DOMAIN memtabs
  /\ logs[mem].good = {}
  /\ ManTables(Opened) \subseteq DOMAIN tables /\ Below(ManTables(Opened), vs.next)
  /\ proc = "manifest" => current < vs.manifest
  /\ proc = "install" => current = vs.manifest /\ recov.doubt \subseteq excused
  /\ \A a \in acked : \/ a \in excused \cup recov.doubt
                      \/ InTables(a, tables, ManTables(Opened))
-----------------------------------------------------------------------------
(* The running database: the version in memory and in the manifest.        *)
Version == vs.l0 \cup vs.low
NextL0 == (vs.l0 \ bg.edit.del) \cup bg.edit.add0
NextLow == (vs.low \ bg.edit.del) \cup bg.edit.addLow

VersionOK ==
  /\ current = vs.manifest /\ current # 0 /\ Man.next <= vs.next
  /\ bg.at # "install" => Man.l0 = vs.l0 /\ Man.low = vs.low /\ Man.log = vs.log
  /\ bg.at = "install" => /\ Man.l0 = NextL0 /\ Man.low = NextLow
                          /\ Man.log = bg.edit.log
  /\ Version \subseteq DOMAIN tables /\ Below(Version, vs.next)
  /\ vs.seek # 0 => vs.seek \in Version

(* The memtables and their logs.                                           *)
MemsOK ==
  /\ mem # 0 /\ mem < vs.next /\ mem \in DOMAIN logs /\ mem \in DOMAIN memtabs
  /\ vs.log <= mem
  /\ imm # 0 => /\ imm \in DOMAIN logs /\ imm \in DOMAIN memtabs
                /\ imm < mem /\ vs.log <= imm

(* The tables that readers and the background thread use.                  *)
ReadersOK ==
  \A r \in Reading : /\ reader[r].files \subseteq DOMAIN tables \cap Pos
                     /\ Below(reader[r].files, vs.next)
                     /\ bg.at = "build" => bg.out \notin reader[r].files
BuildOK ==
  bg.at = "build" => /\ imm # 0 /\ bg.out # 0 /\ bg.out < vs.next
                     /\ bg.out \in DOMAIN tables /\ bg.out \notin Version
                     /\ bg.merge.on => bg.out # bg.merge.out
MergeOK ==
  /\ bg.merge.on => /\ bg.merge.in \subseteq Version
                    /\ bg.merge.in \subseteq bg.merge.files
                    /\ bg.merge.out # 0 => /\ bg.merge.out \in DOMAIN tables
                                           /\ bg.merge.out \notin Version
                                           /\ bg.merge.out < vs.next
                                           /\ bg.merge.out \in pending
  /\ bg.at \in {"merge", "undo"} => bg.merge.on
  /\ bg.at \in {"idle", "sleep"} => ~bg.merge.on

(* An edit on its way to the manifest.                                     *)
Editing == bg.at \in {"log", "install"}
EditOK ==
  Editing =>
    /\ bg.edit.add0 \cup bg.edit.addLow \subseteq DOMAIN tables
    /\ Below(NextL0 \cup NextLow, bg.edit.next)
    /\ bg.edit.log < bg.edit.next /\ bg.edit.next <= vs.next
    /\ Man.next <= bg.edit.next
    /\ bg.edit.del = {} => /\ imm # 0 /\ bg.edit.log = mem
                           /\ bg.merge.on =>
                                bg.merge.out \notin bg.edit.add0 \cup bg.edit.addLow
    /\ bg.edit.del # {} => bg.edit.log = vs.log

(* Where the acknowledged operations are.                                  *)
InMemory ==
  \A a \in acked : \/ a \in excused
                   \/ InTables(a, tables, Version)
                   \/ InLog(a, logs, mem)
                   \/ imm # 0 /\ InLog(a, logs, imm)
EditKeeps ==
  Editing =>
    /\ \A t \in Version : \A e \in tables[t] :
         InTables(OpOf(e), tables, NextL0 \cup NextLow)
    /\ bg.edit.del = {} =>
         \A e \in logs[imm].good : InTables(OpOf(e), tables, NextL0 \cup NextLow)

(* A memtable holds what its log does, but for the group being written.    *)
LoggedOps == {op[writers_[i]] : i \in 1..group}
MemHolds ==
  /\ \A e \in logs[mem].good :
       \/ \E f \in memtabs[mem] : OpOf(f) = OpOf(e)
       \/ OpOf(e) \in LoggedOps /\ \E w \in Writers : wst[w] = "logged"
  /\ imm # 0 => \A e \in logs[imm].good : \E f \in memtabs[imm] : OpOf(f) = OpOf(e)
GroupOK ==
  (\E w \in Writers : wst[w] \in {"logged", "inserted"}) =>
    \A a \in LoggedOps : a \in excused \/ InLog(a, logs, mem)

Running == /\ VersionOK /\ MemsOK /\ ReadersOK /\ BuildOK /\ MergeOK /\ EditOK
           /\ InMemory /\ EditKeeps /\ MemHolds /\ GroupOK

Inv == /\ Forms /\ QueueOK /\ Quiet /\ SchedOK /\ DiskOK /\ StartOK
       /\ proc \in Stages /\ bg.at \in BgStages
       /\ proc = "replay" => Replaying
       /\ proc \in {"manifest", "install"} => Opening
       /\ proc = "up" => Running
=============================================================================
