---------------------------- MODULE RepRegistry ----------------------------
(***************************************************************************)
(* The master's register of slaves: the records of REPLICATION_INFO        *)
(* (GentFile<repinfo>), rep_map_ and rep_list_ of GentRepMgr, the command  *)
(* "slave name clear" (Logout, ClearRep), and what a restart of the master *)
(* makes of them.  The queues of a slave are lengths here: which keys they *)
(* hold, and how a command is exchanged, is the subject of Replication.    *)
(*                                                                         *)
(* The file is mapped shared, so it survives a crash of the process; the   *)
(* queues do not.  ser_time (last push) and rep_time (last acknowledged    *)
(* item) are stored to tell after a restart whether a slave needs a full   *)
(* synchronisation.  repinfo::set stores nine of the ten digits of a time. *)
(***************************************************************************)
EXTENDS Naturals, FiniteSets

CONSTANTS
  Names,        \* names of slaves
  SlaveNum,     \* SLAVE_NUM: records of the file
  SyncNum,      \* SYNC_NUM: items of a command
  Stored,       \* keys in the database, as far as full synchronisations count
  Grain,        \* seconds between two times with the same nine digits
  MaxClear,     \* bound: clear commands whose thread has not ended
  StartTime, MaxTime, \* bounds: the clock
  MaxQueue,     \* bound: items in main_que
  MaxRestart    \* bound: restarts

ASSUME SizeAssumption ==
  {SlaveNum, SyncNum, Grain} \subseteq Nat \ {0}
ASSUME TimeAssumption ==
  /\ {StartTime, MaxTime, MaxQueue, MaxRestart, MaxClear, Stored} \subseteq Nat
  /\ StartTime >= 2 * Grain /\ MaxTime >= StartTime
ASSUME NamesAssumption == "" \notin Names

VARIABLES
  now,          \* time(NULL)
  file,         \* the records, as the process holds them in memory
  disk,         \* the records, as they are in the mapped file
  rep_map_list_,\* records found at the start or added since, by name, or 0
  rep_list_,    \* the objects, by name, or NoObject
  online,       \* slaves with a connection: conn_ # NULL
  clearing,     \* objects being deleted by a ClearRep thread
  writing,      \* a worker is between the write to the database and Push
  restarts,     \* number of restarts
  behind,       \* history: slaves that miss an update and have it not queued
  complete,     \* history: slaves that were synchronised completely once
  cleared       \* history: names that were cleared

vars == <<now, file, disk, rep_map_list_, rep_list_, online,
          clearing, writing, restarts, behind, complete, cleared>>
-----------------------------------------------------------------------------
Records == 1 .. SlaveNum
Infos == [name : Names \cup {""}, available : BOOLEAN, ser : Nat, rep : Nat]
Objects ==
  [info : Records, is_update_que : BOOLEAN,
   que : Nat, main_que : Nat,      \* lengths
   sent : Nat]                     \* marked items at the head of the queue
NoObject == [info |-> 0]

TypeOK ==
  /\ now \in StartTime .. MaxTime
  /\ file \in [Records -> Infos]
  /\ disk \in [Records -> Infos]
  /\ rep_map_list_ \in [Names -> Records \cup {0}]
  /\ rep_list_ \in [Names -> Objects \cup {NoObject}]
  /\ online \subseteq {n \in Names : rep_list_[n] # NoObject}
  /\ clearing \subseteq Objects
  /\ writing \in BOOLEAN
  /\ restarts \in 0 .. MaxRestart
  /\ behind \subseteq Names /\ complete \subseteq Names
  /\ cleared \subseteq Names

Init ==
  /\ now = StartTime
  /\ file = [i \in Records |-> [name |-> "", available |-> FALSE,
                                ser |-> 0, rep |-> 0]]
  /\ disk = file
  /\ rep_map_list_ = [n \in Names |-> 0]
  /\ rep_list_ = [n \in Names |-> NoObject]
  /\ online = {}
  /\ clearing = {}
  /\ writing = FALSE
  /\ restarts = 0
  /\ behind = Names
  /\ complete = {}
  /\ cleared = {}
-----------------------------------------------------------------------------
(* repinfo::set(field, val) on a record in memory and on disk.  snprintf   *)
(* with a size of 10 leaves nine digits, which atoi reads back as a number *)
(* ten times smaller.                                                      *)
NineDigits(t) == t \div Grain
SetSer(f, i) == [f EXCEPT ![i].ser = now]
SetRep(f, i) == [f EXCEPT ![i].rep = now]
DiskSer(i) == [disk EXCEPT ![i].ser = NineDigits(now)]
DiskRep(i) == [disk EXCEPT ![i].rep = NineDigits(now)]

(* The constructor of GentReplication, given the record's contents.        *)
NeedsNewer(r) == r.ser > r.rep  \* a mutant: a new record is not recognised
NeedsAll(r) == r.ser = 0 \/ r.ser > r.rep
NewObject(i, r) ==
  [info |-> i, is_update_que |-> NeedsAll(r),
   que |-> IF NeedsAll(r) THEN Stored ELSE 0, main_que |-> 0, sent |-> 0]

(* Get finds the record that the name has or had in this process, through  *)
(* rep_map_ or AddItem; else AddItem takes the first that is free.         *)
FirstFree(i) ==
  /\ ~file[i].available
  /\ \A j \in Records : j < i => file[j].available
Fresh(n) == [name |-> n, available |-> TRUE, ser |-> 0, rep |-> 0]

RecordTaken(n, i) ==  \* a mutant: the first record, free or not
  IF rep_map_list_[n] # 0 THEN i = rep_map_list_[n] ELSE i = 1
RecordFor(n, i) ==
  IF rep_map_list_[n] # 0 THEN i = rep_map_list_[n] ELSE FirstFree(i)

(* Get for a slave that is not in rep_list_, and SetConn.                  *)
Register(n) ==
  \E i \in Records :
    LET r == IF rep_map_list_[n] # 0 THEN file[i] ELSE Fresh(n)
        d == IF rep_map_list_[n] # 0 THEN disk[i] ELSE Fresh(n)
        first == r.ser = 0
    IN  /\ rep_list_[n] = NoObject
        /\ RecordFor(n, i)
        /\ rep_map_list_' = [rep_map_list_ EXCEPT ![n] = i]
        /\ rep_list_' = [rep_list_ EXCEPT ![n] = NewObject(i, r)]
        /\ file' = [file EXCEPT ![i] = IF first THEN [r EXCEPT !.ser = now]
                                                ELSE r]
        /\ disk' = [disk EXCEPT ![i] =
                      IF first THEN [d EXCEPT !.ser = NineDigits(now)] ELSE d]
        /\ online' = online \cup {n}
        /\ behind' = IF NeedsAll(r) THEN behind \ {n} ELSE behind
        /\ UNCHANGED <<now, clearing, writing, restarts, complete, cleared>>

(* Get for a slave that is known, after a disconnection or a restart.      *)
Connect(n) ==
  /\ rep_list_[n] # NoObject
  /\ n \notin online
  /\ online' = online \cup {n}
  /\ UNCHANGED <<now, file, disk, rep_map_list_, rep_list_,
                 clearing, writing, restarts, behind, complete, cleared>>

Disconnect(n) ==
  /\ n \in online
  /\ online' = online \ {n}
  /\ UNCHANGED <<now, file, disk, rep_map_list_, rep_list_,
                 clearing, writing, restarts, behind, complete, cleared>>
-----------------------------------------------------------------------------
(* A client write: the database first, then Push for every object.         *)
Write ==
  /\ ~writing
  /\ \A n \in Names : rep_list_[n] # NoObject => rep_list_[n].main_que < MaxQueue
  /\ writing' = TRUE
  /\ UNCHANGED <<now, file, disk, rep_map_list_, rep_list_, online,
                 clearing, restarts, behind, complete, cleared>>

Push ==
  LET registered == {n \in Names : rep_list_[n] # NoObject}
      touched == {rep_list_[n].info : n \in registered}
  IN  /\ writing
      /\ writing' = FALSE
      /\ rep_list_' = [n \in Names |->
           IF n \in registered
             THEN [rep_list_[n] EXCEPT !.main_que = @ + 1] ELSE NoObject]
      /\ file' = [i \in Records |-> IF i \in touched THEN SetSer(file, i)[i]
                                                     ELSE file[i]]
      /\ disk' = [i \in Records |-> IF i \in touched THEN DiskSer(i)[i]
                                                     ELSE disk[i]]
      /\ behind' = behind \cup (Names \ registered)
      /\ UNCHANGED <<now, rep_map_list_, online, clearing, restarts,
                     complete, cleared>>

(* Start: front_nums_element chooses the queue, the full synchronisation   *)
(* ends when que is empty; a number of items is marked as sent.            *)
Current(o) == IF o.is_update_que THEN o.que ELSE o.main_que
Send(n) ==
  LET o == rep_list_[n]
      i == o.info
      ends == o.is_update_que /\ o.que = 0
      p == IF ends THEN [o EXCEPT !.is_update_que = FALSE] ELSE o
      first == ends /\ file[i].rep = 0
  IN  /\ n \in online
      /\ o.sent = 0
      /\ ends \/ Current(o) > 0
      /\ IF Current(p) = 0
           THEN rep_list_' = [rep_list_ EXCEPT ![n] = p]
           ELSE \E k \in 1 .. SyncNum :
                  /\ k <= Current(p)
                  /\ rep_list_' = [rep_list_ EXCEPT ![n] =
                                     [p EXCEPT !.sent = k]]
      /\ file' = IF first THEN SetRep(file, i) ELSE file
      /\ disk' = IF first THEN DiskRep(i) ELSE disk
      /\ complete' = IF ends THEN complete \cup {n} ELSE complete
      /\ UNCHANGED <<now, rep_map_list_, online, clearing, writing,
                     restarts, behind, cleared>>

(* Pop: the marked items of the current queue are deleted.                 *)
Popped(o) ==
  IF o.is_update_que
    THEN [o EXCEPT !.que = @ - o.sent, !.sent = 0]
    ELSE [o EXCEPT !.main_que = @ - o.sent, !.sent = 0]

PopSetsAlways(o) == TRUE  \* a mutant: rep_time is set for que as well
PopSetsRep(o) == ~o.is_update_que

Ack(n) ==
  LET o == rep_list_[n]
  IN  /\ n \in online
      /\ o.sent > 0
      /\ rep_list_' = [rep_list_ EXCEPT ![n] = Popped(o)]
      /\ file' = IF PopSetsRep(o) THEN SetRep(file, o.info) ELSE file
      /\ disk' = IF PopSetsRep(o) THEN DiskRep(o.info) ELSE disk
      /\ UNCHANGED <<now, rep_map_list_, online, clearing, writing,
                     restarts, behind, complete, cleared>>
-----------------------------------------------------------------------------
(* "slave name clear": Logout refuses a slave that is connected.           *)
Logout(n) ==
  LET o == rep_list_[n]
  IN  /\ Cardinality(clearing) < MaxClear
      /\ o # NoObject
      /\ n \notin online
      /\ file' = [file EXCEPT ![o.info].available = FALSE]
      /\ disk' = [disk EXCEPT ![o.info].available = FALSE]
      /\ clearing' = clearing \cup {o}
      /\ rep_list_' = [rep_list_ EXCEPT ![n] = NoObject]
      /\ cleared' = cleared \cup {n}
      /\ behind' = IF o.que + o.main_que > 0 THEN behind \cup {n}
                                             ELSE behind
      /\ UNCHANGED <<now, rep_map_list_, online, writing, restarts,
                     complete>>

(* The destructor calls Pop until main_que_length is 0.  Pop deletes items *)
(* that are marked as sent, and nothing marks the others any more.         *)
ClearRep(o) ==
  /\ o \in clearing
  /\ clearing' = IF o.que + o.main_que = 0 THEN clearing \ {o}
                 ELSE (clearing \ {o}) \cup {Popped(o)}
  /\ UNCHANGED <<now, file, disk, rep_map_list_, rep_list_, online,
                 writing, restarts, behind, complete, cleared>>

Tick ==
  /\ now < MaxTime
  /\ now' = now + 1
  /\ UNCHANGED <<file, disk, rep_map_list_, rep_list_, online,
                 clearing, writing, restarts, behind, complete, cleared>>

(* The process ends, in whatever state, and starts again: GentFile::Init   *)
(* reads the records, a later one of the same name replacing an earlier,   *)
(* and GentRepMgr::Init constructs the objects.  A rep_time of ten zeros   *)
(* is read without a terminator, so one more digit may be taken for it.    *)
LoadedFree(n, i) == ~disk[i].available /\ disk[i].name = n  \* a mutant
LoadedNames(n, i) == disk[i].available /\ disk[i].name = n
Reread(r, digit) == IF r.rep = 0 /\ r.available THEN [r EXCEPT !.rep = digit]
                                                ELSE r
Restart ==
  \E digit \in {0, 1} :
  LET loaded == {n \in Names : \E i \in Records : LoadedNames(n, i)}
      at == [n \in Names |->
               IF n \in loaded
                 THEN CHOOSE i \in Records :
                        /\ LoadedNames(n, i)
                        /\ \A j \in Records : LoadedNames(n, j) => j <= i
                 ELSE 0]
      read == [i \in Records |-> Reread(disk[i], digit)]
      all == {n \in loaded : NeedsAll(read[at[n]])}
      first == {at[n] : n \in {m \in all : read[at[m]].ser = 0}}
      queued == {n \in Names : /\ rep_list_[n] # NoObject
                               /\ rep_list_[n].que + rep_list_[n].main_que > 0}
  IN  /\ restarts < MaxRestart
      /\ restarts' = restarts + 1
      /\ disk' = [i \in Records |-> IF i \in first THEN DiskSer(i)[i]
                                                   ELSE disk[i]]
      /\ file' = [i \in Records |-> IF i \in first THEN SetSer(read, i)[i]
                                                   ELSE read[i]]
      /\ rep_map_list_' = at
      /\ rep_list_' = [n \in Names |->
           IF n \in loaded THEN NewObject(at[n], read[at[n]]) ELSE NoObject]
      /\ online' = {}
      /\ clearing' = {}
      /\ writing' = FALSE
      /\ behind' = (behind \cup queued \cup (IF writing THEN Names ELSE {}))
                     \ all
      /\ UNCHANGED <<now, complete, cleared>>

Next ==
  \/ \E n \in Names : \/ Register(n) \/ Connect(n) \/ Disconnect(n)
                      \/ Send(n) \/ Ack(n) \/ Logout(n)
  \/ Write \/ Push \/ Tick \/ Restart
  \/ \E o \in clearing : ClearRep(o)

Spec == Init /\ [][Next]_vars
-----------------------------------------------------------------------------
(* No two records in use carry the same name: a slave has one record, also *)
(* after clears, restarts and a full file.  rep_map_list_ never forgets a  *)
(* name within a process, and at a restart it is read from the records.    *)
OneRecordPerName ==
  \A i, j \in Records :
    disk[i].available /\ disk[j].available /\ disk[i].name = disk[j].name
      => i = j

(* Two slaves write their times to the same record only when a slave was   *)
(* cleared whose name still leads to it: Logout has marked the record free *)
(* for AddItem, and the cleared slave may come back to it.                 *)
Share(m, n) ==
  /\ m # n
  /\ rep_list_[m] # NoObject /\ rep_list_[n] # NoObject
  /\ rep_list_[m].info = rep_list_[n].info
SharedNeedsClear ==
  \A m, n \in Names :
    Share(m, n) => \E k \in cleared : rep_map_list_[k] = rep_list_[m].info

(* A restart in the middle of the first full synchronisation of a slave    *)
(* begins it again: until the first synchronisation is complete, rep_time  *)
(* is 0 and ser_time is not.                                               *)
FirstSyncResumes ==
  cleared = {} =>
    \A n \in Names :
      rep_list_[n] # NoObject /\ n \notin complete =>
        LET r == disk[rep_list_[n].info] IN NeedsAll(r)

(* A slave that is known has every update, or has it in its queue, unless  *)
(* the process was restarted or the slave was cleared.  Only then do       *)
(* ser_time and rep_time decide, and "not need to sync all data" may be    *)
(* wrong: a write stored but not pushed, or a push within the same nine    *)
(* digits as the last acknowledgement, leaves no trace in them.            *)
GapNeedsRestart ==
  \A n \in Names : rep_list_[n] # NoObject /\ n \in behind =>
    restarts > 0 \/ n \in cleared
=============================================================================
