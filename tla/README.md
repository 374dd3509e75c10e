# Riser: a verification development

TLA+ models of riser, a network server for leveldb with the redis protocol and
master/slave replication. TLC checks the models on small instances; TLAPS
proves the central invariants for every value of the constants. `PROJECT.json`
lists the runs, the source lines each definition stands for, the hazards of the
code and the theorems.

## The system

| part | source | state | operations | interacts with |
|---|---|---|---|---|
| thread queue | `gent_msg.h` | ring, `size_`, `start_`, two condition variables | `Push`, `Pop` | every pair of threads that exchange pointers |
| hand-over | `gent_thread.cpp` | a pipe per thread | `SendThread`, `SendMasterMsg`, `Handle`, `MasterHandle` | main thread to workers, workers to the master thread |
| replication | `gent_repl.cpp`, `gent_redis.cpp`, `gent_connect.cpp`, `gent_queue_list.h` | two queues of keys per slave, `status`, `conn_`, connection status, the slave's state machine | `Push`, `Pop`, `Start`, `Get`, commands rep and reply, `Slave` | workers, master thread, slave's timer and event threads, TCP |
| register of slaves | `gent_file.h`, `gent_repl.h` | the mapped file REPLICATION_INFO: name, `ser_time`, `rep_time` | `AddItem`, `set`, `Logout`, `ClearRep`, restart | replication objects, clients (slave name clear) |
| store | `gent_db.cpp` | two leveldb databases, `key_num`, file NUMBER, `clear_lock` | `Put`, `BatchPut`, `Del`, `Count`, `ClearExpireKey` | workers, clear thread |
| connection pool | `gent_app_mgr.cpp`, `gent_connect.cpp`, `gent_event.cpp` | `conn_mgr`, `free_conn_mgr`, `plus_mgr`, the kernel's descriptors | `GetConnect`, `RetConnect`, `Destruct`, `HandleMain` | main thread, workers |
| protocol | `gent_redis.cpp`, `gent_redis.h` | position in an mset | `Parser`, `ContinueParser`, `Complete` | connections |
| connection | `gent_connect.cpp` | `curstatus`, read and write buffers | `TryRunning` | event loop, protocol |
| event loops | `gent_event.cpp`, `gent_thread.cpp`, `gent_repl.cpp`; `event.c`, `evmap.c`, `epoll.c` of libevent | an event base per thread, an event in every connection, the epoll sets | `AddEvent`, `UpdateEvent`, `AddTimeEvent`, `Handle`, `SlaveHandle`, `event_base_loop` | workers, slave's thread, kernel |
| leveldb | `pack/leveldb/db`, `env_posix.cc` | memtables, logs, tables, MANIFEST, CURRENT, levels | `Write`, `Get`, background compaction, `LogAndApply`, `DeleteObsoleteFiles`, recovery | the store's threads, the background thread, file system |
| bloom filter | `gent_list.cpp` | bit tables | `Set`, `Get`, `Del` | nobody: all calls are commented out |
| start-up, configuration, logging, memcache protocol, riser-cli | `gent_frame.cpp`, `gent_config.cpp`, `gent_level.cpp`, `riser-cli.cpp` ... | - | - | - |

What makes the code hard: queues, database and connection status are shared by
threads that hold no common lock; the master thread is woken by two kinds of
events and cannot tell them apart; a client command is a write and a push; a
value and its expiry are two writes; a descriptor number outlives its
connection; the queues die with the process, the register does not. leveldb
answers several writers with one append, replaces files while they are read, and
must be able to die between any two calls.

## Modules

| module | models | state and actions |
|---|---|---|
| `MsgFifo` | what a queue promises | a bounded sequence; calls begin and take effect |
| `GentMsg` | `gent_msg.h` | the variables are the members; a call is one step per critical section (`PushWait`, `Push`, `PopWait`, `Pop`), spurious wake-ups included |
| `MsgPipe` | `GentMsg` with the pipe of `gent_thread.cpp` | composes the ring with bytes and senders between `Push` and `write` |
| `GentMsgProofs` | proofs about both | refinement of `MsgFifo` included |
| `Replication` | one slave and its master | workers (`Set`, `Setex`, `Mset`, `DelLookup`, `DelExecute`, `PushKey`), master thread (`MasterHandle`, `StartReply`, `StartData`, `FrontNums`, `StartItem`, `MasterFinish`), the connection's worker (`RepParser`, `RepComplete`, `RepCreate`, `RepPublish`, `MasterDestruct`), the slave's timer (`SlaveLink`, `SlaveAsk`, `SlaveTimeout`) and its event thread (`SlaveExecute`, `SlaveReplyCommand`, `SlaveWrite`, `SlaveDestruct`), TCP (`Break`) |
| `ReplicationProofs` | proofs about it | |
| `RepRegistry` | REPLICATION_INFO and the decision to synchronise | `Register`, `Write`, `Push`, `Send`, `Ack`, `Logout`, `ClearRep`, `Restart` |
| `RepRegistryProofs` | proofs about it | |
| `GentDb` | the store | every call to leveldb is a step: `BeginPut`, `PutDb`, `PutNum`, `PutMeta`, ... |
| `GentDbProofs` | proofs about it | |
| `ConnPool` | pool, commands and descriptors | `Accept`, `SendThread`, `GetConnect`, `Destruct` in its two halves, `RetConnect` |
| `ConnPoolProofs` | proofs about it | |
| `RedisParser` | `Split`, `ItemParser` and `mset_data` | pure operators on sequences of symbols; positions as in the code |
| `Connect` | a client's connection from bytes to effect | one action per case of `TryRunning` (`ReadCase`, `NReadCase`, `ConReadCase`, `DataCase`, `WriteCase`, `WaitCase`, `CloseCase`), the event loop (`Handle`), the client (`Ask`, `Close`) |
| `EventLoop` | libevent as riser uses it, on the bases of a worker and of the slave | `lib` holds events, queues, reader and writer counts and epoll sets, changed by operators named after libevent's functions; one action per turn of the loop (`Dispatch`) and per outcome of a callback (`ThreadHandle`, `HandleRuns`, `HandleEnds`, `SlaveWaits`, `SlaveNoLink`, `SlaveAuthFails`, `SlaveLinks`, `SlaveAsks`), new descriptors (`NewSocket`) |
| `LevelDb` | files, memtables and threads of leveldb | writers (`JoinQueue`, `SwitchMemTable`, `AddRecord`, `InsertInto`, `FinishWrite`), background thread (`CompactMemTable`, `BuildTable`, `PickCompaction`, ...), recovery (`RecoverLogFile`, `NewManifest`, `SetCurrentFile`, ...), readers, failing calls, `Crash` |
| `Levels` | keys, levels, snapshots, `Get` and scans | flush, move, merge with dropped entries |
| `LogFormat` | `log::Writer`, `log::Reader`, `PosixMmapFile` | records cut into fragments, failing appends |
| `LevelDbInv`, `LevelDbSteps`, `LevelDbSequence`, `LevelDbProofs` | proofs about `LevelDb` | the inductive invariant; the steps that preserve it; a second invariant, of sequence numbers and snapshots, and its steps; theorems |
| `MC...` | instances for TLC | |

`Levels` and `LogFormat` justify what `LevelDb` takes for granted: that a table is
the set of its entries, and a log the records that were written completely.

### What is abstracted

- **Data.** A replicated value is a version number, a stored value is the expiry
  it was written with, a pointer in a queue is a model value. Commands from
  master to slave are `put` (mset, set, setex), `del`, and the replies.
- **`master_msg_`** in `Replication` is a count. All its entries are the same
  object, and `ImplementsFifo` shows that a queue is a FIFO.
- **Step size.** What happens under one lock, or touches no shared state, is
  one step. In `GentDb`, taking `clear_lock` is joined with the first read
  under it, and a deletion with the look at `key_num` that follows.
- **TCP** delivers in order, or breaks and loses what is under way. Several
  messages may be read at once: the first is executed, the rest dropped, as
  `TryRunning` does. A command split over two reads is the subject of `Connect`.
- **Bytes** in `Connect` are symbols: a line end is two, a number or the name of
  a command one (cutting inside it has the effect of cutting before it). A read
  takes any part of what was sent, so delivery is no step of its own. The client
  waits for each answer and asks no more after a refusal. No auth is configured,
  keys have less than 250 bytes, and an mset has at most four pairs, so that the
  number of fields has one digit. With two digits, a lone line feed before the
  command makes the parser take the second digit for the number.
- **Undefined behaviour.** `is_update_que` of an object that needs no full
  synchronisation and the array without terminator in `repinfo::init` take any
  value. `conn_` after start-up is taken to be NULL.
- **Left out of `Replication`**: chained slaves, `slave_sync_all=false`, two
  simultaneous registrations of one name, and expiry on the slave itself.
- **Left out of `ConnPool`**: the connection a slave makes to its master; it is
  in `EventLoop`.
- **`EventLoop`** treats a callback as one step, since its two threads touch only
  their own base; the steps of closing are apart in `ConnPool`. What `TryRunning`
  does is any change of the watched direction, or the end. What is ready is chosen
  when `epoll_wait` looks at it, since a peer may send, read or hang up at any
  time; a hang-up counts as readable and writable, which is how `epoll_dispatch`
  reports it. The timer may be due at any turn. The first send on a new connection
  is never refused for want of room. The master thread's `UpdateEvent` on a
  worker's base is left out.
- **`LevelDb`** has entries of sequence number and operation; a crash is one of
  the process, so what was written is in the file.

### History variables

`faults` in `Replication` records what has gone wrong: a push missed by a
registration, a stray wake-up, a timeout, a break, a failed write, a del crossed by
a set. `LossNeedsFault` says that without them nothing is lost. `cut` in `Connect`
records reads that end inside a header or a line end. In the same way `torn`,
`raced` and `crossed` in `GentDb` name the conditions under which the store may
become inconsistent, `excused` in `LevelDb` the writes behind a failed append,
`parted` in `Levels` the keys whose entries were separated. Such a property says
which races or faults are the only ones.

## Runs

| run | instance | checks |
|---|---|---|
| `pipe` | 3 senders, 2 handlers, 2 slots | no lost wake-up, refinement of `MsgFifo`, pipe and ring agree, every entry is handled |
| `repl_writes` | 2 workers, 1 key with expiry and del, auth | sent items first, batch stays the head, loss needs a fault |
| `repl_reconnect` | 2 keys, 2 connections that may break, auth, failing writes | loss needs a fault, and the slave never goes back to an older value |
| `repl_live` | 2 keys, auth, timer | the queue drains |
| `repl_stray` | 2 keys, no fault injected | **violated**: an update is lost by a stray wake-up |
| `registry` | 2 names, 2 records, clear, restart | one record per name, sharing a record needs a cleared name that leads to it, first synchronisation resumes, a gap needs a restart or a clear |
| `store` | 2 workers, clear thread, 1 key, failures, restart | expiry belongs to its value, orphans need a race, a wrapped counter a crossing, clearing spares live keys |
| `connection` | 2 commands out of ping, two sets and an mset, cut into reads in every way; failing writes, partial sends, close. Separately: 2 objects and 2 sockets on 2 bases, one failing `epoll_ctl` | OK means stored as sent, one answer each, refusal needs a cut, no stall. Connections in use are watched, the link too unless a call failed, nothing is left of those that ended, the loops never end |
| `pool` | 5 connections, 3 descriptors, 2 workers | counts, registrations, own command, missing entry needs reuse |
| `ldb` | 2 writers, 1 reader, 3 operations, 1 crash, 1 failing call | acknowledged writes recoverable, files in use there, reads see their snapshot, sequence numbers unique, nobody forgotten |
| `levels` | 2 keys, 3 levels, 4 writes, 1 deletion, 1 snapshot | levels disjoint, newer entries first, `Get` and scan exact |
| `log` | 4 records of up to 6 cells, blocks of 7, 2 failing appends | a crash keeps the complete records, failures invent nothing |

The type invariants of `GentMsg`, `Replication`, `RepRegistry`, `GentDb` and
`ConnPool` are proved. `TypeOK` of `LevelDb` is not: its proofs use `Forms` of
`LevelDbInv` in its place. It holds on the instance of its run, as do those of
`MsgPipe`, `Connect`, `EventLoop`, `Levels` and `LogFormat` on theirs; no run repeats
them.

The run `connection` checks two independent models side by side: the variable
`part` of `MCConnect` says which of the two moves.

## Where code and text disagree

- `repl_stray` is violated and is the finding in `PROJECT.json`.
- `gent_repl.cpp` may decide "not need to sync all data" for a slave that misses
  updates. `GapNeedsRestart` says when: after a restart or a clear.
- `RetConnect` ends the process with "link fd:%d not find" when the descriptor was
  given out again. `MissNeedsReuse` says that this is the only way.
- `version_set.cc:311` says "entries never hop across levels". But a merge
  may close an output between two entries of one key, the older of which a snapshot
  still needs. A later compaction of that level may take only the table with the
  newer entry: it goes down, or, if it is a deletion, is dropped, and the older one
  stays. The history variable `parted` of `Levels` holds the keys to which this
  happened; `NewerFirst` and `GetExact` are about all others, `ScanExact` about
  databases without such keys.
- `options.h:178` and `doc/index.html:118` say that a crash of the process alone
  loses no write. `log_writer.cc:98` advances `block_offset_` after a failed append,
  so records acknowledged later may be unreadable; `Durable` excuses exactly those,
  and logs whose failing replay was masked (`db_impl.cc:330`).

**Bounds.** Every bound is a constant named `Max...`. There are more threads than
slots in the queue, so that threads sleep and overtake each other. Two keys and
`SYNC_NUM` 2 give full, partial and repeated batches; one key with two workers gives
every crossing of set, del and expiry. Two connections give one reconnection, with
the old connection still being destructed. The slave's timer fires once while
messages are under way, a late answer, and otherwise when nothing is. Two records and
two names fill the register. One key with failures covers the store, whose keys only
meet in `key_num` and in an mset; an mset of several keys that is interrupted is not
in this instance. Three descriptors with two workers let a number be reused while its
former owner is being returned. Two commands let what the first leaves in the socket
meet the second; their values contain line ends or are empty. Two objects and two
sockets let an object and a number pass from one base to the other; an array of one
entry for `epoll_wait` leaves ready descriptors for the next turn and is doubled
once. In `ldb` a memtable is full after one write, so that every later write needs
the background thread, and two tables of level 0 start a merge and stop the writers.
Blocks of little more than two headers make most records of `log` span several.

`CHECK_DEADLOCK` is off where a bound, or clients without work, bring the system
to rest.

**Fairness.** `FairPipeSpec` and `FairSpec` of `Replication` assume that the
operating system schedules every thread, that libevent calls handlers of readable
descriptors, and that the slave's timer ticks. `RepComplete` has strong fairness:
the master thread may overwrite `curstatus` between a worker's parsing and its
completing, but not at every message. Clients, breaks and failing writes have
none.

That a client's command is answered is stated without fairness, as the invariant
`NoStall`: a connection that waits for bytes owes no answer. A thread whose sends
fail for good repeats `WriteCase` without end, as the code does.

`QueueDrains` is checked without del and setex. With them, a `del` that is read
together with another command is refused as unknown, and the two sides answer
each other's error messages for ever. It has one exception, `AuthLost`: a slave
whose answer to auth was sent twice and read at once waits for ever, because its
timer is off until the first data request.

## Proofs

Each proof of an invariant rests on an inductive one that TLC checked first, on the
instance of the run and where possible on a larger one. There is one lemma per
action, or one that says what the action does and one per group of conjuncts it may
disturb, and frame lemmas for what it leaves alone.

`GentMsgProofs` (any finite sets of threads, any capacity):
`TypeCorrect`, `WakeupsNotLost`, `PipeAnnouncesRing`, `HandlersNeverBlock`,
`RefinesFifo`, `PipeRefinesFifo`.
`NoLostWakeup` is inductive together with `TypeOK`: a signal wakes a sleeper, who
then counts among those awake, and every value taken is matched by the consumer
that leaves. `PipeMatchesRing` is inductive and implies `HandlerNeverBlocks`.
For the refinement, `Contents` reads the ring from `start_`: `Push` appends to it,
`Pop` takes its head, because no two of the first `size_` offsets meet modulo the
capacity, and waiting and waking leave it as it is.

`ReplicationProofs` (any keys, workers, `SYNC_NUM` and bounds): `ReplTypeCorrect`,
`SentComeFirst`, `BatchIsHead`, `SlaveNeverGoesBack`, `LossOnlyAfterFault`. The first
three rest on `TypeOK /\ SyncPrefix /\ BatchStays /\ Unpublished`. `BatchStays` needs
`SyncPrefix`-preserving marks and the fact that only the master thread pops;
`Unpublished` says that before the object is in `rep_list_` the master thread is not
inside `Start`, so that the constructor's snapshot replaces no queue in use. Most
actions leave the queues alone and share the lemma `QueuesUntouched`.
`SlaveNeverGoesBack` adds `Ordered`: what is under way to the slave was read from the
master's database in the order in which it will arrive, so that its versions do not
fall from the slave's value to the master's.

`LossOnlyAfterFault` (`LossNeedsFault`) needs more than that a key on which the
databases differ is queued or on its way, since `Pop` may delete a queued item that
is marked. `LossInv` says, while `faults` is empty: master and slave take turns, so
that an "ok" acknowledges the command that carries the marked items and no other
(`Protocol`, one case per stage of the exchange); a key is still to be sent, or the
slave has the master's value once it has executed what is on its way (`Covered`); the
marked items are those of that command, and at most `SYNC_NUM`, so that `Pop` deletes
all of them (`Marked`); a queued DEL whose key was written again is followed by the
ADD of that write (`Deletions`). The lemma `LossKept` goes through the steps: each
action has a step that says whose turn it is afterwards, and one for the other three.

`RepRegistryProofs` (any names, records, times, clears and restarts):
`RegistryInvariance`, `OneRecordAlways`, `SharingNeedsClear`,
`FirstSyncAlwaysResumes`, `GapAlwaysNeedsRestart`. `RegistryInv` ties four places
together that the code updates one by one: the map of names, the records in memory,
those in the file and the objects of the slaves (`ObjectMap`, `MapKnows`, `Taken`,
`Known`). `FirstSync` says what the two times in the file are until the first
synchronisation is complete; `SentFits`, that no more is acknowledged than is queued.

`GentDbProofs` (any workers, keys, failing calls, clearings and restarts):
`StoreInvariance`, `ExpiryAlwaysOwn`, `OrphanAlwaysNeedsRace`,
`WrapAlwaysNeedsCrossing`, `ClearAlwaysSparesLive`. `StoreInv` has three parts.
`BaseInv`: types, what a thread may be doing, and that `clear_lock` has one holder.
`DataInv`: a key between its two writes is known by the thread that is there; the
value of half a put is the one being put or was deleted since (`HalfValue`); a key
that is not half put has its own expiry (`Own`); apart from raced keys half a put
leaves a value, half a deletion none (`HalfSeen`), and a key that is neither is in
both databases or in none (`Synced`); the snapshot of the clear thread stays true of
the values that are there, since nobody puts meanwhile (`Snapshot`). `NumInv`: what
is still to be added to `key_num` fits, and unless deletions crossed, a thread about
to count down is alone and finds a positive number. `ClearSparesLive` is an action
property and follows from `Snapshot`.

`ConnPoolProofs` (any objects, descriptors and workers): `PoolTypeCorrect`,
`PoolCountsAddUp`, `NoDanglingConnect`, `CommandIsOwn`, `ExitNeedsReuse`. `PoolInv`
adds to the properties that an object in use owns its descriptor until it is closed
(`OwnFd`) and that the free list and the objects in use are apart (`FreeList`).

`LevelDbProofs` (any writers, readers, buffer size, triggers and numbers of crashes
and failing calls): `DurableAlways`, `FilesThereAlways`, `NobodyForgottenAlways`,
`SequenceUniqueAlways`, `SnapshotExactAlways`. `Durable` is not inductive: it speaks
of the files recovery reads, and says nothing of a memtable that is about to replace
one, of an edit that is written but not installed, or of a file nobody refers to yet.
`Inv` of `LevelDbInv` adds, for each stage of the process, what ties these together:
every acknowledged operation is in a table of the version or in the log of a memtable
(`InMemory`), an edit keeps that true (`EditKeeps`), the manifest agrees with the
version or with the edit under way (`VersionOK`), file numbers in use are below the
next one, only the head of the queue is awake (`QueueOK`) and the background thread
is scheduled whenever it has work, and not without reason (`SchedOK`). `LevelDbSteps`
has the lemmas of the steps.

The last two theorems rest on a second invariant, `SeqInv` of `LevelDbSequence`,
which holds because `Inv` does. That the stored entries have different numbers is
not inductive: a crash forgets `LastSequence`, and recovery reads it from the
manifest and raises it to what it finds in the logs. `SeqInv` therefore bounds the
numbers in each place they survive in: in the tables of the manifest by the number
it records, in logs already replayed by the highest seen (`DiskSeq`, `ReplaySeq`,
`OpenSeq`), in version, memtables and logs of the running database by `LastSequence`,
except for the group being written (`Numbered`). `StoredIs` says that version and
memtables together hold what was stored, `EditSeq` that an edit changes where
entries are and not which. A flush, merge or move then keeps `SnapshotExact`, since
a reader's files and memtables are never changed below its snapshot (`ReaderSeq`).

The assumptions are the named `ASSUME`s of the component modules, which TLC
evaluates in every run.

Only model-checked: the properties of `EventLoop` (`Watched`, `NothingLeft`,
`LoopsStay`), whose inductive invariant has not been worked out; those of `Connect`,
`Levels` and `LogFormat`, whose parsers, merges and readers are recursive and need
induction over data, which is out of the prover's reach. So is liveness under
fairness (`SentIsHandled`, `QueueDrains`).

## Not modelled

Of riser: `gent_level.cpp` (not installed as a handler), the bloom filter (never
called), `riser-cli.cpp`, configuration, logging and start-up.

Most of the repository is bundled libraries under `src/pack`, and the map covers a
small part of all its lines, about 7 in 100, though most of riser's own threads and
state. Of libevent, riser uses the core of three files; `http.c`, `evdns.c`,
`evrpc.c`, the bufferevents, the other backends and the tests are never called.
hiredis and linenoise belong to the command line client. Of leveldb, tables, blocks,
caches, filters, encodings, the memtable's skip list and the benchmarks are not
modelled: `Levels` and `LevelDb` treat a table as the set of its entries. They could
be modelled as algorithms of their own.

The thread that clears a slave's queue (`ClearRep`) is modelled, and does not end
when the queue holds items that were not sent; no run states that it should. Two
data races on `std::map` (`rep_list_` in `Logout`, `plus_mgr` in `Destroy`) have no
outcome a model could relate to a property; they are listed as hazards. So are the
master thread's unlocked `UpdateEvent`, and `conn_`, which the constructors leave
uninitialized.

## Plan

1. Done: thread queue and pipe, replication, register, store, pool, connection
   with the parsers of set and mset, event loops; files, levels and logs of leveldb.
2. The other commands from bytes to effect (get, mget, setex, del, auth), an mset
   of several keys interrupted in the store; blocks, table cache and skip list of
   leveldb; the bloom filter as a pure algorithm.
3. Proofs: `Watched` and `NothingLeft` of `EventLoop`.
