----------------------------- MODULE EventLoop -----------------------------
(***************************************************************************)
(* The event loops of libevent as riser uses them: a worker's base, which  *)
(* watches the pipe and the connections of clients, and the base of the    *)
(* slave, which watches a timer and the connection to the master.  The two *)
(* share the descriptors of the process and the pool of connection         *)
(* objects, each with its struct event.  These two threads touch their own *)
(* base only, so a callback is one step (ConnPool has the steps of closing *)
(* apart).  The master thread, whose OutString may call UpdateEvent on a   *)
(* worker's base without a lock, is not part of this module.  All events   *)
(* are persistent; there are no signals, priorities or locks of libevent,  *)
(* and epoll runs without a changelist.                                    *)
(***************************************************************************)
EXTENDS Naturals, Sequences, FiniteSets
LOCAL INSTANCE SequencesExt

CONSTANTS
  Connects,        \* connection objects (bound)
  Sockets,         \* descriptors of sockets (bound)
  PipeFd, NoSocket, NoConnect,
  PipeEv, TimerEv, \* THREADINFO::event and GentEvent::ev_
  INITIAL_NEVENT, MAX_NEVENT,
  MaxFaults        \* bound: calls of epoll_ctl that fail

ASSUME EventLoopAssumption ==
  /\ Cardinality(Sockets) <= Cardinality(Connects)
  /\ PipeFd \notin Sockets /\ NoSocket \notin Sockets \cup {PipeFd}
  /\ NoConnect \notin Connects /\ PipeEv \notin Connects /\ TimerEv \notin Connects \cup {PipeEv}
  /\ INITIAL_NEVENT \in Nat \ {0} /\ MAX_NEVENT \in Nat /\ MaxFaults \in Nat

Bases == {"worker", "slave"}
Events == Connects \cup {PipeEv, TimerEv}
Watchable == Sockets \cup {PipeFd}
IO == {"R", "W"}

VARIABLES
  lib,     \* the bases, the events and the kernel's epoll sets
  at,      \* where each loop stands: "wait", "run" or "left"
  opened,  \* descriptors that are open
  handed,  \* descriptors on their way to the worker, a byte in the pipe each
  obj,     \* GentConnect: fd, ev_flags, and who has it
  link,    \* GentRepMgr::conn_ of the slave
  status,  \* GentRepMgr::status
  timed,   \* slave_send_time > 0
  faults

loopVars == <<lib, at, opened, handed, obj, link, status, timed, faults>>
-----------------------------------------------------------------------------
(* event_queue_insert and event_queue_remove: an event that is, or is not, *)
(* on the queue already ends the process (event_errx).                     *)
event_queue_insert(L, e, q) ==
  LET b == L.ev[e].base
  IN  IF q \in L.ev[e].flags
        THEN [L EXCEPT !.errx = @ \/ q # "ACTIVE"]
        ELSE [L EXCEPT !.ev[e].flags = @ \cup {q}, !.count[b] = @ + 1,
                       !.activeq[b] = IF q = "ACTIVE" THEN Append(@, e) ELSE @]

event_queue_remove(L, e, q) ==
  LET b == L.ev[e].base
  IN  IF q \notin L.ev[e].flags
        THEN [L EXCEPT !.errx = TRUE]
        ELSE [L EXCEPT !.ev[e].flags = @ \ {q}, !.count[b] = @ - 1,
                       !.activeq[b] = IF q = "ACTIVE" THEN Remove(@, e) ELSE @]

(* evmap counts the readers and writers of a descriptor and calls epoll    *)
(* when a count leaves or reaches 0.                                       *)
Wanted(L, b, f) == {i \in IO : L.io[b][f][i] > 0}

(* epoll_apply_one_change: ADD and MOD are retried as each other, so what  *)
(* is wanted gets registered whatever was; a DEL of what is gone is fine.  *)
epoll_ctl(L, b, f, want, O, ok) ==
  IF f \in O /\ ok
    THEN [ok |-> TRUE, L |-> [L EXCEPT !.epoll[b][f] = want]]
    ELSE [ok |-> f \notin O /\ want = {}, L |-> L]

evmap_io_add(L, e, O, ok) ==
  LET b == L.ev[e].base
      f == L.ev[e].fd
      new == {i \in L.ev[e].events : L.io[b][f][i] = 0}
      r == IF new = {} THEN [ok |-> TRUE, L |-> L]
           ELSE epoll_ctl(L, b, f, Wanted(L, b, f) \cup new, O, ok)
  IN  IF ~r.ok THEN r
      ELSE [ok |-> TRUE,
            L |-> [r.L EXCEPT
                     !.io[b][f] = [i \in IO |-> IF i \in L.ev[e].events THEN @[i] + 1 ELSE @[i]],
                     !.on[b][f] = Append(@, e)]]

evmap_io_del(L, e, O) ==
  LET b == L.ev[e].base
      f == L.ev[e].fd
      old == {i \in L.ev[e].events : L.io[b][f][i] = 1}
      r == IF old = {} THEN [ok |-> TRUE, L |-> L]
           ELSE epoll_ctl(L, b, f, Wanted(L, b, f) \ old, O, TRUE)
  IN  IF \E i \in L.ev[e].events : L.io[b][f][i] = 0
        THEN [ok |-> FALSE, L |-> [L EXCEPT !.errx = TRUE]]
      ELSE IF ~r.ok THEN r
      ELSE [ok |-> TRUE,
            L |-> [r.L EXCEPT
                     !.io[b][f] = [i \in IO |-> IF i \in L.ev[e].events THEN @[i] - 1 ELSE @[i]],
                     !.on[b][f] = Remove(@, e)]]

(* event_set and event_base_set: the fields are overwritten, whatever      *)
(* queue the event is on.                                                  *)
event_set(L, e, b, f, events) ==
  [L EXCEPT !.ev[e] = [base |-> b, fd |-> f, events |-> events, flags |-> {}]]

(* event_add_internal for a descriptor.                                    *)
event_add(L, e, O, ok) ==
  IF L.ev[e].flags \cap {"INSERTED", "ACTIVE"} # {}
    THEN [ok |-> TRUE, L |-> L]
    ELSE LET r == evmap_io_add(L, e, O, ok)
         IN  IF r.ok THEN [ok |-> TRUE, L |-> event_queue_insert(r.L, e, "INSERTED")]
             ELSE r

(* event_add_internal for a timeout: one that is scheduled, or active      *)
(* because of an earlier timeout, is scheduled anew.                       *)
AddTimeout(L, e) ==
  LET L1 == IF "TIMEOUT" \in L.ev[e].flags THEN event_queue_remove(L, e, "TIMEOUT") ELSE L
      L2 == IF "ACTIVE" \in L.ev[e].flags THEN event_queue_remove(L1, e, "ACTIVE") ELSE L1
  IN  event_queue_insert(L2, e, "TIMEOUT")

event_del(L, e, O) ==
  LET off(M, q) == IF q \in M.ev[e].flags THEN event_queue_remove(M, e, q) ELSE M
      M1 == off(off(off(L, "TIMEOUT"), "ACTIVE"), "INSERTED")
  IN  IF "INSERTED" \in L.ev[e].flags THEN evmap_io_del(M1, e, O)
      ELSE [ok |-> TRUE, L |-> M1]

(* evmap_io_active and event_active_nolock.                                *)
evmap_io_active(L, b, f, got) ==
  FoldLeft(LAMBDA M, e : IF M.ev[e].events \cap got # {}
                           THEN event_queue_insert(M, e, "ACTIVE") ELSE M,
           L, L.on[b][f])
-----------------------------------------------------------------------------
(* epoll_wait: what it may have to report on base b.  The peer of a socket *)
(* may send, read or hang up at any time, and a hang-up is reported as     *)
(* both; the pipe is readable while it holds a byte.                       *)
Pollable(b) ==
  {got \in [Watchable -> SUBSET IO] :
     /\ \A f \in Watchable : got[f] \subseteq lib.epoll[b][f]
     /\ got[PipeFd] = {i \in lib.epoll[b][PipeFd] : i = "R" /\ handed # <<>>}}

(* The arrays epoll_wait may fill: as many as there are, or as fit; none   *)
(* after a timeout or a signal.                                            *)
Batches(b, got) ==
  LET all == {f \in Watchable : got[f] # {}}
      n == Cardinality(all)
      k == IF n < lib.nevents[b] THEN n ELSE lib.nevents[b]
  IN  {<<>>} \cup UNION {SetToSeqs(F) : F \in {F \in SUBSET all : Cardinality(F) = k}}

(* timeout_process.                                                        *)
timeout_process(L, e, O) == event_queue_insert(event_del(L, e, O).L, e, "ACTIVE")

(* The end of a turn of event_base_loop: go on with what is active, or     *)
(* wait if there are events, or leave.                                     *)
LoopAt(L, b) ==
  CASE L.activeq[b] # <<>> -> "run"
    [] L.activeq[b] = <<>> /\ L.count[b] > 0 -> "wait"
    [] OTHER -> "left"

(* One turn of the loop up to the callbacks: epoll_dispatch, which makes   *)
(* room for more when the array was full, and then the timer if it is due. *)
Dispatch(b, due) ==
  /\ at[b] = "wait"
  /\ due => "TIMEOUT" \in lib.ev[TimerEv].flags /\ lib.ev[TimerEv].base = b
  /\ \E got \in Pollable(b) : \E s \in Batches(b, got) :
       LET seen == FoldLeft(LAMBDA L, f : evmap_io_active(L, b, f, got[f]), lib, s)
           room == IF Len(s) = lib.nevents[b] /\ lib.nevents[b] < MAX_NEVENT
                     THEN [seen EXCEPT !.nevents[b] = 2 * @] ELSE seen
           L == IF due THEN timeout_process(room, TimerEv, opened) ELSE room
       IN  lib' = L /\ at' = [at EXCEPT ![b] = LoopAt(L, b)]
  /\ UNCHANGED <<opened, handed, obj, link, status, timed, faults>>
-----------------------------------------------------------------------------
(* The kernel drops a closed descriptor from every epoll set.              *)
Closed(L, f) == [L EXCEPT !.epoll = [b \in Bases |-> [L.epoll[b] EXCEPT ![f] = {}]]]

(* event_process_active_single_queue takes the first active event off and, *)
(* for one with a timeout, event_persist_closure schedules it again.       *)
Current(b) == Head(lib.activeq[b])
Taken(b) ==
  LET L == event_queue_remove(lib, Current(b), "ACTIVE")
  IN  IF Current(b) = TimerEv THEN AddTimeout(L, TimerEv) ELSE L

Done(b, L) == lib' = L /\ at' = [at EXCEPT ![b] = LoopAt(L, b)]
Faulty(ok) == (~ok => faults < MaxFaults) /\ faults' = IF ok THEN faults ELSE faults + 1

(* Destruct and RetConnect: whoever registered forgets the connection.     *)
Dropped(c) ==
  /\ opened' = opened \ {obj[c].fd}
  /\ obj' = [obj EXCEPT ![c].fd = NoSocket, ![c].by = "pool"]
  /\ link' = IF c = link THEN NoConnect ELSE link

(* GetConnect and Init.                                                    *)
TakeConnect(c, f, b) ==
  /\ obj[c].by = "pool"
  /\ obj' = [obj EXCEPT ![c] = [fd |-> f, watch |-> {"R"}, by |-> b]]

(* GentThread::Handle: a connection that cannot be watched is dropped.     *)
ThreadHandle(c, ok) ==
  /\ at["worker"] = "run" /\ Current("worker") = PipeEv
  /\ handed # <<>>
  /\ obj[c].by = "pool" /\ Faulty(ok)
  /\ LET f == Head(handed)
         r == event_add(event_set(Taken("worker"), c, "worker", f, {"R"}), c, opened, ok)
     IN  /\ IF r.ok
              THEN /\ TakeConnect(c, f, "worker") /\ Done("worker", r.L)
                   /\ opened' = opened
              ELSE /\ Done("worker", Closed(r.L, f)) /\ obj' = obj
                   /\ opened' = opened \ {f}
         /\ handed' = Tail(handed)
  /\ UNCHANGED <<link, status, timed>>

(* Mutant: the result of event_add is not looked at.                       *)
UpdateEventUnchecked(L, c, state, ok) ==
  IF obj[c].watch = state THEN [ok |-> TRUE, L |-> L, watch |-> state]
  ELSE LET d == event_del(L, c, opened)
           r == event_add(event_set(d.L, c, L.ev[c].base, obj[c].fd, state), c, opened, ok)
       IN  [ok |-> TRUE, L |-> r.L, watch |-> state]

(* GentEvent::UpdateEvent.                                                 *)
UpdateEvent(L, c, state, ok) ==
  IF obj[c].watch = state THEN [ok |-> TRUE, L |-> L, watch |-> state]
  ELSE LET d == event_del(L, c, opened)
           r == event_add(event_set(d.L, c, L.ev[c].base, obj[c].fd, state), c, opened, ok)
       IN  IF d.ok THEN [ok |-> r.ok, L |-> r.L, watch |-> state]
           ELSE [ok |-> FALSE, L |-> d.L, watch |-> obj[c].watch]

(* Mutant: the connection ends without event_del.                          *)
EndedUndeleted(b, L, c) ==
  /\ Done(b, Closed(L, obj[c].fd))
  /\ Dropped(c)

(* GentEvent::Handle: TryRunning may leave the watch alone, turn it to     *)
(* reading or writing, or fail; a watch that cannot be turned, and an      *)
(* event of another descriptor, end the connection as well.  The reply of  *)
(* the master may move the slave on.                                       *)
Ended(b, L, c) ==
  LET f == obj[c].fd
  IN  /\ Done(b, Closed(event_del(L, c, opened).L, f))
      /\ Dropped(c)

HandleEnds(b, c) ==
  /\ at[b] = "run" /\ Current(b) = c /\ c \in Connects
  /\ Ended(b, Taken(b), c)
  /\ UNCHANGED <<handed, status, timed, faults>>

HandleRuns(b, c, state, moved, ok) ==
  /\ at[b] = "run" /\ Current(b) = c /\ c \in Connects
  /\ obj[c].fd = lib.ev[c].fd
  /\ moved => c = link
  /\ Faulty(ok) /\ (~ok => state # obj[c].watch)
  /\ status' = IF moved THEN "CONTINUE" ELSE status
  /\ LET r == UpdateEvent(Taken(b), c, state, ok)
     IN  IF r.ok
           THEN /\ Done(b, r.L)
                /\ obj' = [obj EXCEPT ![c].watch = r.watch]
                /\ UNCHANGED <<opened, link>>
           ELSE Ended(b, r.L, c)
  /\ UNCHANGED <<handed, timed>>
-----------------------------------------------------------------------------
(* GentRepMgr::SlaveHandle: Slave, and then the timer is taken down and    *)
(* set up again.                                                           *)
AddTimeEvent(L) == AddTimeout(event_set(L, TimerEv, "slave", NoSocket, {}), TimerEv)

(* Mutant: no DelEvent before AddTimeEvent.                                *)
RearmedUndeleted(L) == AddTimeEvent(L)

Rearmed(L) == AddTimeEvent(event_del(L, TimerEv, opened).L)

InSlave == at["slave"] = "run" /\ Current("slave") = TimerEv
Awaiting == status \in {"AUTH", "WAIT"}

(* An answer is awaited; after 60 seconds without one, ask again.          *)
SlaveWaits(late) ==
  /\ InSlave /\ Awaiting /\ link # NoConnect
  /\ late => timed
  /\ status' = IF late THEN "CONTINUE" ELSE status
  /\ Done("slave", Rearmed(Taken("slave")))
  /\ UNCHANGED <<opened, handed, obj, link, timed, faults>>

(* There is no connection and LinkMaster fails.                            *)
SlaveNoLink ==
  /\ InSlave /\ link = NoConnect
  /\ status' = IF Awaiting THEN "CONTINUE" ELSE status
  /\ Done("slave", Rearmed(Taken("slave")))
  /\ UNCHANGED <<opened, handed, obj, link, timed, faults>>

(* LinkMaster, unless there is a connection, and SlaveAuth: if that cannot *)
(* be sent, the connection is kept for the next turn.  Else AddEvent,      *)
(* whose result is not looked at.  auth is FALSE without a master_auth.    *)
(* (The first bytes on a connection always find room.)                     *)
Linking(c, f) ==
  \/ /\ link = NoConnect /\ f \notin opened /\ TakeConnect(c, f, "slave")
     /\ opened' = opened \cup {f}
  \/ /\ link = c /\ obj[c].fd = f /\ status = "INIT"
     /\ UNCHANGED <<opened, obj>>

SlaveAuthFails(c, f) ==
  /\ InSlave /\ Linking(c, f)
  /\ link' = c /\ status' = "INIT"
  /\ Done("slave", Rearmed(Taken("slave")))
  /\ UNCHANGED <<handed, timed, faults>>

SlaveLinks(c, f, auth, ok) ==
  /\ InSlave /\ Linking(c, f) /\ Faulty(ok)
  /\ link' = c /\ status' = IF auth THEN "AUTH" ELSE "CONTINUE"
  /\ LET r == event_add(event_set(Taken("slave"), c, "slave", f, {"R"}), c, opened', ok)
     IN  Done("slave", Rearmed(r.L))
  /\ UNCHANGED <<handed, timed>>

(* Ask for data.  OutString sends it, or fails, or waits until it can      *)
(* write, and does not look at the result of UpdateEvent.                  *)
SlaveAsks(how, ok) ==
  /\ InSlave /\ link # NoConnect /\ status = "CONTINUE"
  /\ Faulty(ok) /\ (~ok => how = "EAGAIN" /\ obj[link].watch # {"W"})
  /\ LET r == IF how = "EAGAIN" THEN UpdateEvent(Taken("slave"), link, {"W"}, ok)
              ELSE [L |-> Taken("slave"), watch |-> obj[link].watch]
     IN  /\ Done("slave", Rearmed(r.L))
         /\ obj' = [obj EXCEPT ![link].watch = r.watch]
  /\ status' = IF how = "error" THEN status ELSE "WAIT"
  /\ timed' = (timed \/ how # "error")
  /\ UNCHANGED <<opened, handed, link>>
-----------------------------------------------------------------------------
(* HandleMain and SendThread: a new descriptor goes to the worker.         *)
NewSocket(f) ==
  /\ f \notin opened
  /\ opened' = opened \cup {f}
  /\ handed' = Append(handed, f)
  /\ UNCHANGED <<lib, at, obj, link, status, timed, faults>>

(* After SetupThread and Rep.  The constructors leave GentRepMgr::conn_    *)
(* uninitialized; it is taken to be NULL.                                  *)
LoopInit ==
  /\ lib = [ev |-> [e \in Events |->
                      CASE e = PipeEv -> [base |-> "worker", fd |-> PipeFd, events |-> {"R"},
                                          flags |-> {"INSERTED"}]
                        [] e = TimerEv -> [base |-> "slave", fd |-> NoSocket, events |-> {},
                                           flags |-> {"TIMEOUT"}]
                        [] OTHER -> [base |-> "worker", fd |-> NoSocket, events |-> {},
                                     flags |-> {}]],
            io |-> [b \in Bases |-> [f \in Watchable |-> [i \in IO |->
                      IF b = "worker" /\ f = PipeFd /\ i = "R" THEN 1 ELSE 0]]],
            on |-> [b \in Bases |-> [f \in Watchable |->
                      IF b = "worker" /\ f = PipeFd THEN <<PipeEv>> ELSE <<>>]],
            epoll |-> [b \in Bases |-> [f \in Watchable |->
                      IF b = "worker" /\ f = PipeFd THEN {"R"} ELSE {}]],
            activeq |-> [b \in Bases |-> <<>>],
            count |-> [b \in Bases |-> 1],
            nevents |-> [b \in Bases |-> INITIAL_NEVENT],
            errx |-> FALSE]
  /\ at = [b \in Bases |-> "wait"]
  /\ opened = {PipeFd}
  /\ handed = <<>>
  /\ obj = [c \in Connects |-> [fd |-> NoSocket, watch |-> {"R"}, by |-> "pool"]]
  /\ link = NoConnect /\ status = "INIT" /\ timed = FALSE
  /\ faults = 0

SlaveTurn ==
  \/ \E late \in BOOLEAN : SlaveWaits(late)
  \/ SlaveNoLink
  \/ \E c \in Connects, f \in Sockets : SlaveAuthFails(c, f)
  \/ \E c \in Connects, f \in Sockets, auth, ok \in BOOLEAN : SlaveLinks(c, f, auth, ok)
  \/ \E how \in {"handed", "error", "EAGAIN"}, ok \in BOOLEAN : SlaveAsks(how, ok)

LoopHandle(b) ==
  \E c \in Connects :
    \/ HandleEnds(b, c)
    \/ \E state \in {{"R"}, {"W"}}, moved, ok \in BOOLEAN :
         HandleRuns(b, c, state, moved, ok)

Callback(b) ==
  \/ LoopHandle(b)
  \/ b = "worker" /\ \E c \in Connects, ok \in BOOLEAN : ThreadHandle(c, ok)
  \/ b = "slave" /\ SlaveTurn

LoopNext ==
  \/ \E b \in Bases :
       \/ \E due \in BOOLEAN : Dispatch(b, due)
       \/ Callback(b)
  \/ \E f \in Sockets : NewSocket(f)

LoopSpec == LoopInit /\ [][LoopNext]_loopVars
-----------------------------------------------------------------------------
LoopTypeOK ==
  /\ lib.ev \in [Events -> [base : Bases, fd : Watchable \cup {NoSocket}, events : SUBSET IO,
                            flags : SUBSET {"INSERTED", "ACTIVE", "TIMEOUT"}]]
  /\ lib.io \in [Bases -> [Watchable -> [IO -> 0 .. 1]]]
  /\ lib.epoll \in [Bases -> [Watchable -> SUBSET IO]]
  /\ at \in [Bases -> {"wait", "run", "left"}]
  /\ opened \subseteq Watchable 
  /\ obj \in [Connects -> [fd : Sockets \cup {NoSocket}, watch : {{"R"}, {"W"}},
                           by : Bases \cup {"pool"}]]
  /\ link \in Connects \cup {NoConnect}
  /\ status \in {"INIT", "AUTH", "WAIT", "CONTINUE"}

(* Is connection c registered for what ev_flags says: in the event, in the *)
(* map of its base and in the kernel, and in no other base?                *)
Registered(c) ==
  LET b == obj[c].by
      f == obj[c].fd
  IN  /\ lib.ev[c].base = b /\ lib.ev[c].fd = f /\ lib.ev[c].events = obj[c].watch
      /\ "INSERTED" \in lib.ev[c].flags
      /\ lib.on[b][f] = <<c>>
      /\ \A d \in Bases : /\ lib.epoll[d][f] = IF d = b THEN obj[c].watch ELSE {}
                          /\ Wanted(lib, d, f) = lib.epoll[d][f]

(* Every connection in use is watched for what its ev_flags say, whatever  *)
(* calls of epoll_ctl failed and however descriptors and objects moved     *)
(* between the threads.  Only the slave's link can be deaf, because Slave  *)
(* does not look at the results of AddEvent and UpdateEvent: it is watched *)
(* as long as epoll_ctl never failed and the authentication was sent.      *)
Watched ==
  /\ \A c \in Connects : obj[c].by # "pool" /\ c # link => Registered(c)
  /\ link # NoConnect /\ faults = 0 /\ status # "INIT" => Registered(link)

(* Nothing of a closed descriptor or of a pooled object stays behind in a  *)
(* base: no callback of it is still to run, and the next connection on     *)
(* that descriptor starts clean.                                           *)
NothingLeft ==
  /\ \A c \in Connects : obj[c].by = "pool" =>
       lib.ev[c].flags = {} /\ \A b \in Bases : c \notin ToSet(lib.activeq[b])
  /\ \A b \in Bases, f \in Sockets :
       (\A c \in Connects : ~(obj[c].by = b /\ obj[c].fd = f))
         => lib.on[b][f] = <<>> /\ Wanted(lib, b, f) = {} /\ lib.epoll[b][f] = {}

(* event_count is the number of queues the events of the base are on, no   *)
(* queue is corrupted, the slave's timer is scheduled or its callback is   *)
(* on its way, and so no loop ever leaves for want of events.              *)
LoopsStay ==
  /\ ~lib.errx
  /\ lib.ev[TimerEv].flags \in {{"TIMEOUT"}, {"ACTIVE"}}
  /\ \A b \in Bases :
       /\ at[b] # "left"
       /\ lib.count[b] = Cardinality({p \in Events \X {"INSERTED", "ACTIVE", "TIMEOUT"} :
                                        lib.ev[p[1]].base = b /\ p[2] \in lib.ev[p[1]].flags})
=============================================================================
