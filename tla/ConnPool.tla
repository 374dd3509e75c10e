------------------------------ MODULE ConnPool ------------------------------
(***************************************************************************)
(* The pool of connection objects of GentAppMgr: GetConnect and RetConnect *)
(* run under conn_lock and are one step each; closing a connection is      *)
(* Destruct, which deletes the command object and closes the descriptor,   *)
(* and then RetConnect, in separate steps.  The kernel gives a descriptor  *)
(* out again as soon as it is closed.  A worker thread handles one         *)
(* connection at a time; SendThread gives new ones to the workers in turn. *)
(***************************************************************************)
EXTENDS Naturals, Sequences, FiniteSets

CONSTANTS
  Conns,      \* connection objects the heap has room for (bound)
  Fds,        \* descriptors (bound)
  Factor,     \* free objects kept per object in use (20)
  ThreadCount,\* worker threads
  NoConn, NoFd

ASSUME PoolAssumption ==
  /\ IsFiniteSet(Conns)
  /\ NoConn \notin Conns /\ NoFd \notin Fds
  /\ Factor \in Nat
  /\ ThreadCount \in Nat \ {0}

VARIABLES
  open,           \* descriptors that are open
  accepted,       \* the worker a descriptor is on its way to, or 0
  lastid_,        \* the worker that got the last descriptor
  worker,         \* the worker that handles an object
  state,          \* of each object: see States
  fd,             \* GentConnect::fd, NoFd for -1
  live,           \* has the object a command object that is not deleted
  conn_mgr,       \* object in use, by descriptor
  plus_mgr,       \* object whose command is registered, by descriptor
  free_conn_mgr,  \* the free list
  total_conn,
  exited,         \* exit(1) was called
  reused          \* history: a descriptor was taken again before RetConnect

vars == <<open, accepted, lastid_, worker, state, fd, live, conn_mgr, plus_mgr,
          free_conn_mgr, total_conn, exited, reused>>
-----------------------------------------------------------------------------
(* Not allocated; on the free list; handled by a worker; in Destruct, with *)
(* its command deleted; after Destruct, with its descriptor closed.        *)
Threads == 1 .. ThreadCount
States == {"none", "free", "run", "destroyed", "closed"}
InState(s) == {c \in Conns : state[c] = s}
InUse == InState("run") \cup InState("destroyed") \cup InState("closed")

TypeOK ==
  /\ open \subseteq Fds
  /\ accepted \in [Fds -> Threads \cup {0}]
  /\ \A f \in Fds : accepted[f] # 0 => f \in open
  /\ lastid_ \in Threads \cup {0}
  /\ worker \in [Conns -> Threads]
  /\ state \in [Conns -> States]
  /\ fd \in [Conns -> Fds \cup {NoFd}]
  /\ \A c \in Conns : fd[c] # NoFd <=> c \in InUse
  /\ live \in [Conns -> BOOLEAN]
  /\ conn_mgr \in [Fds -> Conns \cup {NoConn}]
  /\ plus_mgr \in [Fds -> Conns \cup {NoConn}]
  /\ free_conn_mgr \in Seq(Conns)
  /\ total_conn \in Nat
  /\ exited \in BOOLEAN /\ reused \in BOOLEAN

Init ==
  /\ open = {} /\ accepted = [f \in Fds |-> 0]
  /\ lastid_ = 0
  /\ worker = [c \in Conns |-> 1]
  /\ state = [c \in Conns |-> "none"]
  /\ fd = [c \in Conns |-> NoFd]
  /\ live = [c \in Conns |-> FALSE]
  /\ conn_mgr = [f \in Fds |-> NoConn]
  /\ plus_mgr = [f \in Fds |-> NoConn]
  /\ free_conn_mgr = <<>>
  /\ total_conn = 0
  /\ exited = FALSE /\ reused = FALSE
-----------------------------------------------------------------------------
(* HandleMain accepts a client, SendThread passes the descriptor on.       *)
SendThread(f) ==
  LET tid == (lastid_ + 1) % (ThreadCount + 1)
  IN  /\ lastid_' = IF tid = 0 THEN 1 ELSE tid
      /\ accepted' = [accepted EXCEPT ![f] = lastid_']
Accept(f) ==
  /\ ~exited
  /\ f \in Fds \ open
  /\ open' = open \cup {f}
  /\ SendThread(f)
  /\ UNCHANGED <<worker, state, fd, live, conn_mgr, plus_mgr, free_conn_mgr,
                 total_conn, exited, reused>>

(* A worker that is not in the middle of closing a connection.             *)
Waiting(t) == \A c \in InState("destroyed") \cup InState("closed") : worker[c] # t

Front(s) == SubSeq(s, 1, Len(s) - 1)

(* GetConnect: the last of the free list or a new object; Init makes it a  *)
(* command object, registered under the descriptor.                        *)
GetConnect(f) ==
  \E c \in Conns :
    /\ ~exited
    /\ accepted[f] # 0
    /\ Waiting(accepted[f])
    /\ IF free_conn_mgr # <<>>
         THEN /\ c = free_conn_mgr[Len(free_conn_mgr)]
              /\ free_conn_mgr' = Front(free_conn_mgr)
              /\ UNCHANGED total_conn
         ELSE /\ state[c] = "none"
              /\ total_conn' = total_conn + 1
              /\ UNCHANGED free_conn_mgr
    /\ accepted' = [accepted EXCEPT ![f] = 0]
    /\ worker' = [worker EXCEPT ![c] = accepted[f]]
    /\ state' = [state EXCEPT ![c] = "run"]
    /\ fd' = [fd EXCEPT ![c] = f]
    /\ live' = [live EXCEPT ![c] = TRUE]
    /\ plus_mgr' = [plus_mgr EXCEPT ![f] = c]
    /\ conn_mgr' = [conn_mgr EXCEPT ![f] = c]
    /\ reused' = (reused \/ conn_mgr[f] # NoConn)
    /\ UNCHANGED <<open, lastid_, exited>>

(* Destruct: the command registered under the descriptor is deleted, then  *)
(* the descriptor is closed.                                               *)
DeleteCommand(c) ==
  LET owner == plus_mgr[fd[c]]
  IN  /\ live' = IF owner = NoConn THEN live ELSE [live EXCEPT ![owner] = FALSE]
      /\ UNCHANGED open
CloseFd(c) == open' = open \ {fd[c]} /\ UNCHANGED live

HalvesSwapped(c, first) ==  \* a mutant: the descriptor is closed first
  IF first THEN CloseFd(c) ELSE DeleteCommand(c)
DestructHalf(c, first) ==
  IF first THEN DeleteCommand(c) ELSE CloseFd(c)

Destruct(c) ==
  \E first \in BOOLEAN :
    /\ ~exited
    /\ state[c] = IF first THEN "run" ELSE "destroyed"
    /\ first => Waiting(worker[c])
    /\ state' = [state EXCEPT ![c] = IF first THEN "destroyed" ELSE "closed"]
    /\ DestructHalf(c, first)
    /\ UNCHANGED <<accepted, lastid_, worker, fd, conn_mgr, plus_mgr, free_conn_mgr,
                   total_conn, exited, reused>>

(* RetConnect ends the process when the descriptor is not registered.      *)
NotFound(c) ==
  /\ conn_mgr[fd[c]] = NoConn
  /\ exited' = TRUE
  /\ UNCHANGED <<open, accepted, lastid_, worker, state, fd, live, conn_mgr, plus_mgr,
                 free_conn_mgr, total_conn, reused>>

(* Else the object becomes the first of the free list, and the list is cut *)
(* at the front when it is longer than Factor times the objects in use.    *)
Surplus(list) ==
  LET linkNum == (total_conn - Len(list)) * Factor
  IN  IF linkNum < Len(list) THEN Len(list) - linkNum ELSE 0

ErasesAll(f) == [g \in Fds |-> NoConn]  \* a mutant: all entries go
ErasesNothing(f) == conn_mgr  \* a mutant: the entry stays
Erased(f) == [conn_mgr EXCEPT ![f] = NoConn]

NotUncounted(n) == total_conn  \* a mutant: total_conn is not decreased
Uncounted(n) == total_conn - n

Unset(c) == [fd EXCEPT ![c] = NoFd]

Pooled(c) ==
  LET list == <<c>> \o free_conn_mgr
      cut == Surplus(list)
      deleted == {list[i] : i \in 1 .. cut}
  IN  /\ conn_mgr[fd[c]] # NoConn
      /\ conn_mgr' = Erased(fd[c])
      /\ fd' = Unset(c)
      /\ free_conn_mgr' = SubSeq(list, cut + 1, Len(list))
      /\ total_conn' = Uncounted(cut)
      /\ state' = [d \in Conns |-> IF d \in deleted THEN "none"
                                   ELSE IF d = c THEN "free" ELSE state[d]]
      /\ worker' = [worker EXCEPT ![c] = 1]
      /\ UNCHANGED <<open, accepted, lastid_, live, plus_mgr, exited, reused>>

RetConnect(c) ==
  /\ ~exited
  /\ state[c] = "closed"
  /\ NotFound(c) \/ Pooled(c)

Next ==
  \/ \E f \in Fds : Accept(f) \/ GetConnect(f)
  \/ \E c \in Conns : Destruct(c) \/ RetConnect(c)

Spec == Init /\ [][Next]_vars
-----------------------------------------------------------------------------
(* The counters add up: total_conn counts the objects in use and the free  *)
(* ones, and the free list holds each free object once.  GetConnCount, the *)
(* difference, never wraps around.                                         *)
CountsAddUp ==
  /\ total_conn = Cardinality(InUse) + Len(free_conn_mgr)
  /\ Len(free_conn_mgr) = Cardinality(InState("free"))
  /\ {free_conn_mgr[i] : i \in 1 .. Len(free_conn_mgr)} = InState("free")

(* Every registered object is in use under that descriptor: conn_mgr holds *)
(* no pointer to an object that is free or deleted.                        *)
RegisteredInUse ==
  \A f \in Fds : conn_mgr[f] # NoConn =>
    conn_mgr[f] \in InUse /\ fd[conn_mgr[f]] = f

(* Deleting the command of a connection never takes away the command of    *)
(* another one: who is handled by a worker has its own.                    *)
OwnCommand ==
  \A c \in InState("run") : live[c] /\ plus_mgr[fd[c]] = c

(* RetConnect misses the descriptor, logs "link fd:%d not find" and ends   *)
(* the process, only after another thread registered the same descriptor   *)
(* between Destruct and RetConnect.                                        *)
MissNeedsReuse ==
  reused \/ \A c \in InUse : conn_mgr[fd[c]] = c
=============================================================================
