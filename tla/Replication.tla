---------------------------- MODULE Replication ----------------------------
(***************************************************************************)
(* Master/slave replication of riser, for one slave: the queue of changed  *)
(* keys that the master keeps for the slave (GentReplication), the master  *)
(* thread that turns the head of the queue into commands (MasterHandle,    *)
(* Start), the worker threads that execute client writes and the slave's   *)
(* rep commands, the slave's state machine (GentRepMgr::Slave), and the    *)
(* TCP connections between them.                                           *)
(*                                                                         *)
(* The queue holds keys, not values: Start reads the current value of a    *)
(* key when it builds a command.  A value is a version number, 0 when the  *)
(* key is absent.  The expiry of a key on the master is "none", "live"     *)
(* (set by setex, not reached) or "dead" (reached).  Keys are numbers, in  *)
(* the order in which a std::map holds them.                               *)
(***************************************************************************)
EXTENDS Naturals, Sequences, FiniteSets

CONSTANTS
  Keys,         \* keys of the database
  Workers,      \* worker threads that serve clients
  SyncNum,      \* SYNC_NUM: keys sent per command
  UseAuth,      \* is master_auth configured
  Preload,      \* keys in the master's database at the start
  WithTtl,      \* do clients use setex
  WithDel,      \* do clients use del
  WithTimer,    \* may the slave's 60 second timer fire
  WithFail,     \* may a write fail on the slave
  MaxVer,       \* bound: versions written by clients
  MaxConn,      \* bound: connections the slave makes
  MaxPending    \* bound: messages pending when the slave's timer first fires

ASSUME KeysAssumption ==
  Keys \subseteq Nat /\ IsFiniteSet(Keys) /\ Preload \subseteq Keys
ASSUME SyncNumAssumption == SyncNum \in Nat \ {0}
ASSUME FlagAssumption ==
  {UseAuth, WithTtl, WithDel, WithTimer, WithFail} \subseteq BOOLEAN
ASSUME BoundAssumption ==
  MaxVer \in Nat \ {0} /\ {MaxConn, MaxPending} \subseteq Nat

VARIABLES
  mval, mexp,     \* the master's database: version and expiry of each key
  ver,            \* the last version written; 1 for the initial contents
  todo,           \* what is left of the client command a worker executes
  registered,     \* is the GentReplication object in rep_list_
  creating,       \* connection whose worker is constructing the object, or 0
  que,            \* keys of the full synchronisation
  main_que,       \* keys changed since
  is_update_que,  \* is Start still serving que
  status,         \* 1 when a command is sent and not acknowledged
  conn_,          \* connection of the slave as the object knows it, or 0
  master_msg_,    \* entries in the master thread's queue, all for this object
  mt,             \* the master thread: where it is in MasterHandle
  conn,           \* the connections, seen from both ends
  slave,          \* the slave's GentRepMgr and its end of the connection
  sval,           \* the slave's database
  fresh,          \* history: repmsg was received and not yet acted upon
  faults          \* history: what has gone wrong so far

dbVars == <<mval, mexp, ver>>
queVars == <<que, main_que, is_update_que>>
regVars == <<registered, creating>>
slaveVars == <<slave, sval>>
vars == <<mval, mexp, ver, todo, registered, creating, que, main_que,
          is_update_que, status, conn_, master_msg_, mt, conn, slave, sval,
          fresh, faults>>
-----------------------------------------------------------------------------
Conns == 1 .. MaxConn
NoConn == 0
Versions == 0 .. MaxVer

(* itemData: a key, ADD or DEL, and whether a command carrying it was sent *)
Items == [key : Keys, type : {"ADD", "DEL"}, is_sync : BOOLEAN]
NewItem(k, t) == [key |-> k, type |-> t, is_sync |-> FALSE]

(* The rest of a client command: a del to execute, or keys to push.        *)
Todos == [op : {"none", "del", "push"}, keys : SUBSET Keys,
          type : {"ADD", "DEL"}]
NoTodo == [op |-> "none", keys |-> {}, type |-> "ADD"]
ToPush(K, t) == [op |-> "push", keys |-> K, type |-> t]

(* What the slave sends: rep commands, or "-ERR unknown command".          *)
RepMsgs == {"auth", "data", "ok", "error", "err"}

(* What the master sends: "put" stands for mset, set and setex.            *)
Pairs == [key : Keys, val : Versions]
Commands == [op : {"authok", "autherror", "close", "put", "del", "err"},
             pairs : Seq(Pairs)]
Reply(op) == [op |-> op, pairs |-> <<>>]
Put(pairs) == [op |-> "put", pairs |-> pairs]
DelCommand(k) == [op |-> "del", pairs |-> <<[key |-> k, val |-> 0]>>]

ConnRecs ==
  [up : BOOLEAN,                  \* is the TCP connection intact
   open : BOOLEAN,                \* has the master not destructed its end
   curstatus : {"READ", "DATA"},  \* GentConnect::curstatus on the master
   master_auth : BOOLEAN,         \* GentRedis::master_auth is not 0
   repmsg : RepMsgs \cup {"", "autherror"},
   dest : BOOLEAN,                \* is the object in dest_list
   toM : Seq(RepMsgs), toS : Seq(Commands)]
NeverConnected ==
  [up |-> FALSE, open |-> FALSE, curstatus |-> "READ", master_auth |-> FALSE,
   repmsg |-> "", dest |-> FALSE, toM |-> <<>>, toS |-> <<>>]

MasterThreads ==
  [pc : {"idle", "start", "front", "item", "sent", "crashed"},
   cur : Conns \cup {NoConn}, i : Nat, n : Nat, out : Seq(Pairs)]
IdleThread == [pc |-> "idle", cur |-> NoConn, i |-> 0, n |-> 0, out |-> <<>>]

SlaveRecs ==
  [status : {"INIT", "AUTH", "WAIT", "CONTINUE", "HUNG"},
   conn : Conns \cup {NoConn},
   reg : BOOLEAN,                     \* is its read event registered
   reply : RepMsgs \cup {""},         \* reply waiting for the write event
   sent : BOOLEAN,                    \* slave_send_time > 0
   links : 0 .. MaxConn]              \* connections made so far

(* What can go wrong: Push takes place between the constructor's snapshot  *)
(* and the insertion in rep_list_; MasterHandle, woken by Push, acts again *)
(* upon a message it has answered; the slave's timer repeats a request; a  *)
(* connection breaks; a write fails on the slave; a key that a worker has  *)
(* deleted is written by another before the deletion is pushed.            *)
Faults == {"missed", "stray", "timeout", "break", "fail", "crossed"}

TypeOK ==
  /\ mval \in [Keys -> Versions]
  /\ mexp \in [Keys -> {"none", "live", "dead"}]
  /\ ver \in Versions
  /\ todo \in [Workers -> Todos]
  /\ registered \in BOOLEAN
  /\ creating \in Conns \cup {NoConn}
  /\ que \in Seq(Items)
  /\ main_que \in Seq(Items)
  /\ is_update_que \in BOOLEAN
  /\ status \in {0, 1}
  /\ conn_ \in Conns \cup {NoConn}
  /\ master_msg_ \in Nat
  /\ mt \in MasterThreads
  /\ conn \in [Conns -> ConnRecs]
  /\ slave \in SlaveRecs
  /\ sval \in [Keys -> Versions]
  /\ fresh \in BOOLEAN
  /\ faults \subseteq Faults
-----------------------------------------------------------------------------
(* Keys("*") iterates over a snapshot of the database in key order; the    *)
(* constructor queues an item for each key.                                *)
PresentKeys == {k \in Keys : mval[k] # 0}
Ascending(n, K) ==
  {f \in [1 .. n -> K] : \A i, j \in 1 .. n : i < j => f[i] < f[j]}
ItemsButLast(n, K) ==  \* a mutant: the last key is left out
  {[i \in 1 .. n - 1 |-> NewItem(f[i], "ADD")] : f \in Ascending(n, K)}
AddItems(n, K) ==
  {[i \in 1 .. n |-> NewItem(f[i], "ADD")] : f \in Ascending(n, K)}
Snapshot(K) == AddItems(Cardinality(K), K)

(* A slave in REPLICATION_INFO is loaded by GentRepMgr::Init: registered.  *)
(* Then either the recorded times ask for a full synchronisation, or the   *)
(* slave has everything and is_update_que keeps whatever value the memory  *)
(* had.                                                                    *)
Init ==
  /\ mval = [k \in Keys |-> IF k \in Preload THEN 1 ELSE 0]
  /\ mexp = [k \in Keys |-> "none"]
  /\ ver = 1
  /\ todo = [w \in Workers |-> NoTodo]
  /\ registered \in BOOLEAN
  /\ creating = NoConn
  /\ main_que = <<>>
  /\ \/ /\ registered
        /\ que \in Snapshot(Preload)
        /\ is_update_que = TRUE
        /\ sval = [k \in Keys |-> 0]
     \/ /\ que = <<>>
        /\ is_update_que \in (IF registered THEN BOOLEAN ELSE {TRUE})
        /\ sval = IF registered THEN mval ELSE [k \in Keys |-> 0]
  /\ status = 0
  /\ conn_ = NoConn
  /\ master_msg_ = 0
  /\ mt = IdleThread
  /\ conn = [c \in Conns |-> NeverConnected]
  /\ slave = [status |-> "INIT", conn |-> NoConn, reg |-> FALSE,
              reply |-> "", sent |-> FALSE, links |-> 0]
  /\ fresh = FALSE
  /\ faults = {}
-----------------------------------------------------------------------------
(* Client commands.  The write to the database and the push of the key are *)
(* separate steps of the worker: nothing is held across them.              *)

Visible(k) == mval[k] # 0 /\ mexp[k] # "dead"

DelToPush(K) ==
  \E w \in Workers : todo[w].type = "DEL" /\ todo[w].op = "push"
                     /\ todo[w].keys \cap K # {}

ClientWrite(w, K, e) ==
  /\ todo[w] = NoTodo
  /\ ver < MaxVer
  /\ ver' = ver + 1
  /\ mval' = [k \in Keys |-> IF k \in K THEN ver + 1 ELSE mval[k]]
  /\ mexp' = [k \in Keys |-> IF k \in K THEN e ELSE mexp[k]]
  /\ todo' = [todo EXCEPT ![w] = ToPush(K, "ADD")]
  /\ faults' = IF DelToPush(K) THEN faults \cup {"crossed"} ELSE faults
  /\ UNCHANGED <<regVars, queVars, status, conn_, master_msg_, mt, conn,
                 slaveVars, fresh>>

Set(w) == \E k \in Keys : ClientWrite(w, {k}, "none")

Setex(w) == WithTtl /\ \E k \in Keys : ClientWrite(w, {k}, "live")

Mset(w) ==
  \E K \in SUBSET Keys : Cardinality(K) >= 2 /\ ClientWrite(w, K, "none")

(* Del looks the key up first; another worker may write in between.        *)
DelLookup(w) ==
  \E k \in Keys :
    /\ WithDel
    /\ todo[w] = NoTodo
    /\ Visible(k)
    /\ todo' = [todo EXCEPT ![w] = [op |-> "del", keys |-> {k},
                                    type |-> "DEL"]]
    /\ UNCHANGED <<dbVars, regVars, queVars, status, conn_, master_msg_, mt,
                   conn, slaveVars, fresh, faults>>

DelExecute(w) ==
  /\ todo[w].op = "del"
  /\ mval' = [k \in Keys |-> IF k \in todo[w].keys THEN 0 ELSE mval[k]]
  /\ mexp' = [k \in Keys |-> IF k \in todo[w].keys THEN "none" ELSE mexp[k]]
  /\ todo' = [todo EXCEPT ![w] = ToPush(todo[w].keys, "DEL")]
  /\ UNCHANGED <<ver, regVars, queVars, status, conn_, master_msg_, mt, conn,
                 slaveVars, fresh, faults>>

(* GentReplication::Push: the master thread is told only when the queue    *)
(* was empty and the slave is connected.                                   *)
main_que_length == Len(que) + Len(main_que)
WakesMaster ==
  main_que_length = 0 /\ conn_ # NoConn /\ conn[conn_].open

PushKey(w) ==
  /\ todo[w].op = "push"
  /\ \E k \in todo[w].keys :
       /\ \A j \in todo[w].keys : k <= j
       /\ todo' = [todo EXCEPT
                     ![w] = IF todo[w].keys = {k} THEN NoTodo
                            ELSE ToPush(todo[w].keys \ {k}, todo[w].type)]
       /\ main_que' = IF registered
                        THEN Append(main_que, NewItem(k, todo[w].type))
                        ELSE main_que
  /\ master_msg_' = IF registered /\ WakesMaster THEN master_msg_ + 1
                                                 ELSE master_msg_
  /\ faults' = IF creating # NoConn THEN faults \cup {"missed"} ELSE faults
  /\ UNCHANGED <<dbVars, regVars, que, is_update_que, status, conn_, mt, conn,
                 slaveVars, fresh>>

(* Time reaches the expiry of a key.                                       *)
Expire ==
  \E k \in Keys :
    /\ mexp[k] = "live"
    /\ mexp' = [mexp EXCEPT ![k] = "dead"]
    /\ UNCHANGED <<mval, ver, todo, regVars, queVars, status, conn_,
                   master_msg_, mt, conn, slaveVars, fresh, faults>>
-----------------------------------------------------------------------------
(* The master thread.                                                      *)

SendToSlaveFirst(c, m) ==  \* a mutant: the message overtakes the others
  IF conn[c].up /\ conn[c].open
    THEN [conn EXCEPT ![c].toS = <<m>> \o @]
    ELSE conn

(* Sending on a connection that is broken or closed loses the message.     *)
SendToSlave(c, m) ==
  IF conn[c].up /\ conn[c].open
    THEN [conn EXCEPT ![c].toS = Append(@, m)]
    ELSE conn

(* MasterHandle up to Start.  A connection destructed since it was stored  *)
(* in conn_ has comm = NULL, which MasterHandle dereferences.              *)
MasterHandle ==
  /\ mt.pc = "idle"
  /\ master_msg_ > 0
  /\ master_msg_' = master_msg_ - 1
  /\ mt' = IF conn_ = NoConn THEN mt
           ELSE IF ~conn[conn_].open THEN [mt EXCEPT !.pc = "crashed"]
           ELSE [mt EXCEPT !.pc = "start", !.cur = conn_]
  /\ UNCHANGED <<dbVars, todo, regVars, queVars, status, conn_, conn,
                 slaveVars, fresh, faults>>

(* Pop: the leading items that were sent, at most 2 * SYNC_NUM of them.    *)
PopUnsent(q) ==  \* a mutant: is_sync is not looked at
  IF Len(q) < 2 * SyncNum THEN Len(q) ELSE 2 * SyncNum
PopCount(q) ==
  Cardinality({n \in 1 .. Len(q) : /\ n <= 2 * SyncNum
                                   /\ \A i \in 1 .. n : q[i].is_sync})
AfterPop(q) == SubSeq(q, PopCount(q) + 1, Len(q))

(* Start for a message that is no request for data: the reply is sent and  *)
(* MasterHandle is about to finish.                                        *)
StartReply ==
  LET c == mt.cur
      msg == conn[c].repmsg
      op == CASE msg = "auth" -> "authok"
              [] msg = "autherror" -> "autherror"
              [] OTHER -> "close"
  IN  /\ mt.pc = "start"
      /\ msg \notin {"ok", "data"}
      /\ conn_' = c
      /\ conn' = [SendToSlave(c, Reply(op)) EXCEPT ![c].dest = TRUE]
      /\ mt' = [mt EXCEPT !.pc = "sent"]
      /\ fresh' = FALSE
      /\ faults' = IF fresh THEN faults ELSE faults \cup {"stray"}
      /\ UNCHANGED <<dbVars, todo, regVars, queVars, status, master_msg_,
                     slaveVars>>

(* Start for "ok" and "data", up to and including Pop.                     *)
StartData ==
  LET c == mt.cur
      msg == conn[c].repmsg
      pops == status = 1 /\ msg = "ok"
  IN  /\ mt.pc = "start"
      /\ msg \in {"ok", "data"}
      /\ conn_' = c
      /\ conn' = [conn EXCEPT ![c].dest = TRUE]
      /\ status' = 0
      /\ que' = IF pops /\ is_update_que THEN AfterPop(que) ELSE que
      /\ main_que' = IF pops /\ ~is_update_que THEN AfterPop(main_que)
                                               ELSE main_que
      /\ mt' = [mt EXCEPT !.pc = "front"]
      /\ fresh' = FALSE
      /\ faults' = IF fresh \/ status = 0 THEN faults
                                        ELSE faults \cup {"stray"}
      /\ UNCHANGED <<dbVars, todo, regVars, is_update_que, master_msg_,
                     slaveVars>>

(* front_nums_element, a second critical section of que_push_lock.         *)
BatchAlwaysFull(q) == SyncNum  \* a mutant: the end of the queue is ignored
BatchSize(q) == IF Len(q) < SyncNum THEN Len(q) ELSE SyncNum
FrontNums ==
  LET fromQue == is_update_que /\ que # <<>>
      q == IF fromQue THEN que ELSE main_que
  IN  /\ mt.pc = "front"
      /\ is_update_que' = fromQue
      /\ IF q = <<>>
           THEN /\ mt' = [mt EXCEPT !.pc = "sent"]
                /\ UNCHANGED status
           ELSE /\ mt' = [mt EXCEPT !.pc = "item", !.i = 1, !.out = <<>>,
                            !.n = BatchSize(q)]
                /\ status' = 1
      /\ UNCHANGED <<dbVars, todo, regVars, que, main_que, conn_, master_msg_,
                     conn, slaveVars, fresh, faults>>

(* One round of the loop of Start over the items of the batch.  An item    *)
(* joins the mset when it is an ADD of a present key without expiry; any   *)
(* other item is sent alone, and ends the batch before it when there is    *)
(* one.  Only the items a command carries are marked.                      *)
CurrentItem == IF is_update_que THEN que[mt.i] ELSE main_que[mt.i]
MarkNothing == UNCHANGED <<que, main_que>>  \* a mutant: setSync forgotten
MarkLast ==  \* a mutant: the last item of the batch is marked
  /\ que' = IF is_update_que THEN [que EXCEPT ![mt.n].is_sync = TRUE] ELSE que
  /\ main_que' = IF is_update_que THEN main_que
                   ELSE [main_que EXCEPT ![mt.n].is_sync = TRUE]
MarkSync ==
  /\ que' = IF is_update_que THEN [que EXCEPT ![mt.i].is_sync = TRUE] ELSE que
  /\ main_que' = IF is_update_que THEN main_que
                   ELSE [main_que EXCEPT ![mt.i].is_sync = TRUE]
SendCommand(m) ==
  conn' = SendToSlave(mt.cur, m) /\ mt' = [mt EXCEPT !.pc = "sent"]

StartItem ==
  LET it == CurrentItem
      k == it.key
      pairs == Append(mt.out, [key |-> k, val |-> mval[k]])
      joins == it.type = "ADD" /\ Visible(k) /\ mexp[k] = "none"
  IN  /\ mt.pc = "item"
      /\ \/ /\ joins /\ mt.i < mt.n
            /\ mt' = [mt EXCEPT !.i = @ + 1, !.out = pairs]
            /\ MarkSync
            /\ UNCHANGED conn
         \/ /\ joins /\ mt.i = mt.n
            /\ SendCommand(Put(pairs))
            /\ MarkSync
         \/ /\ ~joins /\ mt.out # <<>>
            /\ SendCommand(Put(mt.out))
            /\ UNCHANGED <<que, main_que>>
         \/ /\ ~joins /\ mt.out = <<>>
            /\ SendCommand(IF it.type = "ADD" /\ Visible(k)
                             THEN Put(pairs) ELSE DelCommand(k))
            /\ MarkSync
      /\ UNCHANGED <<dbVars, todo, regVars, is_update_que, status, conn_,
                     master_msg_, slaveVars, fresh, faults>>

(* The end of OutString, after send, and Reset: curstatus is overwritten,  *)
(* whatever the worker has made of it since the send.                      *)
MasterFinish ==
  /\ mt.pc = "sent"
  /\ mt' = IdleThread
  /\ conn' = [conn EXCEPT ![mt.cur].curstatus = "READ"]
  /\ UNCHANGED <<dbVars, todo, regVars, queVars, status, conn_, master_msg_,
                 slaveVars, fresh, faults>>
-----------------------------------------------------------------------------
(* The worker that serves the slave's connection c on the master.  A read  *)
(* takes whatever has arrived; Process handles the first command of it and *)
(* the rest is dropped with the buffer.                                    *)
Dropping(n, q) == SubSeq(q, n + 1, Len(q))

(* Process and Parser of rep.  A command that is refused is answered at    *)
(* once, the others leave the connection in CONN_DATA for Complete.        *)
RepParser(c) ==
  \E n \in 1 .. Len(conn[c].toM) :
    LET m == Head(conn[c].toM)
        refused == UseAuth /\ ~conn[c].master_auth /\ ~(m = "auth" /\ n = 1)
        read == [conn EXCEPT ![c].toM = Dropping(n, @)]
        answer(op) == IF conn[c].up THEN Append(conn[c].toS, Reply(op))
                                    ELSE conn[c].toS
    IN  /\ conn[c].open /\ conn[c].curstatus = "READ"
        /\ conn' =
             IF m = "err" THEN [read EXCEPT ![c].toS = answer("err")]
             ELSE IF refused
               THEN [read EXCEPT ![c].toS = answer("autherror"),
                                 ![c].repmsg = "autherror"]
               ELSE [read EXCEPT ![c].repmsg = m, ![c].master_auth = TRUE,
                                 ![c].curstatus = "DATA"]
        /\ fresh' = (fresh \/ (m # "err" /\ ~refused))
        /\ UNCHANGED <<dbVars, todo, regVars, queVars, status, conn_,
                       master_msg_, mt, slaveVars, faults>>

(* Complete of rep, the object being in rep_list_: SetConn, SendMasterMsg. *)
RepComplete(c) ==
  /\ conn[c].open /\ conn[c].curstatus = "DATA"
  /\ registered
  /\ conn_' = c
  /\ conn' = [conn EXCEPT ![c].dest = TRUE, ![c].curstatus = "READ"]
  /\ master_msg_' = master_msg_ + 1
  /\ UNCHANGED <<dbVars, todo, regVars, queVars, status, mt, slaveVars, fresh,
                 faults>>

(* Otherwise Get constructs the object from a snapshot of the keys ...     *)
RepCreate(c) ==
  /\ conn[c].open /\ conn[c].curstatus = "DATA"
  /\ ~registered /\ creating = NoConn
  /\ creating' = c
  /\ que' \in Snapshot(PresentKeys)
  /\ is_update_que' = TRUE
  /\ UNCHANGED <<dbVars, todo, registered, main_que, status, conn_,
                 master_msg_, mt, conn, slaveVars, fresh, faults>>

(* ... and only then puts it in rep_list_, where Push finds it.            *)
RepPublish(c) ==
  /\ creating = c
  /\ creating' = NoConn
  /\ registered' = TRUE
  /\ UNCHANGED <<dbVars, todo, queVars, status, conn_, master_msg_, mt, conn,
                 slaveVars, fresh, faults>>

(* End of stream: Destruct sets conn_ of every registered object to NULL,  *)
(* also when the object has a newer connection by now.                     *)
MasterDestruct(c) ==
  /\ conn[c].open /\ ~conn[c].up
  /\ conn[c].toM = <<>> /\ conn[c].curstatus = "READ"
  /\ conn' = [conn EXCEPT ![c].open = FALSE, ![c].dest = FALSE]
  /\ conn_' = IF conn[c].dest THEN NoConn ELSE conn_
  /\ UNCHANGED <<dbVars, todo, regVars, queVars, status, master_msg_, mt,
                 slaveVars, fresh, faults>>
-----------------------------------------------------------------------------
(* The network.  What was sent before a connection breaks may still be     *)
(* read, up to any point, before the end of the stream.                    *)
Break(c) ==
  /\ conn[c].up
  /\ c < MaxConn
  /\ faults' = faults \cup {"break"}
  /\ \E i \in 0 .. Len(conn[c].toM), j \in 0 .. Len(conn[c].toS) :
       conn' = [conn EXCEPT ![c].up = FALSE,
                            ![c].toM = SubSeq(@, 1, i),
                            ![c].toS = SubSeq(@, 1, j)]
  /\ UNCHANGED <<dbVars, todo, regVars, queVars, status, conn_, master_msg_,
                 mt, slaveVars, fresh>>
-----------------------------------------------------------------------------
(* The slave, one thread: Slave is called by a timer every second, the     *)
(* connection is served by the same event loop.                            *)
SendToMaster(c, m) ==
  IF conn[c].up THEN [conn EXCEPT ![c].toM = Append(@, m)] ELSE conn

(* Slave without a connection: LinkMaster, then the step from INIT.  The   *)
(* new GentRedis on the master leaves master_auth uninitialised.           *)
SlaveLink ==
  LET c == slave.links + 1
  IN  /\ slave.conn = NoConn
      /\ slave.links < MaxConn
      /\ \E auth \in BOOLEAN :
           conn' = [conn EXCEPT ![c] =
                      [NeverConnected EXCEPT
                         !.up = TRUE, !.open = TRUE, !.master_auth = auth,
                         !.toM = IF UseAuth THEN <<"auth">> ELSE <<>>]]
      /\ slave' = [slave EXCEPT !.status = IF UseAuth THEN "AUTH"
                                                      ELSE "CONTINUE",
                                !.conn = c, !.reg = TRUE, !.reply = "",
                                !.links = c]
      /\ UNCHANGED <<dbVars, todo, regVars, queVars, status, conn_,
                     master_msg_, mt, sval, fresh, faults>>

(* The same when the connection breaks before the auth command is sent:    *)
(* Slave returns before AddEvent, and nothing will read the connection.    *)
SlaveLinkFails ==
  LET c == slave.links + 1
  IN  /\ UseAuth
      /\ slave.conn = NoConn
      /\ c < MaxConn
      /\ conn' = [conn EXCEPT ![c] = [NeverConnected EXCEPT !.open = TRUE]]
      /\ slave' = [slave EXCEPT !.status = "INIT", !.conn = c, !.reg = FALSE,
                                !.reply = "", !.links = c]
      /\ faults' = faults \cup {"break"}
      /\ UNCHANGED <<dbVars, todo, regVars, queVars, status, conn_,
                     master_msg_, mt, sval, fresh>>

(* Slave in CONTINUE asks for data.  OutString resets curstatus, so that a *)
(* reply waiting for the write event is forgotten.                         *)
SlaveAsk ==
  /\ slave.status = "CONTINUE"
  /\ slave.conn # NoConn
  /\ conn' = SendToMaster(slave.conn, "data")
  /\ slave' = [slave EXCEPT !.status = "WAIT", !.sent = TRUE, !.reply = ""]
  /\ UNCHANGED <<dbVars, todo, regVars, queVars, status, conn_, master_msg_,
                 mt, sval, fresh, faults>>

(* Messages and steps under way on connection c.                           *)
Pending(c) ==
  LET one(b) == IF b THEN 1 ELSE 0
  IN  Len(conn[c].toM) + Len(conn[c].toS) + master_msg_
        + one(conn[c].curstatus = "DATA") + one(mt.pc # "idle")
        + one(slave.reply # "")

(* Slave in AUTH or WAIT, more than 60 seconds after the last request.     *)
(* Bound: an answer is that late once; afterwards the timer fires only     *)
(* when there is nothing left to wait for.                                 *)
SlaveTimeout ==
  /\ WithTimer
  /\ slave.status \in {"AUTH", "WAIT"}
  /\ slave.conn # NoConn
  /\ slave.sent
  /\ Pending(slave.conn) < (IF "timeout" \in faults THEN 1 ELSE MaxPending)
  /\ slave' = [slave EXCEPT !.status = "CONTINUE"]
  /\ faults' = faults \cup {"timeout"}
  /\ UNCHANGED <<dbVars, todo, regVars, queVars, status, conn_, master_msg_,
                 mt, conn, sval, fresh>>

(* The slave reads commands: the first is executed, the rest dropped.  The *)
(* parsers of del and reply count the tokens of everything that was read:  *)
(* with more than their command in the buffer del is refused as unknown    *)
(* and reply does nothing.                                                 *)
CanRead(c) ==
  /\ slave.conn = c
  /\ slave.reg
  /\ slave.reply = ""
  /\ slave.status # "HUNG"
Reads(c, n) == [conn EXCEPT ![c].toS = Dropping(n, @)]

LastValue(pairs, k) ==
  LET last == {i \in 1 .. Len(pairs) :
                 /\ pairs[i].key = k
                 /\ \A j \in i + 1 .. Len(pairs) : pairs[j].key # k}
  IN  IF last = {} THEN sval[k] ELSE pairs[CHOOSE i \in last : TRUE].val
Applied(pairs) == [k \in Keys |-> LastValue(pairs, k)]

(* mset, set, setex and del: the database is written and "ok" returned.    *)
SlaveExecute(c) ==
  \E n \in 1 .. Len(conn[c].toS) :
    LET m == Head(conn[c].toS)
        known == m.op = "put" \/ (m.op = "del" /\ n = 1)
    IN  /\ CanRead(c)
        /\ m.op \in {"put", "del", "err"}
        /\ conn' = Reads(c, n)
        /\ sval' = IF known THEN Applied(m.pairs) ELSE sval
        /\ slave' = [slave EXCEPT !.reply = IF known THEN "ok" ELSE "err"]
        /\ UNCHANGED <<dbVars, todo, regVars, queVars, status, conn_,
                       master_msg_, mt, fresh, faults>>

(* The same when leveldb refuses the write.                                *)
SlaveExecuteFails(c) ==
  \E n \in 1 .. Len(conn[c].toS) :
    /\ CanRead(c)
    /\ Head(conn[c].toS).op = "put"
    /\ WithFail /\ "fail" \notin faults
    /\ faults' = faults \cup {"fail"}
    /\ conn' = Reads(c, n)
    /\ slave' = [slave EXCEPT !.reply = "error"]
    /\ UNCHANGED <<dbVars, todo, regVars, queVars, status, conn_, master_msg_,
                   mt, sval, fresh>>

(* reply authok, autherror and close; close destructs the connection.      *)
SlaveReplyCommand(c) ==
  \E n \in 1 .. Len(conn[c].toS) :
    LET m == Head(conn[c].toS)
        closes == m.op = "close" /\ n = 1
    IN  /\ CanRead(c)
        /\ m.op \in {"authok", "autherror", "close"}
        /\ conn' = IF closes THEN [Reads(c, n) EXCEPT ![c].up = FALSE]
                             ELSE Reads(c, n)
        /\ slave' =
             IF closes THEN [slave EXCEPT !.conn = NoConn, !.reg = FALSE]
             ELSE IF m.op = "authok" /\ n = 1
                    THEN [slave EXCEPT !.status = "CONTINUE"]
             ELSE slave
        /\ UNCHANGED <<dbVars, todo, regVars, queVars, status, conn_,
                       master_msg_, mt, sval, fresh, faults>>

(* The write event sends the waiting reply.  When send fails, TryRunning   *)
(* stays in CONN_WRITE and never leaves its loop.                          *)
SlaveWrite(c) ==
  /\ slave.conn = c
  /\ slave.reply # ""
  /\ slave.status # "HUNG"
  /\ conn' = SendToMaster(c, slave.reply)
  /\ \/ slave' = [slave EXCEPT !.reply = ""]
     \/ ~conn[c].up /\ slave' = [slave EXCEPT !.status = "HUNG"]
  /\ UNCHANGED <<dbVars, todo, regVars, queVars, status, conn_, master_msg_,
                 mt, sval, fresh, faults>>

(* End of stream on the slave.                                             *)
SlaveDestruct(c) ==
  /\ CanRead(c)
  /\ ~conn[c].up
  /\ conn[c].toS = <<>>
  /\ slave' = [slave EXCEPT !.conn = NoConn, !.reg = FALSE]
  /\ UNCHANGED <<dbVars, todo, regVars, queVars, status, conn_, master_msg_,
                 mt, conn, sval, fresh, faults>>
-----------------------------------------------------------------------------
Client ==
  \/ \E w \in Workers : \/ Set(w) \/ Setex(w) \/ Mset(w) \/ DelLookup(w)
                        \/ DelExecute(w) \/ PushKey(w)
  \/ Expire
MasterThread ==
  MasterHandle \/ StartReply \/ StartData \/ FrontNums \/ StartItem
    \/ MasterFinish
MasterWorker(c) ==
  RepParser(c) \/ RepComplete(c) \/ RepCreate(c) \/ RepPublish(c)
    \/ MasterDestruct(c)
SlaveTick == SlaveLink \/ SlaveLinkFails \/ SlaveAsk \/ SlaveTimeout
SlaveEvent(c) ==
  SlaveExecute(c) \/ SlaveExecuteFails(c) \/ SlaveReplyCommand(c)
    \/ SlaveWrite(c) \/ SlaveDestruct(c)

Next ==
  \/ Client
  \/ MasterThread
  \/ SlaveTick
  \/ \E c \in Conns : MasterWorker(c) \/ SlaveEvent(c) \/ Break(c)

Spec == Init /\ [][Next]_vars

(* Every thread keeps running, the slave's timer included.  The master     *)
(* thread may overwrite curstatus while a worker is between Parser and     *)
(* Complete of a message, but not at every "ok" it receives.               *)
Fairness ==
  /\ \A w \in Workers : WF_vars(DelExecute(w)) /\ WF_vars(PushKey(w))
  /\ WF_vars(MasterThread)
  /\ WF_vars(SlaveTick)
  /\ \A c \in Conns : /\ WF_vars(RepParser(c)) /\ SF_vars(RepComplete(c))
                      /\ SF_vars(RepComplete(c) /\ conn[c].repmsg = "ok")
                      /\ WF_vars(RepCreate(c)) /\ WF_vars(RepPublish(c))
                      /\ WF_vars(SlaveEvent(c))
FairSpec == Spec /\ Fairness
-----------------------------------------------------------------------------
(* In both queues the items marked as sent come first: Start marks a       *)
(* prefix, Push appends and Pop removes from the front, so that Pop, which *)
(* stops at the first unmarked item, never leaves a sent item behind.      *)
IsSyncPrefix(q) ==
  \A i, j \in 1 .. Len(q) : i < j /\ q[j].is_sync => q[i].is_sync
SyncPrefix == IsSyncPrefix(que) /\ IsSyncPrefix(main_que)

(* The items of the batch that Start works on without holding the lock are *)
(* still the head of the queue, in spite of concurrent pushes, and the     *)
(* command under construction carries the ones that are marked.            *)
BatchStays ==
  LET q == IF is_update_que THEN que ELSE main_que
  IN  mt.pc = "item" =>
        /\ mt.i \in 1 .. mt.n
        /\ mt.n <= Len(q)
        /\ Len(mt.out) = mt.i - 1
        /\ \A j \in 1 .. mt.i - 1 : q[j].is_sync /\ q[j].key = mt.out[j].key

(* A key on which the two databases agree.  A slave that holds an expired  *)
(* version also holds its expiry.                                          *)
Agree(k) == sval[k] = mval[k] \/ (mexp[k] = "dead" /\ sval[k] = 0)

(* Something that will still tell the slave about the key.                 *)
Queued(k) ==
  \/ \E i \in 1 .. Len(que) : que[i].key = k
  \/ \E i \in 1 .. Len(main_que) : main_que[i].key = k
  \/ \E w \in Workers : k \in todo[w].keys
InFlight(k) ==
  \E i \in Conns : \E j \in 1 .. Len(conn[i].toS) :
    \E l \in 1 .. Len(conn[i].toS[j].pairs) :
      conn[i].toS[j].pairs[l].key = k

(* No update is forgotten: a key on which a registered slave disagrees     *)
(* with the master is in the queue, or in a command that the slave has not *)
(* executed.  Start deletes items only when they are acknowledged ("ok").  *)
NoLostUpdate ==
  registered => \A k \in Keys : Agree(k) \/ Queued(k) \/ InFlight(k)

(* Updates are lost only after one of the faults: while the slave answers  *)
(* every command, and every message of it is acted upon once, an item is   *)
(* deleted only when the slave has executed the command that carries it.   *)
LossNeedsFault == faults = {} => NoLostUpdate

(* The wake-up by which Push notifies the slave makes Start act again upon *)
(* the last message.  When nothing else goes wrong, this loses no update.  *)
WakeupsAreHarmless == faults \subseteq {"stray"} => NoLostUpdate

(* The slave never goes back to an older version of a key: commands carry  *)
(* the value of the moment they are built, and are executed in the order   *)
(* in which they were built, also after a timeout or a reconnection.       *)
SlaveMonotone ==
  [][\A k \in Keys : sval[k] # 0 /\ sval'[k] # 0 => sval'[k] >= sval[k]]_vars

(* The slave waits for an answer to its auth request that it has dropped:  *)
(* MasterHandle, woken by Push, answered twice, and the two were read      *)
(* together.  In this state slave_send_time is 0 and the timer is off.     *)
AuthLost == slave.status = "AUTH" /\ ~slave.sent /\ "stray" \in faults

(* Whatever is queued for a slave that stays connected is sent and deleted *)
(* in the end: a lost acknowledgement or wake-up is made good by the       *)
(* slave's timer, the loss of the answer to auth excepted.                 *)
QueueDrains == main_que_length > 0 ~> (main_que_length = 0 \/ []AuthLost)
=============================================================================
