------------------------- MODULE ReplicationProofs -------------------------
(***************************************************************************)
(* Proofs about Replication, from three inductive invariants.              *)
(*  - Inv.  TypeOK is not inductive: that Start reads an item, and not     *)
(*    something beyond the end of the queue, follows from BatchStays,      *)
(*    which in turn needs that the queue a batch was taken from is not     *)
(*    replaced meanwhile (Unpublished).  SyncPrefix follows because the    *)
(*    items before the one that is marked belong to the same batch.        *)
(*  - LossInv, on top of Inv: no update is lost while nothing goes wrong.  *)
(*  - Ordered, on top of Inv: the slave never goes back.                   *)
(* The lemma that a step keeps LossInv comes first; it takes Inv as given. *)
(***************************************************************************)
EXTENDS Replication, FiniteSetTheorems, TLAPS

(* Before the object is in rep_list_ neither a connection nor the master   *)
(* thread refers to it.                                                    *)
Unpublished == ~registered => conn_ = NoConn /\ mt.pc = "idle"

Inv == TypeOK /\ SyncPrefix /\ BatchStays /\ Unpublished
-----------------------------------------------------------------------------
(* What sending and reading make of the connections has their type.        *)
LEMMA ConnUpdate ==
  ASSUME NEW f \in [Conns -> ConnRecs], NEW c, NEW r, c \in Conns => r \in ConnRecs
  PROVE  [f EXCEPT ![c] = r] \in [Conns -> ConnRecs]
BY Zenon

LEMMA ToSUpdate ==
  ASSUME NEW r \in ConnRecs, NEW q \in Seq(Commands)
  PROVE  [r EXCEPT !.toS = q] \in ConnRecs
BY Zenon DEF ConnRecs

LEMMA ToMUpdate ==
  ASSUME NEW r \in ConnRecs, NEW q \in Seq(RepMsgs)
  PROVE  [r EXCEPT !.toM = q] \in ConnRecs
BY Zenon DEF ConnRecs

LEMMA ConnQueues ==
  ASSUME TypeOK, NEW c \in Conns
  PROVE  /\ conn[c] \in ConnRecs
         /\ conn[c].toS \in Seq(Commands)
         /\ conn[c].toM \in Seq(RepMsgs)
BY Zenon DEF TypeOK, ConnRecs

LEMMA SendTypes ==
  ASSUME TypeOK, NEW c, NEW m \in Commands
  PROVE  SendToSlave(c, m) \in [Conns -> ConnRecs]
<1>1. ASSUME c \in Conns
      PROVE  [conn[c] EXCEPT !.toS = Append(@, m)] \in ConnRecs
  <2>1. conn[c].toS \in Seq(Commands) /\ conn[c] \in ConnRecs
    BY Zenon, <1>1, ConnQueues
  <2>2. Append(conn[c].toS, m) \in Seq(Commands)
    BY <2>1
  <2>3. QED
    BY Zenon, <2>1, <2>2, ToSUpdate
<1>2. [conn EXCEPT ![c].toS = Append(@, m)] \in [Conns -> ConnRecs]
  BY Zenon, <1>1, ConnUpdate DEF TypeOK
<1>3. QED
  BY Zenon, <1>2 DEF SendToSlave, TypeOK

LEMMA AskTypes ==
  ASSUME TypeOK, NEW c, NEW m \in RepMsgs
  PROVE  SendToMaster(c, m) \in [Conns -> ConnRecs]
<1>1. ASSUME c \in Conns
      PROVE  [conn[c] EXCEPT !.toM = Append(@, m)] \in ConnRecs
  <2>1. conn[c].toM \in Seq(RepMsgs) /\ conn[c] \in ConnRecs
    BY Zenon, <1>1, ConnQueues
  <2>2. Append(conn[c].toM, m) \in Seq(RepMsgs)
    BY <2>1
  <2>3. QED
    BY Zenon, <2>1, <2>2, ToMUpdate
<1>2. [conn EXCEPT ![c].toM = Append(@, m)] \in [Conns -> ConnRecs]
  BY Zenon, <1>1, ConnUpdate DEF TypeOK
<1>3. QED
  BY Zenon, <1>2 DEF SendToMaster, TypeOK

LEMMA ReadTypes ==
  ASSUME TypeOK, NEW c, NEW n \in Nat
  PROVE  Reads(c, n) \in [Conns -> ConnRecs]
<1>1. ASSUME c \in Conns
      PROVE  [conn[c] EXCEPT !.toS = Dropping(n, @)] \in ConnRecs
  <2>1. Dropping(n, conn[c].toS) \in Seq(Commands)
    BY <1>1, ConnQueues DEF Dropping
  <2>2. QED
    BY Zenon, <1>1, <2>1, ConnQueues, ToSUpdate
<1>2. QED
  BY Zenon, <1>1, ConnUpdate DEF Reads, TypeOK

(* The full synchronisation queues unmarked items of the keys it is given. *)
LEMMA SnapshotTypes ==
  ASSUME NEW K \in SUBSET Keys, NEW q \in Snapshot(K)
  PROVE  q \in Seq(Items) /\ IsSyncPrefix(q)
<1>1. IsFiniteSet(K)
  BY Zenon, KeysAssumption, FS_Subset
<1>2. Cardinality(K) \in Nat
  BY Zenon, <1>1, FS_CardinalityType
<1>3. PICK f \in [1 .. Cardinality(K) -> K] :
        q = [i \in 1 .. Cardinality(K) |-> NewItem(f[i], "ADD")]
  BY Zenon DEF Snapshot, AddItems, Ascending
<1>4. \A i \in 1 .. Cardinality(K) :
        q[i] \in Items /\ q[i].is_sync = FALSE
  BY Zenon, <1>3 DEF NewItem, Items
<1>5. q \in Seq(Items) /\ Len(q) = Cardinality(K)
  BY <1>2, <1>3, <1>4
<1>6. QED
  BY Zenon, <1>4, <1>5 DEF IsSyncPrefix

-----------------------------------------------------------------------------
(***************************************************************************)
(* No update is lost while nothing goes wrong.  That a key on which the    *)
(* databases differ is queued or on its way says nothing of a key that is  *)
(* queued and marked, which Pop may delete.  The invariant says more:      *)
(*  - Protocol: master and slave take turns, so that "ok" acknowledges the *)
(*    command that carries the marked items, and no other;                 *)
(*  - Covered: a key is unsent, or the slave will have the master's value  *)
(*    once it has executed what is on its way;                             *)
(*  - Marked: the marked items are the ones of that command, and Pop, which*)
(*    looks at 2 * SYNC_NUM items, deletes all of them;                    *)
(*  - Deletions: a DEL item whose key was written again is followed by the *)
(*    ADD of that write.                                                   *)
(***************************************************************************)

(* The two lines of connection c and the slave's reply that waits.         *)
Lines(c, m, s, r) == conn[c].toM = m /\ conn[c].toS = s /\ slave.reply = r
Quiet(c) == Lines(c, <<>>, <<>>, "")

(* The last message of the slave that the master has parsed on c, whether  *)
(* it has yet to be acted upon, and whether a command is out.              *)
Got(c, msgs, f, st) == conn[c].repmsg \in msgs /\ fresh = f /\ status = st

Greeting == IF UseAuth THEN {"auth"} ELSE {""}
Requests == {"data", "ok"}

(* Whose turn it is, from the auth request to the acknowledgement of a     *)
(* command: at most one message is on its way or waits to be acted upon.   *)
AuthAsked(c)  == /\ UseAuth /\ slave.status = "AUTH"
                 /\ Lines(c, <<"auth">>, <<>>, "") /\ Got(c, {""}, FALSE, 0)
AuthHeard(c)  == /\ UseAuth /\ slave.status = "AUTH"
                 /\ Quiet(c) /\ Got(c, {"auth"}, TRUE, 0)
AuthTold(c)   == /\ UseAuth /\ slave.status = "AUTH"
                 /\ Lines(c, <<>>, <<Reply("authok")>>, "") /\ Got(c, {"auth"}, FALSE, 0)
MayAsk(c)     == /\ slave.status = "CONTINUE"
                 /\ Quiet(c) /\ Got(c, Greeting, FALSE, 0)
Asked(c)      == /\ slave.status = "WAIT"
                 /\ Lines(c, <<"data">>, <<>>, "") /\ Got(c, Greeting, FALSE, 0)
DataHeard(c)  == /\ slave.status = "WAIT"
                 /\ Quiet(c) /\ Got(c, {"data"}, TRUE, 0)
Parked(c)     == /\ slave.status = "WAIT"
                 /\ Quiet(c) /\ Got(c, Requests, FALSE, 0) /\ mt.pc # "item"
Building(c)   == /\ slave.status = "WAIT"
                 /\ Quiet(c) /\ Got(c, Requests, FALSE, 1) /\ mt.pc = "item"
Told(c)       == /\ slave.status = "WAIT"
                 /\ conn[c].toM = <<>> /\ slave.reply = ""
                 /\ Len(conn[c].toS) = 1
                 /\ Head(conn[c].toS).op \in {"put", "del"}
                 /\ Got(c, Requests, FALSE, 1)
Executed(c)   == /\ slave.status = "WAIT"
                 /\ Lines(c, <<>>, <<>>, "ok") /\ Got(c, Requests, FALSE, 1)
OkSent(c)     == /\ slave.status = "WAIT"
                 /\ Lines(c, <<"ok">>, <<>>, "") /\ Got(c, Requests, FALSE, 1)
OkHeard(c)    == /\ slave.status = "WAIT"
                 /\ Quiet(c) /\ Got(c, {"ok"}, TRUE, 1)

Turn(c) ==
  \/ AuthAsked(c) \/ AuthHeard(c) \/ AuthTold(c) \/ MayAsk(c) \/ Asked(c)
  \/ DataHeard(c) \/ Parked(c) \/ Building(c) \/ Told(c) \/ Executed(c)
  \/ OkSent(c) \/ OkHeard(c)

(* Without a break there is one connection, and everyone means that one.   *)
OneConnection ==
  /\ \A d \in Conns : d # slave.conn => ~conn[d].open
  /\ conn_ \in {NoConn, slave.conn}
  /\ mt.pc # "idle" => mt.cur = slave.conn
  /\ slave.conn = NoConn => slave.links = 0 /\ ~fresh /\ status = 0 /\ mt.pc = "idle"

Protocol ==
  /\ OneConnection
  /\ ~registered => status = 0
  /\ slave.conn # NoConn =>
       LET c == slave.conn IN
         /\ conn[c].up /\ conn[c].open
         /\ conn[c].repmsg # "" => conn[c].master_auth
         /\ Turn(c)
         /\ mt.pc = "front" => Parked(c)
         /\ mt.pc = "item" => Building(c)

(* The object exists.                                                      *)
Made == registered \/ creating # NoConn

(* The slave has still to be sent the key.                                 *)
Holds(q, k) == \E i \in 1 .. Len(q) : q[i].key = k /\ ~q[i].is_sync
Unsent(k) ==
  Holds(que, k) \/ Holds(main_que, k) \/ \E w \in Workers : k \in todo[w].keys

(* A value of the slave with which the databases agree on the key.         *)
Right(k, v) == v = mval[k] \/ (mexp[k] = "dead" /\ v = 0)

(* The pairs that are on their way to the slave.                           *)
Carried ==
  IF mt.pc = "item" THEN mt.out
  ELSE IF slave.conn # NoConn /\ conn[slave.conn].toS # <<>>
         THEN Head(conn[slave.conn].toS).pairs
  ELSE <<>>

(* The value of k after a slave that holds s has executed pairs.           *)
Final(s, pairs, k) ==
  LET last == {i \in 1 .. Len(pairs) :
                 /\ pairs[i].key = k
                 /\ \A j \in i + 1 .. Len(pairs) : pairs[j].key # k}
  IN  IF last = {} THEN s[k] ELSE pairs[CHOOSE i \in last : TRUE].val

Covered ==
  IF Made THEN \A k \in Keys : Unsent(k) \/ Right(k, Final(sval, Carried, k))
          ELSE \A k \in Keys : sval[k] = 0

(* The queue that Start serves, the other one, and what is marked.         *)
SyncBelow(q, n) == \A i \in 1 .. Len(q) : q[i].is_sync <=> i <= n
Served == IF is_update_que THEN que ELSE main_que
Waiting == IF is_update_que THEN main_que ELSE que

Marked ==
  /\ SyncBelow(Waiting, 0)
  /\ status = 0 => SyncBelow(Served, 0)
  /\ mt.pc = "item" => SyncBelow(Served, mt.i - 1) /\ mt.n <= SyncNum
  /\ \E n \in 0 .. SyncNum : n <= Len(Served) /\ SyncBelow(Served, n)

(* The deletion is still what the master has, or a later write is queued   *)
(* behind it or about to be.                                               *)
AddTodo(k) ==
  \E w \in Workers : todo[w].op = "push" /\ todo[w].type = "ADD" /\ k \in todo[w].keys
Redone(i) ==
  \/ mval[main_que[i].key] = 0
  \/ AddTodo(main_que[i].key)
  \/ \E j \in i + 1 .. Len(main_que) :
       main_que[j].key = main_que[i].key /\ main_que[j].type = "ADD"

Deletions ==
  /\ ~registered => main_que = <<>>
  /\ \A i \in 1 .. Len(que) : que[i].type = "ADD"
  /\ \A w \in Workers : \A k \in todo[w].keys :
       todo[w].op = "push" /\ todo[w].type = "DEL" => mval[k] = 0
  /\ \A i \in 1 .. Len(main_que) : main_que[i].type = "DEL" => Redone(i)

LossInv == faults = {} => Protocol /\ Covered /\ Marked /\ Deletions

(* A step that leaves what the protocol is about.                          *)
SameConn ==
  \A d \in Conns : /\ conn'[d].toM = conn[d].toM /\ conn'[d].toS = conn[d].toS
                   /\ conn'[d].up = conn[d].up /\ conn'[d].open = conn[d].open
                   /\ conn'[d].repmsg = conn[d].repmsg
                   /\ conn'[d].master_auth = conn[d].master_auth

(* What is left of a queue from which sent items were deleted.             *)
Rest(q, r) ==
  \E n \in Nat : /\ n <= Len(q) /\ Len(r) = Len(q) - n
                 /\ \A i \in 1 .. n : q[i].is_sync
                 /\ \A i \in 1 .. Len(r) : i + n \in 1 .. Len(q) /\ r[i] = q[i + n]

(* The snapshot of the constructor has an unmarked ADD item for every key. *)
LEMMA SnapshotItems ==
  ASSUME NEW K \in SUBSET Keys, NEW q \in Snapshot(K)
  PROVE  /\ \A i \in 1 .. Len(q) : q[i].type = "ADD" /\ ~q[i].is_sync
         /\ \A k \in K : \E i \in 1 .. Len(q) : q[i].key = k /\ ~q[i].is_sync
<1> DEFINE n == Cardinality(K)
<1>1. IsFiniteSet(K)
  BY Zenon, FS_Subset, KeysAssumption
<1>2. n \in Nat
  BY Zenon, <1>1, FS_CardinalityType
<1>3. PICK f \in Ascending(n, K) : q = [i \in 1 .. n |-> NewItem(f[i], "ADD")]
  BY Zenon DEF Snapshot, AddItems
<1> HIDE DEF n
<1>4. f \in [1 .. n -> K] /\ \A i, j \in 1 .. n : i < j => f[i] < f[j]
  BY Zenon, <1>3 DEF Ascending
<1>5. \A i \in 1 .. n : f[i] \in Nat
  BY Zenon, <1>4, KeysAssumption
<1>6. \A i, j \in 1 .. n : f[i] = f[j] => i = j
  BY <1>2, <1>4, <1>5
<1>7. f \in Injection(1 .. n, K)
  BY Zenon, <1>4, <1>6 DEF Injection, IsInjective
<1>8. Cardinality(1 .. n) = n
  BY <1>2, FS_Interval
<1>9. f \in Surjection(1 .. n, K)
  BY Zenon, <1>1, <1>7, <1>8, FS_Injection DEF n
<1>10. \A k \in K : \E i \in 1 .. n : f[i] = k
  BY Zenon, <1>9 DEF Surjection
<1>11. Len(q) = n
  BY <1>2, <1>3
<1>12. \A i \in 1 .. n : q[i].key = f[i] /\ q[i].type = "ADD" /\ ~q[i].is_sync
  BY Zenon, <1>3 DEF NewItem
<1> QED
  BY Zenon, <1>10, <1>11, <1>12

(* A command without pairs changes nothing.                                *)
LEMMA LastOfNone ==
  ASSUME NEW s, NEW k
  PROVE  Final(s, <<>>, k) = s[k]
BY DEF Final

(* Every step keeps the invariant as long as nothing has gone wrong: first *)
(* the protocol, step by step (Turn), then the data (Loss).                *)
LEMMA LossKept == Inv /\ Inv' /\ LossInv /\ [Next]_vars => LossInv'
(* Connections are numbered from 1.                                        *)
<1>ConnNumber.
    ASSUME NEW c \in Conns
    PROVE  c # NoConn
  BY BoundAssumption DEF Conns, NoConn

(* The only connection that is open on the master is the slave's.          *)
<1>TurnThere.
    ASSUME Protocol, NEW c \in Conns, conn[c].open
    PROVE  c = slave.conn /\ slave.conn # NoConn
  <2> USE <1>TurnThere
  <2>1. c # NoConn
    BY Zenon, <1>ConnNumber
  <2> QED
    BY Zenon, <2>1 DEF Protocol, OneConnection

(* What the protocol says of the slave's connection.                       *)
<1>ProtocolOn.
    ASSUME TypeOK, Protocol, NEW c, c = slave.conn, c # NoConn
    PROVE  /\ c \in Conns
           /\ \A d \in Conns : d # c => ~conn[d].open
           /\ conn_ \in {NoConn, c}
           /\ mt.pc # "idle" => mt.cur = c
           /\ conn[c].up /\ conn[c].open
           /\ conn[c].repmsg # "" => conn[c].master_auth
           /\ Turn(c)
           /\ mt.pc = "front" => Parked(c)
           /\ mt.pc = "item" => Building(c)
  <2> USE <1>ProtocolOn
  <2>1. c \in Conns
    BY Zenon DEF TypeOK, SlaveRecs
  <2> QED
    BY Zenon, <2>1 DEF Protocol, OneConnection

(* What has to be shown of a step after which the slave has a connection.  *)
<1>ProtocolNext.
    ASSUME NEW c \in Conns, slave'.conn = c, ~registered' => status' = 0,
           \A d \in Conns : d # c => ~conn'[d].open,
           conn_' \in {NoConn, c}, mt'.pc # "idle" => mt'.cur = c,
           conn'[c].up, conn'[c].open,
           conn'[c].repmsg # "" => conn'[c].master_auth,
           Turn(c)', mt'.pc = "front" => Parked(c)', mt'.pc = "item" => Building(c)'
    PROVE  Protocol'
  <2> USE <1>ProtocolNext
  <2>1. c # NoConn
    BY Zenon, <1>ConnNumber
  <2>2. OneConnection'
    BY Zenon, <2>1 DEF OneConnection
  <2> QED
    BY Zenon, <2>1, <2>2 DEF Protocol, Turn, AuthAsked, AuthHeard, AuthTold, MayAsk,
       Asked,
       DataHeard, Parked, Building, Told, Executed, OkSent, OkHeard, Lines, Quiet, Got

(* Parser of rep reads the one message that is there and accepts it.       *)
<1>RepParserTurn.
    ASSUME Inv, Protocol, NEW c \in Conns, RepParser(c)
    PROVE  Protocol' /\ \A d \in Conns : conn'[d].toS = conn[d].toS
  <2> USE <1>RepParserTurn
  <2>1. c = slave.conn /\ c # NoConn
    BY Zenon, <1>TurnThere DEF RepParser
  <2>2. conn \in [Conns -> ConnRecs] /\ conn[c] \in ConnRecs
    BY Zenon DEF Inv, TypeOK
  <2>3. conn[c].toM \in Seq(RepMsgs)
    BY Zenon, <2>2 DEF ConnRecs
  <2>4. PICK n \in 1 .. Len(conn[c].toM) :
          LET m == Head(conn[c].toM)
              refused == UseAuth /\ ~conn[c].master_auth /\ ~(m = "auth" /\ n = 1)
              read == [conn EXCEPT ![c].toM = Dropping(n, @)]
          IN  /\ m # "err" /\ ~refused => conn' = [read EXCEPT ![c].repmsg = m,
                   ![c].master_auth = TRUE,
                                   ![c].curstatus = "DATA"]
              /\ fresh' = (fresh \/ (m # "err" /\ ~refused))
    BY Zenon DEF RepParser
  <2>5. conn[c].toM # <<>>
    BY <2>3, <2>4
  <2>6. AuthAsked(c) \/ Asked(c) \/ OkSent(c)
    BY Zenon, <2>1, <2>5 DEF Protocol, Turn, AuthHeard, AuthTold, MayAsk,
       DataHeard, Parked, Building, Told, Executed, OkHeard, Lines, Quiet
  <2>7. PICK m : /\ conn[c].toM = <<m>>
                 /\ \/ AuthAsked(c) /\ m = "auth"
                    \/ Asked(c) /\ m = "data" /\ (UseAuth => conn[c].master_auth)
                    \/ OkSent(c) /\ m = "ok" /\ conn[c].master_auth
    BY Zenon, <2>1, <2>6 DEF AuthAsked, Asked, OkSent, Lines, Got, Greeting, Requests,
       Protocol
  <2>8. n = 1 /\ Head(conn[c].toM) = m /\ Dropping(n, conn[c].toM) = <<>>
    BY <2>4, <2>7 DEF Dropping
  <2>9. fresh' = TRUE /\ conn' = [[conn EXCEPT ![c].toM = <<>>] EXCEPT ![c].repmsg = m,
          ![c].master_auth = TRUE,
                                   ![c].curstatus = "DATA"]
    BY Zenon, <2>4, <2>7, <2>8
  <2>10. /\ conn'[c].toM = <<>> /\ conn'[c].toS = conn[c].toS /\ conn'[c].repmsg = m
         /\ conn'[c].master_auth /\ conn'[c].up = conn[c].up
              /\ conn'[c].open = conn[c].open
         /\ \A d \in Conns : d # c => conn'[d] = conn[d]
    BY Zenon, <2>2, <2>9 DEF ConnRecs
  <2>11. AuthHeard(c)' \/ DataHeard(c)' \/ OkHeard(c)'
    BY Zenon, <2>7, <2>9, <2>10 DEF AuthAsked, Asked, OkSent, AuthHeard, DataHeard,
       OkHeard, Lines, Quiet, Got, RepParser, slaveVars
  <2>12. mt.pc \notin {"front", "item"}
    BY Zenon, <2>1, <2>5 DEF Protocol, Parked, Building, Quiet, Lines
  <2>13. Turn(c)'
    BY Zenon, <2>11 DEF Turn
  <2>14. UNCHANGED <<slave, registered, status, conn_, mt>>
    BY Zenon DEF RepParser, slaveVars, regVars
  <2>15. Protocol'
    BY Zenon, <2>1, <2>10, <2>12, <2>13, <2>14, <1>ProtocolOn, <1>ProtocolNext DEF Inv,
       Protocol
  <2> QED
    BY Zenon, <2>10, <2>15

(* A step that leaves the messages alone keeps the protocol, as long as    *)
(* Start is not under way on either side of it.                            *)
<1>TurnAside.
    ASSUME Inv, Protocol, SameConn, UNCHANGED <<slave, fresh, status>>,
           registered => registered', conn_' \in {NoConn, slave.conn},
           \/ mt' = mt
           \/ /\ mt.pc # "item" /\ mt'.pc \notin {"front", "item"}
              /\ slave.conn # NoConn
              /\ mt'.pc # "idle" => mt'.cur = slave.conn
    PROVE  Protocol'
  <2> USE <1>TurnAside
  <2>0. PICK c : c = slave.conn
    BY Zenon
  <2>1. CASE c = NoConn
    <3>1. mt' = mt /\ conn_' = NoConn
      BY Zenon, <2>0, <2>1
    <3>2. OneConnection'
      BY Zenon, <2>0, <2>1, <3>1 DEF Protocol, OneConnection, SameConn
    <3>3. ~registered' => status' = 0
      BY Zenon DEF Protocol
    <3> QED
      BY Zenon, <2>0, <2>1, <3>2, <3>3 DEF Protocol
  <2>2. CASE c # NoConn
    <3>1. c = slave.conn /\ c = slave'.conn
      BY Zenon, <2>0
    <3>2. /\ c \in Conns /\ conn[c].up /\ conn[c].open /\ Turn(c)
          /\ \A d \in Conns : d # c => ~conn[d].open
          /\ mt.pc # "idle" => mt.cur = c
          /\ conn[c].repmsg # "" => conn[c].master_auth
          /\ mt.pc = "front" => Parked(c)
          /\ mt.pc = "item" => Building(c)
      BY Zenon, <2>2, <3>1, <1>ProtocolOn DEF Inv
    <3>3. /\ conn'[c].toM = conn[c].toM /\ conn'[c].toS = conn[c].toS
          /\ conn'[c].repmsg = conn[c].repmsg
      BY Zenon, <3>2 DEF SameConn
    <3>4. /\ AuthAsked(c) => AuthAsked(c)'
          /\ AuthHeard(c) => AuthHeard(c)'
          /\ AuthTold(c) => AuthTold(c)'
          /\ MayAsk(c) => MayAsk(c)'
          /\ Asked(c) => Asked(c)'
          /\ DataHeard(c) => DataHeard(c)'
          /\ Parked(c) => Parked(c)'
          /\ Told(c) => Told(c)'
          /\ Executed(c) => Executed(c)'
          /\ OkSent(c) => OkSent(c)'
          /\ OkHeard(c) => OkHeard(c)'
      BY Zenon, <3>3 DEF AuthAsked, AuthHeard, AuthTold, MayAsk, Asked,
         DataHeard, Parked, Building, Told, Executed, OkSent, OkHeard, Lines, Quiet, Got
    <3>5. Building(c) => mt' = mt /\ Building(c)'
      BY Zenon, <3>3 DEF Building, Lines, Quiet, Got
    <3>6. Turn(c)'
      BY Zenon, <3>2, <3>4, <3>5 DEF Turn
    <3>7. mt'.pc # "idle" => mt'.cur = c
      BY Zenon, <3>1, <3>2
    <3>8. mt'.pc = "front" => Parked(c)'
      BY Zenon, <3>2, <3>4
    <3>9. mt'.pc = "item" => Building(c)'
      BY Zenon, <3>2, <3>5
    <3>10. ~registered' => status' = 0
      BY Zenon DEF Protocol
    <3>11. /\ \A d \in Conns : d # c => ~conn'[d].open
           /\ conn'[c].up /\ conn'[c].open
           /\ conn'[c].repmsg # "" => conn'[c].master_auth
      BY Zenon, <3>2 DEF SameConn
    <3> QED
      BY Zenon, <3>1, <3>2, <3>6, <3>7, <3>8, <3>9, <3>10, <3>11, <1>ProtocolNext
  <2> QED
    BY Zenon, <2>1, <2>2

(* The connections are as before.                                          *)
<1>ConnStays.
    ASSUME conn' = conn
    PROVE  SameConn
  BY Zenon, <1>ConnStays DEF SameConn

(* Client commands have nothing to do with the protocol.                   *)
<1>ClientTurn.
    ASSUME Inv, Protocol, UNCHANGED <<conn, slave, fresh, status, registered, conn_, mt>>
    PROVE  Protocol'
  <2> USE <1>ClientTurn
  <2>1. conn_ \in {NoConn, slave.conn}
    BY Zenon DEF Protocol, OneConnection
  <2> QED
    BY Zenon, <2>1, <1>ConnStays, <1>TurnAside

(* MasterHandle finds an open connection, the slave's.                     *)
<1>MasterHandleTurn.
    ASSUME Inv, Protocol, MasterHandle
    PROVE  Protocol'
  <2> USE <1>MasterHandleTurn
  <2>1. conn_ \in {NoConn, slave.conn}
    BY Zenon DEF Protocol, OneConnection
  <2>2. conn_ # NoConn => conn[conn_].open
    BY Zenon, <2>1 DEF Protocol
  <2>3. mt' = mt \/ (conn_ # NoConn /\ mt' = [mt EXCEPT !.pc = "start", !.cur = conn_])
    BY Zenon, <2>2 DEF MasterHandle
  <2>4. mt \in MasterThreads /\ mt.pc = "idle"
    BY Zenon DEF Inv, TypeOK, MasterHandle
  <2>5. mt' = mt \/ (conn_ # NoConn /\ mt'.pc = "start" /\ mt'.cur = conn_)
    BY Zenon, <2>3, <2>4 DEF MasterThreads
  <2>6. UNCHANGED <<conn, slave, fresh, status, registered, conn_>>
    BY Zenon DEF MasterHandle, slaveVars, regVars
  <2> QED
    BY Zenon, <2>1, <2>4, <2>5, <2>6, <1>ConnStays, <1>TurnAside

(* The end of MasterHandle touches only curstatus.                         *)
<1>MasterFinishTurn.
    ASSUME Inv, Protocol, MasterFinish
    PROVE  Protocol' /\ SameConn
  <2> USE <1>MasterFinishTurn
  <2>1. conn \in [Conns -> ConnRecs] /\ mt.pc = "sent" /\ mt' = IdleThread
        /\ conn' = [conn EXCEPT ![mt.cur].curstatus = "READ"]
    BY Zenon DEF Inv, TypeOK, MasterFinish
  <2>2. SameConn
    BY Zenon, <2>1 DEF SameConn, ConnRecs
  <2>3. conn_ \in {NoConn, slave.conn} /\ slave.conn # NoConn
    BY Zenon, <2>1 DEF Protocol, OneConnection
  <2>4. mt'.pc = "idle"
    BY Zenon, <2>1 DEF IdleThread
  <2>5. UNCHANGED <<slave, fresh, status, registered, conn_>>
    BY Zenon DEF MasterFinish, slaveVars, regVars
  <2> QED
    BY Zenon, <2>1, <2>2, <2>3, <2>4, <2>5, <1>TurnAside

(* Complete of rep stores the connection it is called for.                 *)
<1>RepCompleteTurn.
    ASSUME Inv, Protocol, NEW c \in Conns, RepComplete(c)
    PROVE  Protocol' /\ SameConn
  <2> USE <1>RepCompleteTurn
  <2>1. conn \in [Conns -> ConnRecs] /\ conn_' = c
        /\ conn' = [conn EXCEPT ![c].dest = TRUE, ![c].curstatus = "READ"]
    BY Zenon DEF Inv, TypeOK, RepComplete
  <2>2. SameConn
    <3>1. conn[c] \in ConnRecs
      BY Zenon, <2>1
    <3>2. /\ conn'[c].toM = conn[c].toM /\ conn'[c].toS = conn[c].toS
          /\ conn'[c].up = conn[c].up /\ conn'[c].open = conn[c].open
          /\ conn'[c].repmsg = conn[c].repmsg
          /\ conn'[c].master_auth = conn[c].master_auth
          /\ \A d \in Conns : d # c => conn'[d] = conn[d]
      BY Zenon, <2>1, <3>1 DEF ConnRecs
    <3> QED
      BY Zenon, <3>2 DEF SameConn
  <2>3. c = slave.conn
    BY Zenon, <1>TurnThere DEF RepComplete
  <2>4. UNCHANGED <<slave, fresh, status, registered, mt>>
    BY Zenon DEF RepComplete, slaveVars, regVars
  <2> QED
    BY Zenon, <2>1, <2>2, <2>3, <2>4, <1>TurnAside

(* Constructing and publishing the object send nothing.                    *)
<1>RegisterTurn.
    ASSUME Inv, Protocol, NEW c \in Conns, RepCreate(c) \/ RepPublish(c)
    PROVE  Protocol'
  <2> USE <1>RegisterTurn
  <2>1. conn_ \in {NoConn, slave.conn}
    BY Zenon DEF Protocol, OneConnection
  <2>2. UNCHANGED <<conn, slave, fresh, status, mt, conn_>> /\ (registered => registered')
    BY Zenon DEF RepCreate, RepPublish, slaveVars
  <2> QED
    BY Zenon, <2>1, <2>2, <1>ConnStays, <1>TurnAside

(* Without a stray wake-up, Start answers an auth request that was         *)
(* accepted, once.                                                         *)
<1>StartReplyTurn.
    ASSUME Inv, Protocol, StartReply, faults' = {}
    PROVE  Protocol' /\ \A c \in Conns : conn'[c].toS = conn[c].toS
             \/ (conn[c].toS = <<>> /\ conn'[c].toS = <<Reply("authok")>>)
  <2> USE <1>StartReplyTurn
  <2>1. mt.pc = "start" /\ fresh
    BY Zenon DEF StartReply
  <2>2. PICK c : c = slave.conn /\ c = mt.cur /\ c # NoConn
    BY Zenon, <2>1 DEF Protocol, OneConnection
  <2>3. /\ c \in Conns /\ conn[c].up /\ conn[c].open /\ Turn(c)
        /\ \A d \in Conns : d # c => ~conn[d].open
        /\ conn[c].repmsg # "" => conn[c].master_auth
    BY Zenon, <2>2, <1>ProtocolOn DEF Inv
  <2>4. conn \in [Conns -> ConnRecs] /\ conn[c] \in ConnRecs /\ mt \in MasterThreads
    BY Zenon, <2>3 DEF Inv, TypeOK
  <2>5. AuthHeard(c)
    BY Zenon, <2>1, <2>2, <2>3 DEF StartReply, Turn, AuthAsked, AuthTold, MayAsk, Asked,
       DataHeard, Parked, Building, Told, Executed, OkSent, OkHeard, Got
  <2>6. conn' = [SendToSlave(c, Reply("authok")) EXCEPT ![c].dest = TRUE]
    BY Zenon, <2>2, <2>5 DEF StartReply, AuthHeard, Got
  <2>7. conn[c].toS = <<>> /\ Append(conn[c].toS, Reply("authok")) = <<Reply("authok")>>
    <3>1. conn[c].toS = <<>>
      BY Zenon, <2>5 DEF AuthHeard, Quiet, Lines
    <3> QED
      BY <3>1
  <2>8. conn' = [[conn EXCEPT ![c].toS = <<Reply("authok")>>] EXCEPT ![c].dest = TRUE]
    BY Zenon, <2>3, <2>6, <2>7 DEF SendToSlave
  <2>9. /\ conn'[c].toM = conn[c].toM /\ conn'[c].toS = <<Reply("authok")>>
        /\ conn'[c].up = conn[c].up /\ conn'[c].open = conn[c].open
        /\ conn'[c].repmsg = conn[c].repmsg
        /\ conn'[c].master_auth = conn[c].master_auth
        /\ \A d \in Conns : d # c => conn'[d] = conn[d]
    <3> DEFINE r == [conn[c] EXCEPT !.toS = <<Reply("authok")>>]
    <3>1. conn'[c] = [r EXCEPT !.dest = TRUE] /\ \A d \in Conns : d # c
            => conn'[d] = conn[d]
      BY Zenon, <2>3, <2>4, <2>8
    <3>2. /\ [r EXCEPT !.dest = TRUE].toS = <<Reply("authok")>>
          /\ \A f \in {"toM", "up", "open", "repmsg", "master_auth"} :
               [r EXCEPT !.dest = TRUE][f] = conn[c][f]
      BY <2>4 DEF ConnRecs
    <3> QED
      BY Zenon, <3>1, <3>2
  <2>10. mt'.pc = "sent" /\ mt'.cur = c /\ conn_' = c /\ fresh' = FALSE
    BY Zenon, <2>2, <2>4 DEF StartReply, MasterThreads
  <2>11. UNCHANGED <<slave, status, registered>>
    BY Zenon DEF StartReply, slaveVars, regVars
  <2>12. AuthTold(c)'
    BY Zenon, <2>5, <2>9, <2>10, <2>11 DEF AuthHeard, AuthTold, Quiet, Lines, Got
  <2>13. Turn(c)'
    BY Zenon, <2>12 DEF Turn
  <2>14. Protocol'
    BY Zenon, <2>2, <2>3, <2>9, <2>10, <2>11, <2>13, <1>ProtocolNext DEF Protocol
  <2> QED
    BY Zenon, <2>7, <2>9, <2>14

(* Start acts upon "data" when no command is out, and upon "ok" when the   *)
(* slave has acknowledged the one that is.                                 *)
<1>StartDataTurn.
    ASSUME Inv, Protocol, StartData, faults' = {}
    PROVE  /\ Protocol' /\ SameConn
           /\ status = 1 => /\ OkHeard(slave.conn)
                            /\ conn[mt.cur].repmsg = "ok"
  <2> USE <1>StartDataTurn
  <2>1. mt.pc = "start" /\ (fresh \/ status = 0)
    BY Zenon DEF StartData
  <2>2. PICK c : c = slave.conn /\ c = mt.cur /\ c # NoConn
    BY Zenon, <2>1 DEF Protocol, OneConnection
  <2>3. /\ c \in Conns /\ conn[c].up /\ conn[c].open /\ Turn(c)
        /\ \A d \in Conns : d # c => ~conn[d].open
        /\ conn[c].repmsg # "" => conn[c].master_auth
    BY Zenon, <2>2, <1>ProtocolOn DEF Inv
  <2>4. conn \in [Conns -> ConnRecs] /\ conn[c] \in ConnRecs /\ mt \in MasterThreads
    BY Zenon, <2>3 DEF Inv, TypeOK
  <2>5. conn[c].repmsg \in Requests
    BY Zenon, <2>2 DEF StartData, Requests
  <2>6. 0 # 1
    OBVIOUS
  <2>7. DataHeard(c) \/ Parked(c) \/ OkHeard(c)
    BY Zenon, <2>1, <2>5, <2>6, <2>3 DEF Turn, AuthAsked, AuthHeard, AuthTold, MayAsk,
       Asked,
       Building, Told, Executed, OkSent, Got, Requests, Greeting
  <2>8. SameConn
    BY Zenon, <2>2, <2>4 DEF SameConn, ConnRecs, StartData
  <2>9. mt'.pc = "front" /\ mt'.cur = c /\ conn_' = c /\ fresh' = FALSE /\ status' = 0
    BY Zenon, <2>2, <2>4 DEF StartData, MasterThreads
  <2>10. UNCHANGED <<slave, registered>>
    BY Zenon DEF StartData, slaveVars, regVars
  <2>11. Parked(c)'
    <3>1. conn'[c].toM = conn[c].toM /\ conn'[c].toS = conn[c].toS
            /\ conn'[c].repmsg \in Requests
      BY Zenon, <2>3, <2>5, <2>8 DEF SameConn
    <3>2. slave.status = "WAIT" /\ Quiet(c)
      BY Zenon, <2>7 DEF DataHeard, Parked, OkHeard
    <3> QED
      BY Zenon, <3>1, <3>2, <2>9, <2>10 DEF Parked, Quiet, Lines, Got
  <2>12. Turn(c)'
    BY Zenon, <2>11 DEF Turn
  <2>13. Protocol'
    BY Zenon, <2>2, <2>3, <2>8, <2>9, <2>10, <2>11, <2>12, <1>ProtocolNext DEF SameConn
  <2>14. status = 1 => OkHeard(c) /\ conn[c].repmsg = "ok"
    BY Zenon, <2>6, <2>7 DEF DataHeard, Parked, OkHeard, Got
  <2> QED
    BY Zenon, <2>2, <2>8, <2>13, <2>14

(* A batch is opened only when no command is out.                          *)
<1>FrontNumsTurn.
    ASSUME Inv, Protocol, FrontNums
    PROVE  /\ Protocol' /\ status = 0 /\ slave.conn # NoConn
           /\ conn[slave.conn].toS = <<>>
  <2> USE <1>FrontNumsTurn
  <2>1. mt.pc = "front"
    BY Zenon DEF FrontNums
  <2>2. PICK c : c = slave.conn /\ c = mt.cur /\ c # NoConn
    BY Zenon, <2>1 DEF Protocol, OneConnection
  <2>3. /\ c \in Conns /\ conn[c].up /\ conn[c].open /\ Parked(c)
        /\ \A d \in Conns : d # c => ~conn[d].open
        /\ conn_ \in {NoConn, c}
        /\ conn[c].repmsg # "" => conn[c].master_auth
    BY Zenon, <2>1, <2>2, <1>ProtocolOn DEF Inv
  <2>4. mt \in MasterThreads
    BY Zenon DEF Inv, TypeOK
  <2>5. \/ mt'.pc = "sent" /\ mt'.cur = c /\ status' = status
        \/ mt'.pc = "item" /\ mt'.cur = c /\ status' = 1
    BY Zenon, <2>2, <2>4 DEF FrontNums, MasterThreads
  <2>6. UNCHANGED <<conn, slave, registered, conn_, fresh>>
    BY Zenon DEF FrontNums, slaveVars, regVars
  <2>7. \/ Parked(c)' /\ mt'.pc = "sent"
        \/ Building(c)' /\ mt'.pc = "item"
    BY Zenon, <2>3, <2>5, <2>6 DEF Parked, Building, Quiet, Lines, Got
  <2>8. Turn(c)'
    BY Zenon, <2>7 DEF Turn
  <2>9. registered'
    BY Zenon, <2>1, <2>6 DEF Inv, Unpublished
  <2>10. Protocol'
    BY Zenon, <2>2, <2>3, <2>5, <2>6, <2>7, <2>8, <2>9, <1>ProtocolNext
  <2> QED
    BY Zenon, <2>2, <2>3, <2>10 DEF Parked, Quiet, Lines, Got

(* A connection after a change of what is on its way to the slave ...      *)
<1>ToSIs.
    ASSUME TypeOK, NEW c \in Conns, NEW q, conn' = [conn EXCEPT ![c].toS = q]
    PROVE  /\ conn'[c].toM = conn[c].toM /\ conn'[c].toS = q
           /\ conn'[c].up = conn[c].up /\ conn'[c].open = conn[c].open
           /\ conn'[c].repmsg = conn[c].repmsg
           /\ conn'[c].master_auth = conn[c].master_auth
           /\ \A d \in Conns : d # c => conn'[d] = conn[d]
  <2> USE <1>ToSIs
  <2>1. conn \in [Conns -> ConnRecs] /\ conn[c] \in ConnRecs
    BY Zenon DEF TypeOK
  <2>2. conn'[c] = [conn[c] EXCEPT !.toS = q] /\ \A d \in Conns : d # c
          => conn'[d] = conn[d]
    BY Zenon, <2>1
  <2> QED
    BY Zenon, <2>1, <2>2 DEF ConnRecs

(* ... and to the master.                                                  *)
<1>ToMIs.
    ASSUME TypeOK, NEW c \in Conns, NEW q, conn' = [conn EXCEPT ![c].toM = q]
    PROVE  /\ conn'[c].toM = q /\ conn'[c].toS = conn[c].toS
           /\ conn'[c].up = conn[c].up /\ conn'[c].open = conn[c].open
           /\ conn'[c].repmsg = conn[c].repmsg
           /\ conn'[c].master_auth = conn[c].master_auth
           /\ \A d \in Conns : d # c => conn'[d] = conn[d]
  <2> USE <1>ToMIs
  <2>1. conn \in [Conns -> ConnRecs] /\ conn[c] \in ConnRecs
    BY Zenon DEF TypeOK
  <2>2. conn'[c] = [conn[c] EXCEPT !.toM = q] /\ \A d \in Conns : d # c
          => conn'[d] = conn[d]
    BY Zenon, <2>1
  <2> QED
    BY Zenon, <2>1, <2>2 DEF ConnRecs

(* A command is built and sent while the slave waits and nothing is on its *)
(* way.                                                                    *)
<1>StartItemTurn.
    ASSUME Inv, Protocol, StartItem
    PROVE  /\ Protocol' /\ slave.conn \in Conns /\ slave.conn = mt.cur
           /\ conn[mt.cur].toS = <<>> /\ conn[mt.cur].up /\ conn[mt.cur].open
  <2> USE <1>StartItemTurn
  <2>1. mt.pc = "item"
    BY Zenon DEF StartItem
  <2>2. PICK c : c = slave.conn /\ c = mt.cur /\ c # NoConn
    BY Zenon, <2>1 DEF Protocol, OneConnection
  <2>3. /\ c \in Conns /\ conn[c].up /\ conn[c].open /\ Building(c)
        /\ \A d \in Conns : d # c => ~conn[d].open
        /\ conn_ \in {NoConn, c}
        /\ conn[c].repmsg # "" => conn[c].master_auth
    BY Zenon, <2>1, <2>2, <1>ProtocolOn DEF Inv
  <2>4. conn \in [Conns -> ConnRecs] /\ conn[c] \in ConnRecs /\ mt \in MasterThreads
    BY Zenon, <2>3 DEF Inv, TypeOK
  <2>5. /\ mt'.cur = c
        /\ \/ mt'.pc = "item" /\ conn' = conn
           \/ /\ mt'.pc = "sent"
              /\ \E pairs, k : conn' = SendToSlave(c, Put(pairs))
                   \/ conn' = SendToSlave(c, DelCommand(k))
    BY Zenon, <2>1, <2>2, <2>4 DEF StartItem, SendCommand, MasterThreads
  <2>6. UNCHANGED <<slave, registered, conn_, fresh, status>>
    BY Zenon DEF StartItem, slaveVars, regVars
  <2>7. registered' /\ conn[c].toS = <<>>
    BY Zenon, <2>1, <2>3, <2>6 DEF Inv, Unpublished, Building, Quiet, Lines
  <2>8. ASSUME mt'.pc = "item", conn' = conn
        PROVE  Protocol'
    <3>1. Building(c)'
      BY Zenon, <2>3, <2>6, <2>8 DEF Building, Quiet, Lines, Got
    <3>2. Turn(c)'
      BY Zenon, <3>1 DEF Turn
    <3> QED
      BY Zenon, <2>2, <2>3, <2>5, <2>6, <2>7, <2>8, <3>1, <3>2, <1>ProtocolNext
  <2>9. \A pairs, k : Put(pairs).op \in {"put", "del"} /\ DelCommand(k).op \in {"put",
          "del"}
    BY DEF Put, DelCommand
  <2>10. ASSUME mt'.pc = "sent"
         PROVE  Protocol'
    <3>1. PICK pairs, k : conn' = SendToSlave(c, Put(pairs)) \/ conn' = SendToSlave(c,
            DelCommand(k))
      BY Zenon, <2>5, <2>10
    <3>2. PICK m : m \in {Put(pairs), DelCommand(k)} /\ conn' = SendToSlave(c, m)
      BY Zenon, <3>1
    <3>3. m.op \in {"put", "del"}
      BY Zenon, <2>9, <3>2
    <3>4. Append(conn[c].toS, m) = <<m>>
      BY <2>7
    <3>5. conn' = [conn EXCEPT ![c].toS = <<m>>]
      BY Zenon, <2>3, <3>2, <3>4 DEF SendToSlave
    <3>6. /\ conn'[c].toM = conn[c].toM /\ conn'[c].toS = <<m>>
          /\ conn'[c].up = conn[c].up /\ conn'[c].open = conn[c].open
          /\ conn'[c].repmsg = conn[c].repmsg
          /\ conn'[c].master_auth = conn[c].master_auth
          /\ \A d \in Conns : d # c => conn'[d] = conn[d]
      BY Zenon, <2>3, <3>5, <1>ToSIs DEF Inv
    <3>7. Len(<<m>>) = 1 /\ Head(<<m>>) = m
      OBVIOUS
    <3>8. Told(c)'
      BY Zenon, <2>3, <2>6, <2>10, <3>3, <3>6, <3>7 DEF Building, Told, Quiet, Lines, Got
    <3>9. Turn(c)'
      BY Zenon, <3>8 DEF Turn
    <3> QED
      BY Zenon, <2>2, <2>3, <2>5, <2>6, <2>7, <2>10, <3>6, <3>9, <1>ProtocolNext
  <2>11. Protocol'
    BY Zenon, <2>5, <2>8, <2>10
  <2> QED
    BY Zenon, <2>2, <2>3, <2>7, <2>11

(* The slave connects once.                                                *)
<1>SlaveLinkTurn.
    ASSUME Inv, Protocol, SlaveLink
    PROVE  /\ Protocol' /\ slave.conn = NoConn /\ mt'.pc # "item" /\ mt.pc # "item"
           /\ conn'[slave'.conn].toS = <<>>
  <2> USE <1>SlaveLinkTurn
  <2>1. slave.conn = NoConn /\ slave.links = 0
    BY Zenon DEF SlaveLink, Protocol, OneConnection
  <2>2. slave.links + 1 = 1 /\ 1 \in Conns
    BY <2>1, BoundAssumption DEF SlaveLink, Conns
  <2>3. /\ mt.pc = "idle" /\ ~fresh /\ status = 0 /\ conn_ = NoConn
        /\ \A d \in Conns : ~conn[d].open
    BY Zenon, <2>1, <1>ConnNumber DEF Protocol, OneConnection
  <2>4. PICK auth \in BOOLEAN :
          conn' = [conn EXCEPT ![1] =
                     [NeverConnected EXCEPT
                        !.up = TRUE, !.open = TRUE, !.master_auth = auth,
                        !.toM = IF UseAuth THEN <<"auth">> ELSE <<>>]]
    BY Zenon, <2>2 DEF SlaveLink
  <2>5. conn \in [Conns -> ConnRecs] /\ slave \in SlaveRecs
    BY Zenon DEF Inv, TypeOK
  <2>6. /\ conn'[1].up /\ conn'[1].open /\ conn'[1].repmsg = "" /\ conn'[1].toS = <<>>
        /\ conn'[1].toM = (IF UseAuth THEN <<"auth">> ELSE <<>>)
        /\ \A d \in Conns : d # 1 => conn'[d] = conn[d]
    BY Zenon, <2>2, <2>4, <2>5 DEF NeverConnected
  <2>7. /\ slave'.status = (IF UseAuth THEN "AUTH" ELSE "CONTINUE")
        /\ slave'.conn = 1 /\ slave'.reply = ""
    BY Zenon, <2>2, <2>5 DEF SlaveLink, SlaveRecs
  <2>8. UNCHANGED <<status, conn_, mt, fresh, registered>>
    BY Zenon DEF SlaveLink, regVars
  <2>9. fresh' = FALSE /\ status' = 0
    BY Zenon, <2>3, <2>8 DEF Inv, TypeOK
  <2>10. Turn(1)'
    <3>1. CASE UseAuth
      <4>1. AuthAsked(1)'
        BY Zenon, <3>1, <2>6, <2>7, <2>9 DEF AuthAsked, Lines, Got
      <4> QED
        BY Zenon, <4>1 DEF Turn
    <3>2. CASE ~UseAuth
      <4>1. MayAsk(1)'
        BY Zenon, <3>2, <2>6, <2>7, <2>9 DEF MayAsk, Quiet, Lines, Got, Greeting
      <4> QED
        BY Zenon, <4>1 DEF Turn
    <3> QED
      BY Zenon, <3>1, <3>2
  <2>11. Protocol'
    BY Zenon, <2>2, <2>3, <2>6, <2>7, <2>8, <2>9, <2>10, <1>ProtocolNext
  <2> QED
    BY Zenon, <2>1, <2>3, <2>6, <2>7, <2>8, <2>11

(* The slave asks for data only when it owes no reply.                     *)
<1>SlaveAskTurn.
    ASSUME Inv, Protocol, SlaveAsk
    PROVE  /\ Protocol' /\ slave.conn \in Conns /\ slave'.conn = slave.conn
           /\ conn'[slave.conn].toS = conn[slave.conn].toS
  <2> USE <1>SlaveAskTurn
  <2>1. PICK c : c = slave.conn /\ c # NoConn /\ slave.status = "CONTINUE"
    BY Zenon DEF SlaveAsk
  <2>2. /\ c \in Conns /\ conn[c].up /\ conn[c].open /\ Turn(c)
        /\ \A d \in Conns : d # c => ~conn[d].open
        /\ conn_ \in {NoConn, c} /\ (mt.pc # "idle" => mt.cur = c)
        /\ conn[c].repmsg # "" => conn[c].master_auth
        /\ mt.pc = "front" => Parked(c)
        /\ mt.pc = "item" => Building(c)
    BY Zenon, <2>1, <1>ProtocolOn DEF Inv
  <2>3. conn \in [Conns -> ConnRecs] /\ conn[c] \in ConnRecs /\ slave \in SlaveRecs
    BY Zenon, <2>2 DEF Inv, TypeOK
  <2>4. MayAsk(c) /\ mt.pc \notin {"front", "item"}
    BY Zenon, <2>1, <2>2 DEF Turn, AuthAsked, AuthHeard, AuthTold, Asked,
       DataHeard, Parked, Building, Told, Executed, OkSent, OkHeard
  <2>5. conn[c].toM = <<>>
    BY Zenon, <2>4 DEF MayAsk, Quiet, Lines
  <2>6. Append(conn[c].toM, "data") = <<"data">>
    BY <2>5
  <2>7. conn' = [conn EXCEPT ![c].toM = <<"data">>]
    BY Zenon, <2>1, <2>2, <2>6 DEF SlaveAsk, SendToMaster
  <2>8. /\ conn'[c].toM = <<"data">> /\ conn'[c].toS = conn[c].toS
        /\ conn'[c].up = conn[c].up /\ conn'[c].open = conn[c].open
        /\ conn'[c].repmsg = conn[c].repmsg
        /\ conn'[c].master_auth = conn[c].master_auth
        /\ \A d \in Conns : d # c => conn'[d] = conn[d]
    BY Zenon, <2>2, <2>3, <2>7 DEF ConnRecs
  <2>9. slave'.status = "WAIT" /\ slave'.reply = "" /\ slave'.conn = c
    BY Zenon, <2>1, <2>3 DEF SlaveAsk, SlaveRecs
  <2>10. UNCHANGED <<status, conn_, mt, fresh, registered>>
    BY Zenon DEF SlaveAsk, regVars
  <2>11. Asked(c)'
    BY Zenon, <2>4, <2>8, <2>9, <2>10 DEF MayAsk, Asked, Quiet, Lines, Got
  <2>12. Turn(c)'
    BY Zenon, <2>11 DEF Turn
  <2>13. Protocol'
    BY Zenon, <2>2, <2>4, <2>8, <2>9, <2>10, <2>12, <1>ProtocolNext DEF Protocol
  <2> QED
    BY Zenon, <2>1, <2>2, <2>8, <2>9, <2>13

(* The slave reads the one command that is on its way to it.               *)
<1>ReadTurn.
    ASSUME Inv, Protocol, NEW c \in Conns, c = slave.conn,
             NEW n \in 1 .. Len(conn[c].toS),
           conn' = Reads(c, n), UNCHANGED <<status, conn_, mt, fresh, registered>>,
           slave'.conn = c,
           \/ /\ Head(conn[c].toS).op # "authok"
              /\ slave'.status = slave.status /\ slave'.reply = "ok"
           \/ /\ Head(conn[c].toS).op \notin {"put", "del"}
              /\ slave'.status = "CONTINUE" /\ slave'.reply = slave.reply
    PROVE  Protocol' /\ conn'[c].toS = <<>>
  <2> USE <1>ReadTurn
  <2>1. c # NoConn
    BY Zenon, <1>ConnNumber
  <2>2. /\ conn[c].up /\ conn[c].open /\ Turn(c)
        /\ \A d \in Conns : d # c => ~conn[d].open
        /\ conn_ \in {NoConn, c} /\ (mt.pc # "idle" => mt.cur = c)
        /\ conn[c].repmsg # "" => conn[c].master_auth
        /\ mt.pc = "front" => Parked(c)
        /\ mt.pc = "item" => Building(c)
    BY Zenon, <2>1, <1>ProtocolOn DEF Inv
  <2>3. conn \in [Conns -> ConnRecs] /\ conn[c] \in ConnRecs
          /\ conn[c].toS \in Seq(Commands)
    BY Zenon, <2>2 DEF Inv, TypeOK, ConnRecs
  <2>4. conn[c].toS # <<>>
    BY <2>3
  <2>5. (AuthTold(c) \/ Told(c)) /\ mt.pc \notin {"front", "item"}
    BY Zenon, <2>2, <2>4 DEF Turn, AuthAsked, AuthHeard, MayAsk, Asked,
       DataHeard, Parked, Building, Executed, OkSent, OkHeard, Quiet, Lines
  <2>6. \/ AuthTold(c) /\ Head(conn[c].toS).op = "authok" /\ Len(conn[c].toS) = 1
        \/ Told(c) /\ Head(conn[c].toS).op \in {"put", "del"} /\ Len(conn[c].toS) = 1
    <3>1. CASE AuthTold(c)
      <4>1. conn[c].toS = <<Reply("authok")>>
        BY Zenon, <3>1 DEF AuthTold, Lines
      <4> QED
        BY <3>1, <4>1 DEF Reply
    <3>2. CASE Told(c)
      BY Zenon, <3>2 DEF Told
    <3> QED
      BY Zenon, <2>5, <3>1, <3>2
  <2>7. Dropping(n, conn[c].toS) = <<>>
    <3>1. Len(conn[c].toS) = 1
      BY Zenon, <2>6
    <3> QED
      BY <2>3, <3>1 DEF Dropping
  <2>9. /\ conn'[c].toM = conn[c].toM /\ conn'[c].toS = <<>>
        /\ conn'[c].up = conn[c].up /\ conn'[c].open = conn[c].open
        /\ conn'[c].repmsg = conn[c].repmsg
        /\ conn'[c].master_auth = conn[c].master_auth
        /\ \A d \in Conns : d # c => conn'[d] = conn[d]
    <3>1. conn' = [conn EXCEPT ![c].toS = <<>>]
      BY Zenon, <2>7 DEF Reads
    <3> QED
      BY Zenon, <3>1, <1>ToSIs DEF Inv
  <2>10. ASSUME AuthTold(c), Head(conn[c].toS).op = "authok"
         PROVE  Turn(c)'
    <3>1. slave'.status = "CONTINUE" /\ slave'.reply = slave.reply
      BY Zenon, <2>10
    <3>2. MayAsk(c)'
      BY Zenon, <2>10, <3>1, <2>9 DEF AuthTold, MayAsk, Quiet, Lines, Got, Greeting
    <3> QED
      BY Zenon, <3>2 DEF Turn
  <2>11. ASSUME Told(c), Head(conn[c].toS).op \in {"put", "del"}
         PROVE  Turn(c)'
    <3>1. slave'.status = slave.status /\ slave'.reply = "ok"
      BY Zenon, <2>11
    <3>2. Executed(c)'
      BY Zenon, <2>11, <3>1, <2>9 DEF Told, Executed, Quiet, Lines, Got
    <3> QED
      BY Zenon, <3>2 DEF Turn
  <2>12. Turn(c)'
    BY Zenon, <2>6, <2>10, <2>11
  <2>13. Protocol'
    BY Zenon, <2>2, <2>5, <2>9, <2>12, <1>ProtocolNext DEF Protocol
  <2> QED
    BY Zenon, <2>9, <2>13

(* There is one, and it is an answer to auth or an update.                 *)
<1>ReadOne.
    ASSUME Inv, Protocol, NEW c \in Conns, c = slave.conn, NEW n \in 1 .. Len(conn[c].toS)
    PROVE  /\ n = 1 /\ conn[c].up /\ Len(conn[c].toS) = 1
           /\ Head(conn[c].toS).op \in {"authok", "put", "del"}
  <2> USE <1>ReadOne
  <2>1. conn[c].up /\ Turn(c)
    BY Zenon, <1>ConnNumber, <1>ProtocolOn DEF Inv
  <2>2. conn[c].toS \in Seq(Commands)
    BY Zenon DEF Inv, TypeOK, ConnRecs
  <2>3. conn[c].toS # <<>>
    BY <2>2
  <2>4. AuthTold(c) \/ Told(c)
    BY Zenon, <2>1, <2>3 DEF Turn, AuthAsked, AuthHeard, MayAsk, Asked,
       DataHeard, Parked, Building, Executed, OkSent, OkHeard, Quiet, Lines
  <2>5. Head(conn[c].toS).op \in {"authok", "put", "del"} /\ Len(conn[c].toS) = 1
    <3>1. CASE AuthTold(c)
      <4>1. conn[c].toS = <<Reply("authok")>>
        BY Zenon, <3>1 DEF AuthTold, Lines
      <4> QED
        BY <4>1 DEF Reply
    <3>2. CASE Told(c)
      BY Zenon, <3>2 DEF Told
    <3> QED
      BY Zenon, <2>4, <3>1, <3>2
  <2>6. n = 1
    BY <2>5
  <2> QED
    BY Zenon, <2>1, <2>5, <2>6

(* The slave executes the command and owes an "ok".                        *)
<1>SlaveExecuteTurn.
    ASSUME Inv, Protocol, NEW c \in Conns, SlaveExecute(c)
    PROVE  /\ Protocol' /\ slave.conn = c /\ slave'.conn = c /\ conn'[c].toS = <<>>
           /\ conn[c].toS # <<>> /\ mt.pc # "item" /\ mt' = mt
           /\ sval' = Applied(Head(conn[c].toS).pairs)
  <2> USE <1>SlaveExecuteTurn
  <2>1. c = slave.conn /\ c # NoConn
    BY Zenon, <1>ConnNumber DEF SlaveExecute, CanRead
  <2>2. PICK n \in 1 .. Len(conn[c].toS) :
      LET m == Head(conn[c].toS)
          known == m.op = "put" \/ (m.op = "del" /\ n = 1)
      IN  /\ m.op \in {"put", "del", "err"}
          /\ conn' = Reads(c, n)
          /\ sval' = IF known THEN Applied(m.pairs) ELSE sval
          /\ slave' = [slave EXCEPT !.reply = IF known THEN "ok" ELSE "err"]
    BY Zenon DEF SlaveExecute
  <2>3. /\ n = 1 /\ Head(conn[c].toS).op \in {"authok", "put", "del"}
             /\ Len(conn[c].toS) = 1
    BY Zenon, <2>1, <1>ReadOne
  <2>4. Head(conn[c].toS).op \in {"put", "del"}
    BY Zenon, <2>2, <2>3
  <2>5. /\ sval' = Applied(Head(conn[c].toS).pairs)
        /\ slave' = [slave EXCEPT !.reply = "ok"]
    BY Zenon, <2>2, <2>3, <2>4
  <2>6. slave'.conn = c /\ slave'.status = slave.status /\ slave'.reply = "ok"
    BY Zenon, <2>1, <2>5 DEF Inv, TypeOK, SlaveRecs
  <2>7. UNCHANGED <<status, conn_, mt, fresh, registered>>
    BY Zenon DEF SlaveExecute, regVars
  <2>8. Head(conn[c].toS).op # "authok"
    BY Zenon, <2>4
  <2>9. Protocol' /\ conn'[c].toS = <<>>
    BY Zenon, <2>1, <2>2, <2>6, <2>7, <2>8, <1>ReadTurn
  <2>10. conn[c].toS # <<>>
    BY <2>3
  <2>11. mt.pc # "item"
    BY Zenon, <2>1, <2>10, <1>ProtocolOn DEF Inv, Building, Quiet, Lines
  <2> QED
    BY Zenon, <2>1, <2>5, <2>6, <2>7, <2>9, <2>10, <2>11

(* The answer to auth lets the slave ask for data.                         *)
<1>SlaveReplyCommandTurn.
    ASSUME Inv, Protocol, NEW c \in Conns, SlaveReplyCommand(c)
    PROVE  /\ Protocol' /\ slave.conn = c /\ slave'.conn = c /\ conn'[c].toS = <<>>
           /\ conn[c].toS = <<Reply("authok")>>
  <2> USE <1>SlaveReplyCommandTurn
  <2>1. c = slave.conn /\ c # NoConn
    BY Zenon, <1>ConnNumber DEF SlaveReplyCommand, CanRead
  <2>2. PICK n \in 1 .. Len(conn[c].toS) :
      LET m == Head(conn[c].toS)
          closes == m.op = "close" /\ n = 1
      IN  /\ m.op \in {"authok", "autherror", "close"}
          /\ conn' = IF closes THEN [Reads(c, n) EXCEPT ![c].up = FALSE]
                               ELSE Reads(c, n)
          /\ slave' =
               IF closes THEN [slave EXCEPT !.conn = NoConn, !.reg = FALSE]
               ELSE IF m.op = "authok" /\ n = 1
                      THEN [slave EXCEPT !.status = "CONTINUE"]
               ELSE slave
    BY Zenon DEF SlaveReplyCommand
  <2>3. /\ n = 1 /\ Head(conn[c].toS).op \in {"authok", "put", "del"}
             /\ Len(conn[c].toS) = 1
    BY Zenon, <2>1, <1>ReadOne
  <2>4. Head(conn[c].toS).op = "authok"
    BY Zenon, <2>2, <2>3
  <2>5. conn' = Reads(c, n) /\ slave' = [slave EXCEPT !.status = "CONTINUE"]
    BY Zenon, <2>2, <2>3, <2>4
  <2>6. slave'.conn = c /\ slave'.status = "CONTINUE" /\ slave'.reply = slave.reply
    BY Zenon, <2>1, <2>5 DEF Inv, TypeOK, SlaveRecs
  <2>7. UNCHANGED <<status, conn_, mt, fresh, registered>>
    BY Zenon DEF SlaveReplyCommand, regVars
  <2>8. Head(conn[c].toS).op \notin {"put", "del"}
    BY Zenon, <2>4
  <2>9. Protocol' /\ conn'[c].toS = <<>>
    BY Zenon, <2>1, <2>5, <2>6, <2>7, <2>8, <1>ReadTurn
  <2>10. conn[c].toS # <<>>
    BY <2>3
  <2>11. conn[c].toS = <<Reply("authok")>>
    BY Zenon, <2>1, <2>8, <2>10, <1>ProtocolOn DEF Inv, Turn, AuthAsked, AuthHeard,
       AuthTold, MayAsk, Asked, Told,
       DataHeard, Parked, Building, Executed, OkSent, OkHeard, Quiet, Lines
  <2> QED
    BY Zenon, <2>1, <2>6, <2>9, <2>11

(* The "ok" is sent on a connection that is intact.                        *)
<1>SlaveWriteTurn.
    ASSUME Inv, Protocol, NEW c \in Conns, SlaveWrite(c)
    PROVE  /\ Protocol' /\ slave.conn = c /\ slave'.conn = c
           /\ conn'[c].toS = conn[c].toS
  <2> USE <1>SlaveWriteTurn
  <2>1. c = slave.conn /\ c # NoConn
    BY Zenon, <1>ConnNumber DEF SlaveWrite
  <2>2. /\ c \in Conns
        /\ \A d \in Conns : d # c => ~conn[d].open
        /\ conn_ \in {NoConn, c}
        /\ mt.pc # "idle" => mt.cur = c
        /\ conn[c].up /\ conn[c].open
        /\ conn[c].repmsg # "" => conn[c].master_auth
        /\ Turn(c)
        /\ mt.pc = "front" => Parked(c)
        /\ mt.pc = "item" => Building(c)
    BY Zenon, <2>1 DEF Protocol, OneConnection
  <2>3. conn \in [Conns -> ConnRecs] /\ slave \in SlaveRecs
    BY Zenon DEF Inv, TypeOK
  <2>4. slave.reply # ""
    BY Zenon DEF SlaveWrite
  <2>5. Executed(c) /\ mt.pc \notin {"front", "item"}
    BY Zenon, <2>2, <2>4 DEF Turn, AuthAsked, AuthHeard, AuthTold, MayAsk, Asked,
       DataHeard, Parked, Building, Told, OkSent, OkHeard, Quiet, Lines
  <2>6. conn[c].toM = <<>> /\ slave.reply = "ok"
    BY Zenon, <2>5 DEF Executed, Lines
  <2>7. Append(conn[c].toM, "ok") = <<"ok">>
    BY <2>6
  <2>8. conn' = [conn EXCEPT ![c].toM = <<"ok">>] /\ slave' = [slave EXCEPT !.reply = ""]
    BY Zenon, <2>2, <2>6, <2>7 DEF SlaveWrite, SendToMaster
  <2>9. /\ conn'[c].toM = <<"ok">> /\ conn'[c].toS = conn[c].toS
        /\ conn'[c].up = conn[c].up /\ conn'[c].open = conn[c].open
        /\ conn'[c].repmsg = conn[c].repmsg
        /\ conn'[c].master_auth = conn[c].master_auth
        /\ \A d \in Conns : d # c => conn'[d] = conn[d]
    BY Zenon, <2>8, <1>ToMIs DEF Inv
  <2>10. slave'.status = slave.status /\ slave'.reply = "" /\ slave'.conn = c
    BY Zenon, <2>1, <2>3, <2>8 DEF SlaveRecs
  <2>11. UNCHANGED <<status, conn_, mt, fresh, registered>>
    BY Zenon DEF SlaveWrite, regVars
  <2>12. OkSent(c)'
    BY Zenon, <2>5, <2>9, <2>10, <2>11 DEF Executed, OkSent, Lines, Got
  <2>13. Turn(c)'
    BY Zenon, <2>12 DEF Turn
  <2>14. Protocol'
    BY Zenon, <2>2, <2>5, <2>9, <2>10, <2>11, <2>13, <1>ProtocolNext DEF Protocol
  <2> QED
    BY Zenon, <2>1, <2>9, <2>10, <2>14

(* Push adds an item that is not marked.                                   *)
<1>SyncAppend.
    ASSUME NEW q \in Seq(Items), NEW n \in Nat, n <= Len(q), SyncBelow(q, n),
           NEW k, NEW t, NewItem(k, t) \in Items
    PROVE  /\ SyncBelow(Append(q, NewItem(k, t)), n)
           /\ n <= Len(Append(q, NewItem(k, t)))
  <2> USE <1>SyncAppend
  <2> DEFINE x == NewItem(k, t)
  <2>1. ~x.is_sync
    BY Zenon DEF NewItem
  <2>2. x \in Items
    OBVIOUS
  <2> HIDE DEF x
  <2>3. /\ Len(Append(q, x)) = Len(q) + 1
        /\ \A i \in 1 .. Len(q) : Append(q, x)[i] = q[i]
        /\ Append(q, x)[Len(q) + 1] = x
    BY <2>2
  <2>4. SyncBelow(Append(q, x), n)
    BY <2>1, <2>3 DEF SyncBelow
  <2> QED
    BY <2>3, <2>4 DEF x

(* Marking the first item that is not marked.                              *)
<1>MarkNext.
    ASSUME NEW q \in Seq(Items), NEW i \in 1 .. Len(q)
    PROVE  LET r == [q EXCEPT ![i].is_sync = TRUE]
           IN  /\ SyncBelow(q, i - 1) => SyncBelow(r, i)
               /\ Len(r) = Len(q)
               /\ \A j \in 1 .. Len(q) : r[j].key = q[j].key /\ r[j].type = q[j].type
               /\ \A j \in 1 .. Len(q) : j # i => r[j] = q[j]
  <2> USE <1>MarkNext
  <2> DEFINE r == [q EXCEPT ![i].is_sync = TRUE]
  <2>1. q[i] \in Items
    OBVIOUS
  <2>2. /\ [q[i] EXCEPT !.is_sync = TRUE] \in Items
        /\ [q[i] EXCEPT !.is_sync = TRUE].is_sync = TRUE
        /\ [q[i] EXCEPT !.is_sync = TRUE].key = q[i].key
        /\ [q[i] EXCEPT !.is_sync = TRUE].type = q[i].type
    BY Zenon, <2>1 DEF Items
  <2>3. Len(r) = Len(q)
    BY <2>2
  <2>4. \A j \in 1 .. Len(q) :
          r[j] = IF j = i THEN [q[i] EXCEPT !.is_sync = TRUE] ELSE q[j]
    OBVIOUS
  <2>5. ASSUME SyncBelow(q, i - 1) PROVE SyncBelow(r, i)
    <3> SUFFICES ASSUME NEW j \in 1 .. Len(q)
                 PROVE  r[j].is_sync <=> j <= i
      BY Zenon, <2>3 DEF SyncBelow
    <3>1. CASE j = i
      <4>1. r[j].is_sync
        BY Zenon, <3>1, <2>2, <2>4
      <4>2. j <= i
        BY <3>1
      <4> QED
        BY Zenon, <4>1, <4>2
    <3>2. CASE j # i
      <4>1. r[j].is_sync <=> j <= i - 1
        BY Zenon, <3>2, <2>4, <2>5 DEF SyncBelow
      <4>2. j <= i - 1 <=> j <= i
        BY <3>2
      <4> QED
        BY Zenon, <4>1, <4>2
    <3> QED
      BY Zenon, <3>1, <3>2
  <2> QED
    BY Zenon, <2>2, <2>3, <2>4, <2>5

(* Pop removes all the items that are marked: a batch has at most SYNC_NUM *)
(* of them, and Pop looks at 2 * SYNC_NUM.                                 *)
<1>PopAll.
    ASSUME NEW q \in Seq(Items), NEW n \in Nat, n <= Len(q), n <= SyncNum, SyncBelow(q, n)
    PROVE  LET r == AfterPop(q)
           IN  /\ r \in Seq(Items) /\ Len(r) = Len(q) - n
               /\ \A i \in 1 .. Len(r) : i + n \in 1 .. Len(q) /\ r[i] = q[i + n]
               /\ SyncBelow(r, 0)
  <2> USE <1>PopAll
  <2> DEFINE S == {m \in 1 .. Len(q) : /\ m <= 2 * SyncNum
                                       /\ \A i \in 1 .. m : q[i].is_sync}
             r == SubSeq(q, n + 1, Len(q))
  <2>1. S = 1 .. n
    BY SyncNumAssumption DEF SyncBelow
  <2>2. Cardinality(1 .. n) = n
    BY FS_Interval
  <2>3. PopCount(q) = n
    BY Zenon, <2>1, <2>2 DEF PopCount
  <2>4. AfterPop(q) = r
    BY Zenon, <2>3 DEF AfterPop
  <2>5. r \in Seq(Items) /\ Len(r) = Len(q) - n
    OBVIOUS
  <2>6. \A i \in 1 .. Len(r) : i + n \in 1 .. Len(q) /\ r[i] = q[i + n]
    OBVIOUS
  <2>7. SyncBelow(r, 0)
    <3> HIDE DEF r
    <3> QED
      BY <2>5, <2>6 DEF SyncBelow
  <2> QED
    BY Zenon, <2>4, <2>5, <2>6, <2>7

(* The last pair decides.                                                  *)
<1>LastOfAppend.
    ASSUME NEW p \in Seq(Pairs), NEW x \in Pairs, NEW k, NEW s
    PROVE  Final(s, Append(p, x), k) = IF x.key = k THEN x.val ELSE Final(s, p, k)
  <2> USE <1>LastOfAppend
  <2> DEFINE r == Append(p, x)
             last(u) == {i \in 1 .. Len(u) : /\ u[i].key = k
                                             /\ \A j \in i + 1 .. Len(u) : u[j].key # k}
  <2>1. /\ Len(r) = Len(p) + 1 /\ Len(p) \in Nat
        /\ \A i \in 1 .. Len(p) : r[i] = p[i]
        /\ r[Len(p) + 1] = x
    OBVIOUS
  <2> HIDE DEF r
  <2>2. CASE x.key = k
    <3>1. last(r) = {Len(p) + 1}
      BY <2>1, <2>2
    <3>2. (CHOOSE i \in last(r) : TRUE) = Len(p) + 1 /\ last(r) # {}
      BY Zenon, <3>1
    <3>3. Final(s, r, k) = r[CHOOSE i \in last(r) : TRUE].val
      BY Zenon, <3>2 DEF Final
    <3> QED
      BY Zenon, <2>1, <2>2, <3>2, <3>3 DEF r
  <2>3. CASE x.key # k
    <3>1. last(r) = last(p)
      BY <2>1, <2>3
    <3>2. CASE last(p) = {}
      BY Zenon, <2>3, <3>1, <3>2 DEF Final, r
    <3>3. CASE last(p) # {}
      <4>1. (CHOOSE i \in last(p) : TRUE) \in last(p)
        BY Zenon, <3>3
      <4>2. r[CHOOSE i \in last(p) : TRUE] = p[CHOOSE i \in last(p) : TRUE]
        BY Zenon, <2>1, <4>1
      <4>3. Final(s, r, k) = r[CHOOSE i \in last(p) : TRUE].val
        BY Zenon, <3>1, <3>3 DEF Final
      <4>4. Final(s, p, k) = p[CHOOSE i \in last(p) : TRUE].val
        BY Zenon, <3>3 DEF Final
      <4> QED
        BY Zenon, <2>3, <4>2, <4>3, <4>4 DEF r
    <3> QED
      BY Zenon, <3>2, <3>3
  <2> QED
    BY Zenon, <2>2, <2>3

(* Steps that leave the queues alone.                                      *)
<1>MarkedAside.
    ASSUME Marked, UNCHANGED <<que, main_que, is_update_que, status>>,
           mt' = mt \/ mt'.pc # "item"
    PROVE  Marked'
  BY Zenon, <1>MarkedAside DEF Marked, SyncBelow, Served, Waiting

(* Steps that leave the queues, the pushes to come and the values alone.   *)
<1>DeletionsAside.
    ASSUME Deletions, UNCHANGED <<que, main_que, todo, mval>>, registered => registered'
    PROVE  Deletions'
  <2> USE <1>DeletionsAside
  <2>1. \A i : Redone(i) => Redone(i)'
    BY Zenon DEF Redone, AddTodo
  <2>2. ~registered' => main_que' = <<>>
    BY Zenon DEF Deletions
  <2>3. \A i \in 1 .. Len(que') : que'[i].type = "ADD"
    BY Zenon DEF Deletions
  <2>4. \A w \in Workers : \A k \in todo'[w].keys :
          todo'[w].op = "push" /\ todo'[w].type = "DEL" => mval'[k] = 0
    BY Zenon DEF Deletions
  <2>5. \A i \in 1 .. Len(main_que') : main_que'[i].type = "DEL" => Redone(i)'
    BY Zenon, <2>1 DEF Deletions
  <2> QED
    BY Zenon, <2>2, <2>3, <2>4, <2>5 DEF Deletions

(* What is not sent stays so.                                              *)
<1>UnsentAside.
    ASSUME UNCHANGED <<que, main_que, todo>>, NEW k, Unsent(k)
    PROVE  Unsent(k)'
  BY Zenon, <1>UnsentAside DEF Unsent

(* A step that carries the same pairs and keeps what is not sent.          *)
<1>CoveredAside.
    ASSUME Covered, Made' <=> Made, UNCHANGED <<mval, mexp, sval>>, Carried' = Carried,
           \A k \in Keys : Unsent(k) => Unsent(k)'
    PROVE  Covered'
  BY Zenon, <1>CoveredAside DEF Covered, Right

(* A step that is about the messages only.                                 *)
<1>DataAside.
    ASSUME Covered, Marked, Deletions, Made' <=> Made, registered => registered',
           UNCHANGED <<mval, mexp, sval, que, main_que, is_update_que, todo, status>>,
           Carried' = Carried, mt' = mt \/ mt'.pc # "item"
    PROVE  Covered' /\ Marked' /\ Deletions'
  BY Zenon, <1>DataAside, <1>MarkedAside, <1>DeletionsAside, <1>UnsentAside,
     <1>CoveredAside

(* The pairs on their way do not change with what the slave does not read. *)
<1>CarriedSame.
    ASSUME mt' = mt \/ (mt.pc # "item" /\ mt'.pc # "item"), slave'.conn = slave.conn,
           slave.conn # NoConn => conn'[slave.conn].toS = conn[slave.conn].toS
    PROVE  Carried' = Carried
  BY Zenon, <1>CarriedSame DEF Carried

(* When no command is out, no pair is on its way.                          *)
<1>NothingCarried.
    ASSUME Protocol, status = 0, mt.pc # "item"
    PROVE  Carried = <<>>
  <2> USE <1>NothingCarried
  <2>1. CASE slave.conn = NoConn
    BY Zenon, <2>1 DEF Carried
  <2>2. CASE slave.conn # NoConn
    <3>1. conn[slave.conn].toS = <<>> \/ conn[slave.conn].toS = <<Reply("authok")>>
      <4>1. 0 # 1
        OBVIOUS
      <4> QED
        BY Zenon, <2>2, <4>1 DEF Protocol, Turn, AuthAsked, AuthHeard, AuthTold, MayAsk,
           Asked, Told,
           DataHeard, Parked, Building, Executed, OkSent, OkHeard, Quiet, Lines, Got
    <3>2. Head(<<Reply("authok")>>).pairs = <<>>
      BY DEF Reply
    <3> QED
      BY Zenon, <3>1, <3>2 DEF Carried
  <2> QED
    BY Zenon, <2>1, <2>2

(* A client command either changes a key that it will push, or leaves the  *)
(* key as it is.                                                           *)
<1>CoveredClient.
    ASSUME Covered, Made' <=> Made, sval' = sval, Carried' = Carried,
           Made => \A k \in Keys :
             \/ Unsent(k)'
             \/ /\ Unsent(k) => Unsent(k)'
                /\ mval'[k] = mval[k]
                /\ mexp'[k] = mexp[k] \/ mexp[k] # "dead"
    PROVE  Covered'
  BY Zenon, <1>CoveredClient DEF Covered, Right

(* A worker between two commands has nothing to push.                      *)
<1>NoTodoIs.
   NoTodo.keys = {} /\ NoTodo.op = "none"
  BY Zenon DEF NoTodo

(* A write is followed by a push of the same keys.  No deletion of one of  *)
(* them waits to be pushed: that is the fault "crossed".                   *)
<1>ClientWriteLoss.
    ASSUME Inv, Covered, Marked, Deletions, faults' = {},
           NEW w \in Workers, NEW K \in SUBSET Keys, NEW e, ClientWrite(w, K, e)
    PROVE  Covered' /\ Marked' /\ Deletions'
  <2> USE <1>ClientWriteLoss
  <2>1. UNCHANGED <<registered, creating, que, main_que, is_update_que, status, mt,
                    conn, slave, sval>>
    BY Zenon DEF ClientWrite, regVars, queVars, slaveVars
  <2>2. Marked'
    BY Zenon, <2>1, <1>MarkedAside
  <2>3. /\ todo[w] = NoTodo /\ todo \in [Workers -> Todos]
        /\ todo' = [todo EXCEPT ![w] = ToPush(K, "ADD")]
    BY Zenon DEF Inv, TypeOK, ClientWrite
  <2>4. /\ todo'[w].keys = K /\ todo'[w].op = "push" /\ todo'[w].type = "ADD"
        /\ todo[w].keys = {} /\ todo[w].op = "none"
        /\ \A v \in Workers : v # w => todo'[v] = todo[v]
    <3>1. todo'[w] = ToPush(K, "ADD") /\ \A v \in Workers : v # w => todo'[v] = todo[v]
      BY Zenon, <2>3
    <3>2. todo'[w].keys = K /\ todo'[w].op = "push" /\ todo'[w].type = "ADD"
      BY <3>1 DEF ToPush
    <3> QED
      BY Zenon, <2>3, <3>1, <3>2, <1>NoTodoIs
  <2>5. \A k \in Keys : /\ k \notin K => mval'[k] = mval[k] /\ mexp'[k] = mexp[k]
    BY Zenon DEF ClientWrite
  <2>6. ~DelToPush(K)
    BY Zenon DEF ClientWrite
  <2>7. Covered'
    <3>1. \A k : k \in K => Unsent(k)'
      BY Zenon, <2>4 DEF Unsent
    <3>2. \A k : Unsent(k) => Unsent(k)'
      BY Zenon, <2>1, <2>4 DEF Unsent
    <3>3. Carried' = Carried /\ (Made' <=> Made)
      BY Zenon, <2>1 DEF Carried, Made
    <3> QED
      BY Zenon, <2>1, <2>5, <3>1, <3>2, <3>3, <1>CoveredClient
  <2>8. Deletions'
    <3>1. ~registered' => main_que' = <<>>
      BY Zenon, <2>1 DEF Deletions
    <3>2. \A i \in 1 .. Len(que') : que'[i].type = "ADD"
      BY Zenon, <2>1 DEF Deletions
    <3>3. ASSUME NEW v \in Workers, NEW k \in todo'[v].keys, todo'[v].op = "push",
                   todo'[v].type = "DEL"
          PROVE  mval'[k] = 0
      <4>1. v # w
        BY Zenon, <2>4, <3>3
      <4>2. todo[v] = todo'[v] /\ todo[v] \in Todos
        BY Zenon, <2>3, <2>4, <4>1
      <4>3. mval[k] = 0 /\ k \in Keys
        BY Zenon, <3>3, <4>2 DEF Deletions, Todos
      <4>4. k \notin K
        BY Zenon, <2>6, <3>3, <4>2 DEF DelToPush
      <4> QED
        BY Zenon, <2>5, <4>3, <4>4
    <3>4. ASSUME NEW i \in 1 .. Len(main_que), Redone(i)
          PROVE  Redone(i)'
      <4>1. main_que[i] \in Items
        BY DEF Inv, TypeOK
      <4>2. main_que[i].key \in Keys
        BY Zenon, <4>1 DEF Items
      <4>3. \A k : AddTodo(k) => AddTodo(k)'
        BY Zenon, <2>4 DEF AddTodo
      <4>4. \A k \in K : AddTodo(k)'
        BY Zenon, <2>4 DEF AddTodo
      <4> QED
        BY Zenon, <2>1, <2>5, <3>4, <4>2, <4>3, <4>4 DEF Redone
    <3>5. \A i \in 1 .. Len(main_que') : main_que'[i].type = "DEL" => Redone(i)'
      BY Zenon, <2>1, <3>4 DEF Deletions
    <3> QED
      BY Zenon, <3>1, <3>2, <3>3, <3>5 DEF Deletions
  <2> QED
    BY Zenon, <2>2, <2>7, <2>8

(* The look-up of del changes nothing.                                     *)
<1>DelLookupLoss.
    ASSUME Inv, Covered, Marked, Deletions, NEW w \in Workers, DelLookup(w)
    PROVE  Covered' /\ Marked' /\ Deletions'
  <2> USE <1>DelLookupLoss
  <2>1. UNCHANGED <<mval, mexp, registered, creating, que, main_que, is_update_que,
                    status, mt, conn, slave, sval>>
    BY Zenon DEF DelLookup, regVars, queVars, slaveVars, dbVars
  <2>2. Marked'
    BY Zenon, <2>1, <1>MarkedAside
  <2>3. PICK k \in Keys : /\ todo[w] = NoTodo /\ todo \in [Workers -> Todos]
                          /\ todo' = [todo EXCEPT ![w] = [op |-> "del", keys |-> {k},
                               type |-> "DEL"]]
    BY Zenon DEF Inv, TypeOK, DelLookup
  <2>4. /\ todo'[w].op = "del" /\ todo[w].keys = {} /\ todo[w].op = "none"
        /\ \A v \in Workers : v # w => todo'[v] = todo[v]
    <3>1. todo'[w].op = "del" /\ \A v \in Workers : v # w => todo'[v] = todo[v]
      BY Zenon, <2>3
    <3> QED
      BY Zenon, <2>3, <3>1, <1>NoTodoIs
  <2>5. Covered'
    <3>1. \A j : Unsent(j) => Unsent(j)'
      BY Zenon, <2>1, <2>4 DEF Unsent
    <3>2. Carried' = Carried /\ (Made' <=> Made)
      BY Zenon, <2>1 DEF Carried, Made
    <3> QED
      BY Zenon, <2>1, <3>1, <3>2, <1>CoveredAside
  <2>6. Deletions'
    <3>1. ~registered' => main_que' = <<>>
      BY Zenon, <2>1 DEF Deletions
    <3>2. \A i \in 1 .. Len(que') : que'[i].type = "ADD"
      BY Zenon, <2>1 DEF Deletions
    <3>3. ASSUME NEW v \in Workers, NEW j \in todo'[v].keys, todo'[v].op = "push",
                   todo'[v].type = "DEL"
          PROVE  mval'[j] = 0
      BY Zenon, <2>1, <2>4, <3>3 DEF Deletions
    <3>4. \A i : Redone(i) => Redone(i)'
      BY Zenon, <2>1, <2>4 DEF Redone, AddTodo
    <3>5. \A i \in 1 .. Len(main_que') : main_que'[i].type = "DEL" => Redone(i)'
      BY Zenon, <2>1, <3>4 DEF Deletions
    <3> QED
      BY Zenon, <3>1, <3>2, <3>3, <3>5 DEF Deletions
  <2> QED
    BY Zenon, <2>2, <2>5, <2>6

(* A deletion is pushed by the worker that made it.                        *)
<1>DelExecuteLoss.
    ASSUME Inv, Covered, Marked, Deletions, NEW w \in Workers, DelExecute(w)
    PROVE  Covered' /\ Marked' /\ Deletions'
  <2> USE <1>DelExecuteLoss
  <2>1. UNCHANGED <<registered, creating, que, main_que, is_update_que, status, mt,
                    conn, slave, sval>>
    BY Zenon DEF DelExecute, regVars, queVars, slaveVars
  <2>2. Marked'
    BY Zenon, <2>1, <1>MarkedAside
  <2>3. /\ todo[w].op = "del" /\ todo \in [Workers -> Todos]
        /\ todo' = [todo EXCEPT ![w] = ToPush(todo[w].keys, "DEL")]
    BY Zenon DEF Inv, TypeOK, DelExecute
  <2>4. /\ todo'[w].keys = todo[w].keys /\ todo'[w].type = "DEL"
        /\ \A v \in Workers : v # w => todo'[v] = todo[v]
    BY Zenon, <2>3 DEF ToPush
  <2>5. \A k \in Keys : IF k \in todo[w].keys THEN mval'[k] = 0
                        ELSE mval'[k] = mval[k] /\ mexp'[k] = mexp[k]
    BY Zenon DEF DelExecute
  <2>6. Covered'
    <3>1. \A k : k \in todo[w].keys => Unsent(k)'
      BY Zenon, <2>4 DEF Unsent
    <3>2. \A k : Unsent(k) => Unsent(k)'
      BY Zenon, <2>1, <2>4 DEF Unsent
    <3>3. Carried' = Carried /\ (Made' <=> Made)
      BY Zenon, <2>1 DEF Carried, Made
    <3> QED
      BY Zenon, <2>1, <2>5, <3>1, <3>2, <3>3, <1>CoveredClient
  <2>7. Deletions'
    <3>1. ~registered' => main_que' = <<>>
      BY Zenon, <2>1 DEF Deletions
    <3>2. \A i \in 1 .. Len(que') : que'[i].type = "ADD"
      BY Zenon, <2>1 DEF Deletions
    <3>3. ASSUME NEW v \in Workers, NEW k \in todo'[v].keys, todo'[v].op = "push",
                   todo'[v].type = "DEL"
          PROVE  mval'[k] = 0
      <4>1. k \in Keys /\ todo'[v].keys = todo[v].keys
        BY Zenon, <2>3, <2>4, <3>3 DEF Todos
      <4>2. k \in todo[w].keys \/ mval[k] = 0
        BY Zenon, <2>4, <3>3 DEF Deletions
      <4> QED
        BY Zenon, <2>5, <4>1, <4>2
    <3>4. ASSUME NEW i \in 1 .. Len(main_que), Redone(i)
          PROVE  Redone(i)'
      <4>1. main_que[i] \in Items
        BY DEF Inv, TypeOK
      <4>2. main_que[i].key \in Keys
        BY Zenon, <4>1 DEF Items
      <4>3. \A k : AddTodo(k) => AddTodo(k)'
        BY Zenon, <2>3, <2>4 DEF AddTodo
      <4>4. mval[main_que[i].key] = 0 => mval'[main_que[i].key] = 0
        BY Zenon, <2>5, <4>2
      <4> QED
        BY Zenon, <2>1, <3>4, <4>3, <4>4 DEF Redone
    <3>5. \A i \in 1 .. Len(main_que') : main_que'[i].type = "DEL" => Redone(i)'
      BY Zenon, <2>1, <3>4 DEF Deletions
    <3> QED
      BY Zenon, <3>1, <3>2, <3>3, <3>5 DEF Deletions
  <2> QED
    BY Zenon, <2>2, <2>6, <2>7

(* A key that expires is one the slave may have or not have.               *)
<1>ExpireLoss.
    ASSUME Inv, Covered, Marked, Deletions, Expire
    PROVE  Covered' /\ Marked' /\ Deletions'
  <2> USE <1>ExpireLoss
  <2>1. UNCHANGED <<mval, todo, registered, creating, que, main_que, is_update_que,
                    status, mt, conn, slave, sval>>
    BY Zenon DEF Expire, regVars, queVars, slaveVars
  <2>2. \A k \in Keys : mexp'[k] = mexp[k] \/ mexp[k] # "dead"
    BY Zenon DEF Expire, Inv, TypeOK
  <2>3. Carried' = Carried /\ (Made' <=> Made)
    BY Zenon, <2>1 DEF Carried, Made
  <2>4. Covered'
    BY Zenon, <2>1, <2>2, <2>3, <1>CoveredClient, <1>UnsentAside
  <2> QED
    BY Zenon, <2>1, <2>4, <1>MarkedAside, <1>DeletionsAside

(* The pushed key is in main_que from then on; while the object is being   *)
(* constructed a push is the fault "missed".                               *)
<1>PushKeyLoss.
    ASSUME Inv, Covered, Marked, Deletions, faults' = {}, NEW w \in Workers, PushKey(w)
    PROVE  Covered' /\ Marked' /\ Deletions'
  <2> USE <1>PushKeyLoss
  <2>1. UNCHANGED <<mval, mexp, registered, creating, que, is_update_que, status, mt,
                    conn, slave, sval>>
    BY Zenon DEF PushKey, regVars, slaveVars, dbVars
  <2>2. creating = NoConn
    BY Zenon DEF PushKey
  <2>3. PICK k \in todo[w].keys :
          /\ todo' = [todo EXCEPT ![w] = IF todo[w].keys = {k} THEN NoTodo
                                         ELSE ToPush(todo[w].keys \ {k}, todo[w].type)]
          /\ main_que' = IF registered THEN Append(main_que, NewItem(k, todo[w].type))
                                       ELSE main_que
    BY Zenon DEF PushKey
  <2>4. todo \in [Workers -> Todos] /\ todo[w].op = "push"
    BY Zenon DEF Inv, TypeOK, PushKey
  <2>5. todo[w] \in Todos /\ k \in Keys /\ todo[w].type \in {"ADD", "DEL"}
    BY Zenon, <2>4 DEF Todos
  <2>6. /\ \A v \in Workers : v # w => todo'[v] = todo[v]
        /\ todo'[w].keys = todo[w].keys \ {k}
        /\ todo'[w].op = "push" => todo'[w].type = todo[w].type
        /\ todo'[w].keys # {} => todo'[w].op = "push" /\ todo'[w].type = todo[w].type
    <3>1. /\ \A v \in Workers : v # w => todo'[v] = todo[v]
          /\ todo'[w] = IF todo[w].keys = {k} THEN NoTodo
                        ELSE ToPush(todo[w].keys \ {k}, todo[w].type)
      BY Zenon, <2>3, <2>4
    <3>2. CASE todo[w].keys = {k}
      <4>1. todo[w].keys \ {k} = {}
        BY Zenon, <3>2
      <4> QED
        BY Zenon, <3>1, <3>2, <4>1, <1>NoTodoIs
    <3>3. CASE todo[w].keys # {k}
      <4>1. todo'[w] = ToPush(todo[w].keys \ {k}, todo[w].type)
        BY Zenon, <3>1, <3>3
      <4>2. todo'[w].keys = todo[w].keys \ {k}
        BY <4>1 DEF ToPush
      <4>3. todo'[w].op = "push" /\ todo'[w].type = todo[w].type
        BY <4>1 DEF ToPush
      <4> QED
        BY Zenon, <3>1, <4>2, <4>3
    <3> QED
      BY Zenon, <3>2, <3>3
  <2> DEFINE x == NewItem(k, todo[w].type)
  <2>7. x \in Items /\ x.key = k /\ x.type = todo[w].type /\ ~x.is_sync
    BY Zenon, <2>5 DEF NewItem, Items
  <2>8. main_que \in Seq(Items) /\ que \in Seq(Items)
    BY Zenon DEF Inv, TypeOK
  <2> HIDE DEF x
  <2>9. registered => /\ Len(main_que') = Len(main_que) + 1
                      /\ \A i \in 1 .. Len(main_que) : main_que'[i] = main_que[i]
                      /\ main_que'[Len(main_que) + 1] = x
    <3>1. registered => main_que' = Append(main_que, x)
      BY Zenon, <2>3 DEF x
    <3> QED
      BY <2>7, <2>8, <3>1
  <2>10. ~registered => main_que' = main_que
    BY Zenon, <2>3
  <2>11. Len(main_que) \in Nat
    BY <2>8
  <2>12. Marked'
    <3>1. \A n \in Nat : n <= Len(main_que) /\ SyncBelow(main_que, n)
                           => n <= Len(main_que') /\ SyncBelow(main_que', n)
      BY Zenon, <2>3, <2>7, <2>8, <1>SyncAppend DEF x
    <3>2. 0 \in Nat /\ 0 <= Len(main_que) /\ (0 .. SyncNum) \subseteq Nat
      BY <2>11, SyncNumAssumption
    <3>3. CASE is_update_que
      <4>1. Served' = Served /\ Waiting = main_que /\ Waiting' = main_que'
        BY Zenon, <2>1, <3>3 DEF Served, Waiting
      <4>2. SyncBelow(main_que', 0)
        BY Zenon, <3>1, <3>2, <4>1 DEF Marked
      <4>3. /\ SyncBelow(Waiting', 0) /\ Served' = Served /\ status' = status /\ mt' = mt
        BY Zenon, <2>1, <4>1, <4>2
      <4> QED
        BY Zenon, <4>3 DEF Marked, SyncBelow
    <3>4. CASE ~is_update_que
      <4>1. Waiting' = Waiting /\ Served = main_que /\ Served' = main_que'
        BY Zenon, <2>1, <3>4 DEF Served, Waiting
      <4>2. status' = 0 => SyncBelow(Served', 0)
        BY Zenon, <2>1, <3>1, <3>2, <4>1 DEF Marked
      <4>3. \E n \in 0 .. SyncNum : n <= Len(Served') /\ SyncBelow(Served', n)
        BY Zenon, <3>1, <3>2, <4>1 DEF Marked
      <4>4. mt'.pc = "item" => SyncBelow(Served', mt'.i - 1) /\ mt'.n <= SyncNum
        <5>1. mt.pc = "item" => mt.i - 1 \in Nat /\ mt.i - 1 <= Len(main_que)
          BY <2>11, <3>4 DEF Inv, BatchStays, TypeOK, MasterThreads
        <5> QED
          BY Zenon, <2>1, <3>1, <4>1, <5>1 DEF Marked
      <4>5. SyncBelow(Waiting', 0)
        BY Zenon, <4>1 DEF Marked
      <4> QED
        BY Zenon, <4>2, <4>3, <4>4, <4>5 DEF Marked
    <3> QED
      BY Zenon, <3>3, <3>4
  <2>13. Covered'
    <3>1. ASSUME registered, NEW j, Unsent(j)
          PROVE  Unsent(j)'
      <4>1. Len(main_que) + 1 \in 1 .. Len(main_que')
              /\ 1 .. Len(main_que) \subseteq 1 .. Len(main_que')
        BY <2>9, <2>11, <3>1
      <4>2. CASE Holds(que, j)
        BY Zenon, <2>1, <4>2 DEF Unsent
      <4>3. CASE Holds(main_que, j)
        BY Zenon, <2>9, <3>1, <4>1, <4>3 DEF Unsent, Holds
      <4>4. CASE j = k
        BY Zenon, <2>7, <2>9, <3>1, <4>1, <4>4 DEF Unsent, Holds
      <4>5. CASE j # k /\ \E v \in Workers : j \in todo[v].keys
        BY Zenon, <2>6, <4>5 DEF Unsent
      <4> QED
        BY Zenon, <3>1, <4>2, <4>3, <4>4, <4>5 DEF Unsent
    <3>2. Carried' = Carried /\ (Made' <=> Made)
      BY Zenon, <2>1 DEF Carried, Made
    <3>3. Made => registered
      BY Zenon, <2>2 DEF Made
    <3> QED
      BY Zenon, <2>1, <3>1, <3>2, <3>3, <1>CoveredClient
  <2>14. Deletions'
    <3>1. ~registered' => main_que' = <<>>
      BY Zenon, <2>1, <2>10 DEF Deletions
    <3>2. \A i \in 1 .. Len(que') : que'[i].type = "ADD"
      BY Zenon, <2>1 DEF Deletions
    <3>3. ASSUME NEW v \in Workers, NEW j \in todo'[v].keys, todo'[v].op = "push",
                   todo'[v].type = "DEL"
          PROVE  mval'[j] = 0
      <4>1. CASE v = w
        BY Zenon, <2>1, <2>4, <2>6, <3>3, <4>1 DEF Deletions
      <4>2. CASE v # w
        BY Zenon, <2>1, <2>6, <3>3, <4>2 DEF Deletions
      <4> QED
        BY Zenon, <4>1, <4>2
    <3>4. CASE ~registered
      <4>1. main_que' = <<>>
        BY Zenon, <2>1, <3>1, <3>4
      <4>2. \A i \in 1 .. Len(main_que') : FALSE
        BY <4>1
      <4> QED
        BY Zenon, <3>1, <3>2, <3>3, <4>2 DEF Deletions
    <3>5. CASE registered
      <4>1. ASSUME NEW i \in 1 .. Len(main_que'), main_que'[i].type = "DEL"
            PROVE  Redone(i)'
        <5>1. CASE i = Len(main_que) + 1
          <6>1. main_que'[i].key = k /\ todo[w].type = "DEL"
            BY Zenon, <2>7, <2>9, <3>5, <4>1, <5>1
          <6>2. mval[k] = 0
            BY Zenon, <2>4, <6>1 DEF Deletions
          <6> QED
            BY Zenon, <2>1, <6>1, <6>2 DEF Redone
        <5>2. CASE i # Len(main_que) + 1
          <6>1. i \in 1 .. Len(main_que)
            BY <2>9, <2>11, <3>5, <5>2
          <6>2. main_que'[i] = main_que[i] /\ Redone(i)
            BY Zenon, <2>9, <3>5, <4>1, <6>1 DEF Deletions
          <6>3. CASE mval[main_que[i].key] = 0
            BY Zenon, <2>1, <6>2, <6>3 DEF Redone
          <6>4. CASE \E j \in i + 1 .. Len(main_que) :
                       main_que[j].key = main_que[i].key /\ main_que[j].type = "ADD"
            <7>1. \A j \in i + 1 .. Len(main_que) : j \in i + 1 .. Len(main_que')
                    /\ j \in 1 .. Len(main_que)
              BY <2>9, <2>11, <3>5, <6>1
            <7> QED
              BY Zenon, <2>9, <3>5, <6>2, <6>4, <7>1 DEF Redone
          <6>5. CASE AddTodo(main_que[i].key)
            <7>1. PICK v \in Workers : todo[v].op = "push" /\ todo[v].type = "ADD"
                    /\ main_que[i].key \in todo[v].keys
              BY Zenon, <6>5 DEF AddTodo
            <7>2. CASE v # w \/ main_que[i].key # k
              <8>1. AddTodo(main_que[i].key)'
                BY Zenon, <2>6, <6>2, <7>1, <7>2 DEF AddTodo
              <8> QED
                BY Zenon, <8>1 DEF Redone
            <7>3. CASE v = w /\ main_que[i].key = k
              <8>1. Len(main_que) + 1 \in i + 1 .. Len(main_que')
                BY <2>9, <2>11, <3>5, <6>1
              <8>2. x.type = "ADD" /\ x.key = main_que[i].key
                BY Zenon, <2>7, <7>1, <7>3
              <8> QED
                BY Zenon, <2>9, <3>5, <6>2, <8>1, <8>2 DEF Redone
            <7> QED
              BY Zenon, <7>2, <7>3
          <6> QED
            BY Zenon, <6>2, <6>3, <6>4, <6>5 DEF Redone
        <5> QED
          BY Zenon, <5>1, <5>2
      <4> QED
        BY Zenon, <3>1, <3>2, <3>3, <4>1 DEF Deletions
    <3> QED
      BY Zenon, <3>4, <3>5
  <2> QED
    BY Zenon, <2>12, <2>13, <2>14

(* MasterHandle, StartReply: the queues stay as they are.                  *)
<1>MasterHandleLoss.
    ASSUME Inv, Protocol, Covered, Marked, Deletions, MasterHandle
    PROVE  Covered' /\ Marked' /\ Deletions'
  <2> USE <1>MasterHandleLoss
  <2>1. UNCHANGED <<mval, mexp, todo, registered, creating, que, main_que,
                    is_update_que, status, conn, slave, sval>>
    BY Zenon DEF MasterHandle, regVars, slaveVars, dbVars, queVars
  <2>2. mt.pc # "item" /\ mt'.pc # "item"
    BY Zenon DEF MasterHandle, Inv, TypeOK, MasterThreads
  <2>3. Carried' = Carried /\ (Made' <=> Made)
    BY Zenon, <2>1, <2>2 DEF Carried, Made
  <2> QED
    BY Zenon, <2>1, <2>2, <2>3, <1>DataAside

(* An answer carries no pairs.                                             *)
<1>StartReplyLoss.
    ASSUME Inv, Protocol, Covered, Marked, Deletions, StartReply, faults' = {}
    PROVE  Covered' /\ Marked' /\ Deletions'
  <2> USE <1>StartReplyLoss
  <2>1. UNCHANGED <<mval, mexp, todo, registered, creating, que, main_que,
                    is_update_que, status, slave, sval>>
    BY Zenon DEF StartReply, regVars, slaveVars, dbVars, queVars
  <2>2. mt.pc = "start" /\ mt'.pc # "item" /\ fresh
    BY Zenon DEF StartReply, Inv, TypeOK, MasterThreads
  <2>3. slave.conn # NoConn /\ mt.cur = slave.conn
    BY Zenon, <2>2 DEF Protocol, OneConnection
  <2>4. status = 0
    BY Zenon, <2>2, <2>3 DEF StartReply, Protocol, Turn, AuthAsked, AuthHeard, AuthTold,
       MayAsk, Asked,
       DataHeard, Parked, Building, Told, Executed, OkSent, OkHeard, Got
  <2>6. Carried = <<>> /\ Carried' = <<>>
    <3>1. Carried = <<>>
      BY Zenon, <2>2, <2>4, <1>NothingCarried
    <3>2. slave.conn \in Conns
      BY Zenon, <2>3 DEF Inv, TypeOK, SlaveRecs
    <3>3. \/ conn'[slave.conn].toS = conn[slave.conn].toS
          \/ conn'[slave.conn].toS = <<Reply("authok")>>
      BY Zenon, <3>2, <1>StartReplyTurn
    <3>4. Head(<<Reply("authok")>>).pairs = <<>>
      BY DEF Reply
    <3> QED
      BY Zenon, <2>1, <2>2, <3>1, <3>3, <3>4 DEF Carried
  <2>7. Made' <=> Made
    BY Zenon, <2>1 DEF Made
  <2> QED
    BY Zenon, <2>1, <2>2, <2>6, <2>7, <1>DataAside

(* Nothing deleted.                                                        *)
<1>RestOfAll.
    ASSUME NEW q \in Seq(Items)
    PROVE  Rest(q, q)
  <2> USE <1>RestOfAll
  <2>1. 0 \in Nat /\ 0 <= Len(q) /\ Len(q) = Len(q) - 0 /\ \A i \in 1 .. 0 : q[i].is_sync
    OBVIOUS
  <2>2. \A i \in 1 .. Len(q) : i + 0 = i
    OBVIOUS
  <2>3. \A i \in 1 .. Len(q) : i + 0 \in 1 .. Len(q) /\ q[i] = q[i + 0]
    BY Zenon, <2>2
  <2> QED
    BY Zenon, <2>1, <2>3 DEF Rest

(* An item that was not sent is still there.                               *)
<1>RestUnsent.
    ASSUME NEW q \in Seq(Items), NEW r, Rest(q, r), NEW k, Holds(q, k)
    PROVE  Holds(r, k)
  <2> USE <1>RestUnsent
  <2>1. PICK n \in Nat :
          /\ n <= Len(q) /\ Len(r) = Len(q) - n
          /\ \A m \in 1 .. n : q[m].is_sync
          /\ \A m \in 1 .. Len(r) : m + n \in 1 .. Len(q) /\ r[m] = q[m + n]
    BY Zenon DEF Rest
  <2>2. PICK i \in 1 .. Len(q) : q[i].key = k /\ ~q[i].is_sync
    BY Zenon DEF Holds
  <2>3. ~(i \in 1 .. n)
    BY Zenon, <2>1, <2>2
  <2>4. i - n \in 1 .. Len(r) /\ (i - n) + n = i
    BY <2>1, <2>3
  <2>5. PICK m \in 1 .. Len(r) : m + n = i
    BY Zenon, <2>4
  <2>6. r[m] = q[i]
    BY Zenon, <2>1, <2>5
  <2> QED
    BY Zenon, <2>2, <2>6 DEF Holds

(* Pop deletes the items that are marked, and only these.                  *)
<1>StartDataQueues.
    ASSUME Inv, Protocol, Marked, StartData, faults' = {}
    PROVE  /\ Rest(que, que') /\ Rest(main_que, main_que')
           /\ SyncBelow(que', 0) /\ SyncBelow(main_que', 0)
  <2> USE <1>StartDataQueues
  <2>1. que \in Seq(Items) /\ main_que \in Seq(Items) /\ status \in {0, 1}
    BY Zenon DEF Inv, TypeOK
  <2>2. CASE status = 0
    <3>1. 0 # 1
      OBVIOUS
    <3>2. que' = que /\ main_que' = main_que
      BY Zenon, <2>2, <3>1 DEF StartData
    <3>3. SyncBelow(que, 0) /\ SyncBelow(main_que, 0)
      BY Zenon, <2>2 DEF Marked, Served, Waiting
    <3> QED
      BY Zenon, <2>1, <3>2, <3>3, <1>RestOfAll
  <2>3. CASE status = 1
    <3>1. conn[mt.cur].repmsg = "ok"
      BY Zenon, <2>3, <1>StartDataTurn
    <3>2. /\ que' = IF is_update_que THEN AfterPop(que) ELSE que
          /\ main_que' = IF ~is_update_que THEN AfterPop(main_que) ELSE main_que
      BY Zenon, <2>3, <3>1 DEF StartData
    <3>3. PICK n \in 0 .. SyncNum : n <= Len(Served) /\ SyncBelow(Served, n)
      BY Zenon DEF Marked
    <3>4. n \in Nat /\ n <= SyncNum
      BY <3>3, SyncNumAssumption
    <3>5. ASSUME NEW q \in Seq(Items), q = Served
          PROVE  Rest(q, AfterPop(q)) /\ SyncBelow(AfterPop(q), 0)
      <4>1. n <= Len(q) /\ SyncBelow(q, n)
        BY Zenon, <3>3, <3>5
      <4>2. LET r == AfterPop(q)
            IN  /\ Len(r) = Len(q) - n
                /\ \A i \in 1 .. Len(r) : i + n \in 1 .. Len(q) /\ r[i] = q[i + n]
                /\ SyncBelow(r, 0)
        BY Zenon, <3>4, <4>1, <1>PopAll
      <4>3. \A i \in 1 .. n : i \in 1 .. Len(q) /\ i <= n
        BY <3>4, <4>1
      <4>4. \A i \in 1 .. n : q[i].is_sync
        BY Zenon, <4>1, <4>3 DEF SyncBelow
      <4> QED
        BY Zenon, <3>4, <4>1, <4>2, <4>4 DEF Rest
    <3>6. SyncBelow(Waiting, 0)
      BY Zenon DEF Marked
    <3>7. CASE is_update_que
      BY Zenon, <2>1, <3>2, <3>5, <3>6, <3>7, <1>RestOfAll DEF Served, Waiting
    <3>8. CASE ~is_update_que
      BY Zenon, <2>1, <3>2, <3>5, <3>6, <3>8, <1>RestOfAll DEF Served, Waiting
    <3> QED
      BY Zenon, <3>7, <3>8
  <2> QED
    BY Zenon, <2>1, <2>2, <2>3

(* Deleting what the slave has executed loses nothing.                     *)
<1>StartDataLoss.
    ASSUME Inv, TypeOK', Protocol, Covered, Marked, Deletions, StartData, faults' = {}
    PROVE  Covered' /\ Marked' /\ Deletions'
  <2> USE <1>StartDataLoss
  <2>1. UNCHANGED <<mval, mexp, todo, registered, creating, is_update_que, slave, sval>>
    BY Zenon DEF StartData, regVars, slaveVars, dbVars
  <2>2. mt.pc = "start" /\ mt'.pc = "front" /\ status' = 0
    BY Zenon DEF StartData, Inv, TypeOK, MasterThreads
  <2>3. /\ Rest(que, que') /\ Rest(main_que, main_que')
        /\ SyncBelow(que', 0) /\ SyncBelow(main_que', 0)
    BY Zenon, <1>StartDataQueues
  <2>4. /\ que \in Seq(Items) /\ main_que \in Seq(Items)
        /\ que' \in Seq(Items) /\ main_que' \in Seq(Items)
    BY Zenon DEF Inv, TypeOK
  <2>5. Marked'
    <3>1. 0 \in 0 .. SyncNum /\ 0 <= Len(que') /\ 0 <= Len(main_que')
      BY <2>4, SyncNumAssumption
    <3>2. SyncBelow(Served', 0) /\ SyncBelow(Waiting', 0) /\ 0 <= Len(Served')
      BY Zenon, <2>3, <3>1 DEF Served, Waiting
    <3> QED
      BY Zenon, <2>2, <3>1, <3>2 DEF Marked
  <2>6. Covered'
    <3>1. \A k : Unsent(k) => Unsent(k)'
      BY Zenon, <2>1, <2>3, <2>4, <1>RestUnsent DEF Unsent
    <3>2. SameConn
      BY Zenon, <1>StartDataTurn
    <3>3. slave.conn # NoConn => slave.conn \in Conns
      BY Zenon DEF Inv, TypeOK, SlaveRecs
    <3>4. slave.conn # NoConn => conn'[slave.conn].toS = conn[slave.conn].toS
      BY Zenon, <3>2, <3>3 DEF SameConn
    <3>5. Carried' = Carried
      BY Zenon, <2>1, <2>2, <3>4, <1>CarriedSame
    <3>6. Made' <=> Made
      BY Zenon, <2>1 DEF Made
    <3> QED
      BY Zenon, <2>1, <3>1, <3>5, <3>6, <1>CoveredAside
  <2>7. Deletions'
    <3>1. registered'
      BY Zenon, <2>1, <2>2 DEF Inv, Unpublished
    <3>2. \A i \in 1 .. Len(que') : que'[i].type = "ADD"
      BY Zenon, <2>3 DEF Rest, Deletions
    <3>3. \A v \in Workers : \A k \in todo'[v].keys :
            todo'[v].op = "push" /\ todo'[v].type = "DEL" => mval'[k] = 0
      BY Zenon, <2>1 DEF Deletions
    <3>4. PICK n \in Nat : /\ n <= Len(main_que) /\ Len(main_que') = Len(main_que) - n
                           /\ \A i \in 1 .. Len(main_que') :
                                i + n \in 1 .. Len(main_que)
                                /\ main_que'[i] = main_que[i + n]
      BY Zenon, <2>3 DEF Rest
    <3>5. ASSUME NEW i \in 1 .. Len(main_que'), main_que'[i].type = "DEL"
          PROVE  Redone(i)'
      <4>1. i + n \in 1 .. Len(main_que) /\ main_que'[i] = main_que[i + n]
              /\ Redone(i + n)
        BY Zenon, <3>4, <3>5 DEF Deletions
      <4>2. CASE mval[main_que[i + n].key] = 0 \/ AddTodo(main_que[i + n].key)
        BY Zenon, <2>1, <4>1, <4>2 DEF Redone, AddTodo
      <4>3. CASE \E j \in (i + n) + 1 .. Len(main_que) :
                   main_que[j].key = main_que[i + n].key /\ main_que[j].type = "ADD"
        <5>1. PICK j \in (i + n) + 1 .. Len(main_que) :
                main_que[j].key = main_que[i + n].key /\ main_que[j].type = "ADD"
          BY Zenon, <4>3
        <5>2. j - n \in i + 1 .. Len(main_que') /\ j - n \in 1 .. Len(main_que')
                /\ (j - n) + n = j
          BY <2>4, <3>4, <4>1
        <5>3. main_que'[j - n] = main_que[j]
          BY Zenon, <3>4, <5>2
        <5> QED
          BY Zenon, <4>1, <5>1, <5>2, <5>3 DEF Redone
      <4> QED
        BY Zenon, <4>1, <4>2, <4>3 DEF Redone
    <3> QED
      BY Zenon, <3>1, <3>2, <3>3, <3>5 DEF Deletions
  <2> QED
    BY Zenon, <2>5, <2>6, <2>7

(* When a batch is opened no item of either queue is marked, so that the   *)
(* choice of the queue is free.                                            *)
<1>FrontNumsLoss.
    ASSUME Inv, Protocol, Covered, Marked, Deletions, FrontNums
    PROVE  Covered' /\ Marked' /\ Deletions'
  <2> USE <1>FrontNumsLoss
  <2>1. UNCHANGED <<mval, mexp, todo, registered, creating, que, main_que, conn, slave,
                    sval>>
    BY Zenon DEF FrontNums, regVars, slaveVars, dbVars
  <2>2. status = 0 /\ slave.conn # NoConn /\ conn[slave.conn].toS = <<>>
    BY Zenon, <1>FrontNumsTurn
  <2>3. mt.pc = "front" /\ mt \in MasterThreads /\ que \in Seq(Items)
          /\ main_que \in Seq(Items)
    BY Zenon DEF FrontNums, Inv, TypeOK
  <2>4. \/ mt'.pc = "sent"
        \/ /\ mt'.pc = "item" /\ mt'.i = 1 /\ mt'.out = <<>>
           /\ \E q \in {que, main_que} : mt'.n = BatchSize(q)
    BY Zenon, <2>3 DEF FrontNums, MasterThreads
  <2>5. Carried = <<>> /\ Carried' = <<>>
    BY Zenon, <2>1, <2>2, <2>3, <2>4 DEF Carried
  <2>6. SyncBelow(que, 0) /\ SyncBelow(main_que, 0)
    BY Zenon, <2>2 DEF Marked, Served, Waiting
  <2>7. Marked'
    <3>1. 0 \in 0 .. SyncNum /\ 0 <= Len(que) /\ 0 <= Len(main_que)
          /\ \A q \in {que, main_que} : BatchSize(q) <= SyncNum
      BY <2>3, SyncNumAssumption DEF BatchSize
    <3>2. SyncBelow(Served', 0) /\ SyncBelow(Waiting', 0) /\ 0 <= Len(Served')
      BY Zenon, <2>1, <2>6, <3>1 DEF Served, Waiting
    <3>3. mt'.pc = "item" => mt'.i - 1 = 0
      BY <2>4
    <3> QED
      BY Zenon, <2>4, <3>1, <3>2, <3>3 DEF Marked
  <2>8. Made' <=> Made
    BY Zenon, <2>1 DEF Made
  <2> QED
    BY Zenon, <2>1, <2>5, <2>7, <2>8, <1>DeletionsAside, <1>UnsentAside, <1>CoveredAside

(* Steps of the master's threads that are about the connection.            *)
<1>WorkerLoss.
    ASSUME Inv, Protocol, Covered, Marked, Deletions, SameConn,
           UNCHANGED <<mval, mexp, todo, registered, creating, que, main_que,
                       is_update_que, status, slave, sval>>,
           mt' = mt \/ (mt.pc # "item" /\ mt'.pc # "item")
    PROVE  Covered' /\ Marked' /\ Deletions'
  <2> USE <1>WorkerLoss
  <2>1. slave.conn # NoConn => slave.conn \in Conns
    BY Zenon DEF Inv, TypeOK, SlaveRecs
  <2>2. slave.conn # NoConn => conn'[slave.conn].toS = conn[slave.conn].toS
    BY Zenon, <2>1 DEF SameConn
  <2>3. Carried' = Carried
    BY Zenon, <2>2, <1>CarriedSame
  <2>4. Made' <=> Made
    BY Zenon DEF Made
  <2> QED
    BY Zenon, <2>3, <2>4, <1>DataAside

(* setSync marks the current item of the queue that is served.             *)
<1>MarkSyncQueues.
    ASSUME Inv, mt.pc = "item", MarkSync, is_update_que' = is_update_que
    PROVE  /\ Served' = [Served EXCEPT ![mt.i].is_sync = TRUE]
           /\ Waiting' = Waiting
           /\ Served \in Seq(Items) /\ mt.i \in 1 .. Len(Served)
           /\ CurrentItem = Served[mt.i]
  <2> USE <1>MarkSyncQueues
  <2>1. Served \in Seq(Items) /\ CurrentItem = Served[mt.i]
    BY Zenon DEF Inv, TypeOK, Served, CurrentItem
  <2>2. mt.i \in 1 .. mt.n /\ mt.n <= Len(Served) /\ mt \in MasterThreads
    BY Zenon DEF Inv, TypeOK, BatchStays, Served
  <2>3. mt.n \in Nat /\ Len(Served) \in Nat
    BY <2>1, <2>2 DEF MasterThreads
  <2>4. mt.i \in 1 .. Len(Served)
    BY <2>2, <2>3
  <2>5. Served' = [Served EXCEPT ![mt.i].is_sync = TRUE] /\ Waiting' = Waiting
    BY Zenon DEF Served, Waiting, MarkSync
  <2> QED
    BY Zenon, <2>1, <2>4, <2>5

(* The items of other keys stay as they are.                               *)
<1>MarkHolds.
    ASSUME NEW q \in Seq(Items), NEW i \in 1 .. Len(q), NEW k, k # q[i].key, Holds(q, k),
           NEW r, r = [q EXCEPT ![i].is_sync = TRUE]
    PROVE  Holds(r, k)
  <2> USE <1>MarkHolds
  <2>1. PICK j \in 1 .. Len(q) : q[j].key = k /\ ~q[j].is_sync
    BY Zenon DEF Holds
  <2>2. /\ Len(r) = Len(q)
        /\ \A m \in 1 .. Len(q) : m # i => r[m] = q[m]
    BY Zenon, <1>MarkNext
  <2>3. j # i
    BY Zenon, <2>1
  <2>4. r[j] = q[j]
    BY Zenon, <2>2, <2>3
  <2> QED
    BY Zenon, <2>1, <2>2, <2>4 DEF Holds

(* The two queues, by their role.                                          *)
<1>UnsentIs.
    ASSUME NEW k
    PROVE  Unsent(k) <=> Holds(Served, k) \/ Holds(Waiting, k) \/ \E w \in Workers :
             k \in todo[w].keys
  BY Zenon DEF Unsent, Served, Waiting

(* The same after a step.                                                  *)
<1>UnsentNextIs.
    ASSUME NEW k
    PROVE  Unsent(k)' <=> Holds(Served', k) \/ Holds(Waiting', k) \/ \E w \in Workers :
             k \in todo'[w].keys
  BY Zenon DEF Unsent, Served, Waiting

(* Marking an item leaves the other keys unsent.                           *)
<1>MarkUnsent.
    ASSUME Inv, mt.pc = "item", MarkSync, UNCHANGED <<is_update_que, todo>>,
           NEW k, k # CurrentItem.key, Unsent(k)
    PROVE  Unsent(k)'
  <2> USE <1>MarkUnsent
  <2>1. /\ Served' = [Served EXCEPT ![mt.i].is_sync = TRUE]
        /\ Waiting' = Waiting
        /\ Served \in Seq(Items) /\ mt.i \in 1 .. Len(Served)
        /\ CurrentItem = Served[mt.i]
    BY Zenon, <1>MarkSyncQueues
  <2>2. PICK q : q = Served
    BY Zenon
  <2>3. PICK r : r = Served'
    BY Zenon
  <2>4. Holds(q, k) => Holds(r, k)
    BY Zenon, <2>1, <2>2, <2>3, <1>MarkHolds
  <2> QED
    BY Zenon, <2>1, <2>2, <2>3, <2>4, <1>UnsentIs, <1>UnsentNextIs

(* Marking changes neither keys nor types.                                 *)
<1>MarkDeletions.
    ASSUME Inv, Deletions, mt.pc = "item", MarkSync,
           UNCHANGED <<is_update_que, todo, mval, registered>>
    PROVE  Deletions'
  <2> USE <1>MarkDeletions
  <2>1. PICK q, i : q = Served /\ i = mt.i
    BY Zenon
  <2>2. PICK r : r = Served'
    BY Zenon
  <2>3. q \in Seq(Items) /\ i \in 1 .. Len(q) /\ r = [q EXCEPT ![i].is_sync = TRUE]
          /\ Waiting' = Waiting
    BY Zenon, <2>1, <2>2, <1>MarkSyncQueues
  <2>4. Len(r) = Len(q) /\ \A j \in 1 .. Len(q) : r[j].key = q[j].key
          /\ r[j].type = q[j].type
    <3>1. LET u == [q EXCEPT ![i].is_sync = TRUE]
          IN  /\ Len(u) = Len(q)
              /\ \A j \in 1 .. Len(q) : u[j].key = q[j].key /\ u[j].type = q[j].type
      BY Zenon, <2>3, <1>MarkNext
    <3> QED
      BY Zenon, <2>3, <3>1
  <2>5. registered'
    BY Zenon DEF Inv, Unpublished
  <2>6. /\ Len(que') = Len(que) /\ Len(main_que') = Len(main_que)
        /\ \A j \in 1 .. Len(que) : que'[j].key = que[j].key /\ que'[j].type = que[j].type
        /\ \A j \in 1 .. Len(main_que) : main_que'[j].key = main_que[j].key
             /\ main_que'[j].type = main_que[j].type
    <3>1. CASE is_update_que
      BY Zenon, <2>1, <2>2, <2>3, <2>4, <3>1 DEF Served, Waiting
    <3>2. CASE ~is_update_que
      BY Zenon, <2>1, <2>2, <2>3, <2>4, <3>2 DEF Served, Waiting
    <3> QED
      BY Zenon, <3>1, <3>2
  <2>7. \A j \in 1 .. Len(que') : que'[j].type = "ADD"
    BY Zenon, <2>6 DEF Deletions
  <2>8. \A v \in Workers : \A k \in todo'[v].keys :
          todo'[v].op = "push" /\ todo'[v].type = "DEL" => mval'[k] = 0
    BY Zenon DEF Deletions
  <2>9. ASSUME NEW m \in 1 .. Len(main_que'), main_que'[m].type = "DEL"
        PROVE  Redone(m)'
    <3>1. m \in 1 .. Len(main_que) /\ main_que'[m].key = main_que[m].key /\ Redone(m)
      BY Zenon, <2>6, <2>9 DEF Deletions
    <3>2. CASE mval[main_que[m].key] = 0 \/ AddTodo(main_que[m].key)
      BY Zenon, <3>1, <3>2 DEF Redone, AddTodo
    <3>3. CASE \E j \in m + 1 .. Len(main_que) : main_que[j].key = main_que[m].key
                 /\ main_que[j].type = "ADD"
      <4>1. PICK j \in m + 1 .. Len(main_que) : main_que[j].key = main_que[m].key
              /\ main_que[j].type = "ADD"
        BY Zenon, <3>3
      <4>2. main_que \in Seq(Items)
        BY Zenon DEF Inv, TypeOK
      <4>3. j \in 1 .. Len(main_que)
        BY <3>1, <4>1, <4>2
      <4> QED
        BY Zenon, <2>6, <3>1, <4>1, <4>3 DEF Redone
    <3> QED
      BY Zenon, <3>1, <3>2, <3>3 DEF Redone
  <2> QED
    BY Zenon, <2>5, <2>7, <2>8, <2>9 DEF Deletions

(* A DEL item that is sent although the key has been written again is      *)
(* followed by the ADD of that write, which is not sent.                   *)
<1>DelItem.
    ASSUME Inv, Marked, Deletions, mt.pc = "item", MarkSync, UNCHANGED <<is_update_que,
                                                                         todo>>,
           CurrentItem.type = "DEL", NEW k, k = CurrentItem.key
    PROVE  mval[k] = 0 \/ Unsent(k)'
  <2> USE <1>DelItem
  <2>1. /\ Served' = [Served EXCEPT ![mt.i].is_sync = TRUE]
        /\ Served \in Seq(Items) /\ mt.i \in 1 .. Len(Served)
        /\ CurrentItem = Served[mt.i]
    BY Zenon, <1>MarkSyncQueues
  <2>2. Served = main_que
    <3>1. "ADD" # "DEL"
      OBVIOUS
    <3> QED
      BY Zenon, <2>1, <3>1 DEF Deletions, Served
  <2>3. Redone(mt.i) /\ SyncBelow(Served, mt.i - 1)
    BY Zenon, <2>1, <2>2 DEF Deletions, Marked
  <2>4. CASE AddTodo(main_que[mt.i].key)
    BY Zenon, <2>1, <2>2, <2>4 DEF AddTodo, Unsent
  <2>5. CASE \E j \in mt.i + 1 .. Len(main_que) :
               main_que[j].key = main_que[mt.i].key /\ main_que[j].type = "ADD"
    <3>1. PICK q, i : q = Served /\ i = mt.i
      BY Zenon
    <3>2. PICK r : r = Served'
      BY Zenon
    <3>3. PICK j \in i + 1 .. Len(q) : q[j].key = q[i].key
      BY Zenon, <2>2, <2>5, <3>1
    <3>4. q \in Seq(Items) /\ i \in 1 .. Len(q) /\ r = [q EXCEPT ![i].is_sync = TRUE]
            /\ SyncBelow(q, i - 1)
      BY Zenon, <2>1, <2>3, <3>1, <3>2
    <3>5. j \in 1 .. Len(q) /\ j # i /\ ~(j <= i - 1)
      BY <3>3, <3>4
    <3>6. Len(r) = Len(q) /\ r[j] = q[j]
      BY Zenon, <3>4, <3>5, <1>MarkNext
    <3>7. ~q[j].is_sync
      BY Zenon, <3>4, <3>5 DEF SyncBelow
    <3>8. Holds(r, q[i].key)
      BY Zenon, <3>3, <3>5, <3>6, <3>7 DEF Holds
    <3> QED
      BY Zenon, <2>1, <3>1, <3>2, <3>8, <1>UnsentNextIs
  <2> QED
    BY Zenon, <2>1, <2>2, <2>3, <2>4, <2>5 DEF Redone

(* What a round of Start adds to the command: the current value of the     *)
(* key, or its deletion.                                                   *)
<1>StartItemCarries.
    ASSUME Inv, Protocol, StartItem, NEW k, k = CurrentItem.key
    PROVE  /\ mt'.pc = "item" => mt'.i = mt.i + 1 /\ mt'.n = mt.n
           /\ \/ /\ mt'.pc = "sent" /\ Carried' = mt.out /\ UNCHANGED <<que, main_que>>
              \/ /\ MarkSync
                 /\ \E v \in {0, mval[k]} :
                      /\ Carried' = Append(mt.out, [key |-> k, val |-> v])
                      /\ v = mval[k] \/ ~Visible(k) \/ CurrentItem.type = "DEL"
  <2> USE <1>StartItemCarries
  <2>1. /\ slave.conn \in Conns /\ slave.conn = mt.cur
        /\ conn[mt.cur].toS = <<>> /\ conn[mt.cur].up /\ conn[mt.cur].open
    BY Zenon, <1>StartItemTurn
  <2>2. PICK c : c = mt.cur
    BY Zenon
  <2>3. c \in Conns /\ slave'.conn = c /\ c # NoConn
    BY Zenon, <2>1, <2>2, <1>ConnNumber DEF StartItem, slaveVars
  <2>4. mt \in MasterThreads /\ mt.pc = "item"
    BY Zenon DEF Inv, TypeOK, StartItem
  <2>5. ASSUME NEW m, SendCommand(m)
        PROVE  mt'.pc = "sent" /\ Carried' = m.pairs
    <3>1. mt'.pc = "sent"
      BY Zenon, <2>4, <2>5 DEF SendCommand, MasterThreads
    <3>2. Append(conn[c].toS, m) = <<m>>
      <4>1. conn[c].toS = <<>>
        BY Zenon, <2>1, <2>2
      <4> QED
        BY <4>1
    <3>3. conn' = [conn EXCEPT ![c].toS = <<m>>]
      BY Zenon, <2>1, <2>2, <2>5, <3>2 DEF SendToSlave, SendCommand
    <3>4. conn'[c].toS = <<m>>
      BY Zenon, <2>3, <3>3, <1>ToSIs DEF Inv
    <3>5. <<m>> # <<>> /\ Head(<<m>>) = m
      OBVIOUS
    <3>6. "sent" # "item"
      OBVIOUS
    <3> QED
      BY Zenon, <2>3, <3>1, <3>4, <3>5, <3>6 DEF Carried
  <2>6. \A p, j : Put(p).pairs = p /\ DelCommand(j).pairs = <<[key |-> j, val |-> 0]>>
    BY DEF Put, DelCommand
  <2>7. Append(<<>>, [key |-> k, val |-> 0]) = <<[key |-> k, val |-> 0]>>
    OBVIOUS
  <2> DEFINE pairs == Append(mt.out, [key |-> k, val |-> mval[k]])
             joins == CurrentItem.type = "ADD" /\ Visible(k) /\ mexp[k] = "none"
  <2>8. ASSUME mt' = [mt EXCEPT !.i = @ + 1, !.out = pairs], MarkSync
        PROVE  /\ mt'.pc = "item" => mt'.i = mt.i + 1 /\ mt'.n = mt.n
               /\ MarkSync /\ Carried' = pairs
    <3> HIDE DEF pairs
    <3>1. mt'.pc = "item" /\ mt'.i = mt.i + 1 /\ mt'.n = mt.n /\ mt'.out = pairs
      BY Zenon, <2>4, <2>8 DEF MasterThreads
    <3> QED
      BY Zenon, <2>8, <3>1 DEF Carried
  <2>9. CurrentItem.type \in {"ADD", "DEL"}
    <3>1. CurrentItem \in Items
      <4>1. /\ mt.i \in 1 .. mt.n
            /\ is_update_que => mt.n <= Len(que)
            /\ ~is_update_que => mt.n <= Len(main_que)
        BY Zenon, <2>4 DEF Inv, BatchStays
      <4>2. que \in Seq(Items) /\ main_que \in Seq(Items) /\ mt.n \in Nat
        BY Zenon, <2>4 DEF Inv, TypeOK, MasterThreads
      <4> QED
        BY <4>1, <4>2 DEF CurrentItem
    <3> QED
      BY Zenon, <3>1 DEF Items
  <2>10. "sent" # "item"
    OBVIOUS
  <2>11. \/ /\ mt' = [mt EXCEPT !.i = @ + 1, !.out = pairs]
            /\ MarkSync
         \/ /\ SendCommand(Put(pairs)) /\ MarkSync
         \/ /\ SendCommand(Put(mt.out))
            /\ UNCHANGED <<que, main_que>>
         \/ /\ mt.out = <<>> /\ ~(CurrentItem.type = "ADD" /\ Visible(k))
            /\ SendCommand(DelCommand(k))
            /\ MarkSync
    BY Zenon DEF StartItem
  <2> HIDE DEF pairs
  <2>12. CASE mt' = [mt EXCEPT !.i = @ + 1, !.out = pairs] /\ MarkSync
    BY Zenon, <2>8, <2>12 DEF pairs
  <2>13. CASE SendCommand(Put(pairs)) /\ MarkSync
    BY Zenon, <2>5, <2>6, <2>10, <2>13 DEF pairs
  <2>14. CASE SendCommand(Put(mt.out)) /\ UNCHANGED <<que, main_que>>
    BY Zenon, <2>5, <2>6, <2>10, <2>14
  <2>15. CASE /\ mt.out = <<>> /\ ~(CurrentItem.type = "ADD" /\ Visible(k))
              /\ SendCommand(DelCommand(k))
              /\ MarkSync
    BY Zenon, <2>5, <2>6, <2>7, <2>9, <2>10, <2>15
  <2> QED
    BY Zenon, <2>11, <2>12, <2>13, <2>14, <2>15

(* The pair that joins the command carries what the item stood for.        *)
<1>StartItemCovered.
    ASSUME Inv, TypeOK', Protocol, Covered, Marked, Deletions, StartItem
    PROVE  Covered'
  <2> USE <1>StartItemCovered
  <2>1. PICK k : k = CurrentItem.key
    BY Zenon
  <2>2. UNCHANGED <<mval, mexp, sval, todo, registered, creating, is_update_que>>
    BY Zenon DEF StartItem, slaveVars, dbVars, regVars
  <2>3. mt.pc = "item" /\ registered /\ mt \in MasterThreads
    BY Zenon DEF StartItem, Inv, Unpublished, TypeOK
  <2>4. Made /\ Made'
    BY Zenon, <2>2, <2>3 DEF Made
  <2>5. Carried = mt.out /\ mt.out \in Seq(Pairs)
    BY Zenon, <2>3 DEF Carried, MasterThreads
  <2>6. \/ /\ Carried' = mt.out /\ UNCHANGED <<que, main_que>>
        \/ /\ MarkSync
           /\ \E v \in {0, mval[k]} :
                /\ Carried' = Append(mt.out, [key |-> k, val |-> v])
                /\ v = mval[k] \/ ~Visible(k) \/ CurrentItem.type = "DEL"
    BY Zenon, <2>1, <1>StartItemCarries
  <2>7. CASE Carried' = mt.out /\ UNCHANGED <<que, main_que>>
    BY Zenon, <2>2, <2>4, <2>5, <2>7, <1>CoveredAside, <1>UnsentAside
  <2>8. ASSUME MarkSync, NEW v \in {0, mval[k]},
               Carried' = Append(mt.out, [key |-> k, val |-> v]),
               v = mval[k] \/ ~Visible(k) \/ CurrentItem.type = "DEL"
        PROVE  Covered'
    <3>1. k \in Keys
      <4>1. Served \in Seq(Items) /\ mt.i \in 1 .. Len(Served)
              /\ CurrentItem = Served[mt.i]
        BY Zenon, <2>2, <2>3, <2>8, <1>MarkSyncQueues
      <4>2. Served[mt.i] \in Items
        BY <4>1
      <4> QED
        BY Zenon, <2>1, <4>1, <4>2 DEF Items
    <3>2. [key |-> k, val |-> v] \in Pairs
      <4>1. mval \in [Keys -> Versions] /\ MaxVer \in Nat
        BY Zenon, BoundAssumption DEF Inv, TypeOK
      <4>2. 0 \in Versions
        BY <4>1 DEF Versions
      <4>3. mval[k] \in Versions
        BY Zenon, <3>1, <4>1
      <4> QED
        BY Zenon, <2>8, <3>1, <4>2, <4>3 DEF Pairs
    <3>3. PICK x : x = [key |-> k, val |-> v]
      BY Zenon
    <3>4. x \in Pairs /\ x.key = k /\ x.val = v /\ Carried' = Append(mt.out, x)
      BY Zenon, <2>8, <3>2, <3>3
    <3>5. ASSUME NEW j \in Keys
          PROVE  Final(sval, Carried', j) = IF k = j THEN v ELSE Final(sval, mt.out, j)
      <4>1. Final(sval, Append(mt.out, x), j) = IF x.key = j THEN x.val ELSE Final(sval,
              mt.out, j)
        BY Zenon, <2>5, <3>4, <1>LastOfAppend
      <4> QED
        BY Zenon, <3>4, <4>1
    <3>6. ASSUME NEW j \in Keys
          PROVE  Unsent(j)' \/ Right(j, Final(sval, Carried', j))
      <4>1. CASE j # k
        <5>1. Unsent(j) => Unsent(j)'
          BY Zenon, <2>1, <2>2, <2>3, <2>8, <4>1, <1>MarkUnsent
        <5>2. Unsent(j) \/ Right(j, Final(sval, mt.out, j))
          BY Zenon, <2>4, <2>5 DEF Covered
        <5> QED
          BY Zenon, <3>5, <4>1, <5>1, <5>2
      <4>2. CASE j = k
        <5>1. Final(sval, Carried', j) = v
          BY Zenon, <3>5, <4>2
        <5>2. CASE v = mval[k]
          BY Zenon, <4>2, <5>1, <5>2 DEF Right
        <5>3. CASE v = 0 /\ ~Visible(k)
          BY Zenon, <4>2, <5>1, <5>3 DEF Right, Visible
        <5>4. CASE v = 0 /\ CurrentItem.type = "DEL"
          <6>1. mval[k] = 0 \/ Unsent(k)'
            BY Zenon, <2>1, <2>2, <2>3, <2>8, <5>4, <1>DelItem
          <6> QED
            BY Zenon, <4>2, <5>1, <5>4, <6>1 DEF Right
        <5> QED
          BY Zenon, <2>8, <5>2, <5>3, <5>4
      <4> QED
        BY Zenon, <4>1, <4>2
    <3> QED
      BY Zenon, <2>2, <2>4, <3>6 DEF Covered, Right
  <2> QED
    BY Zenon, <2>6, <2>7, <2>8

(* A round of Start moves an item from the queue to the command.           *)
<1>StartItemLoss.
    ASSUME Inv, TypeOK', Protocol, Covered, Marked, Deletions, StartItem
    PROVE  Covered' /\ Marked' /\ Deletions'
  <2> USE <1>StartItemLoss
  <2>1. PICK k : k = CurrentItem.key
    BY Zenon
  <2>2. UNCHANGED <<mval, todo, registered, is_update_que, status>>
    BY Zenon DEF StartItem, dbVars, regVars
  <2>3. mt.pc = "item" /\ mt \in MasterThreads /\ SyncBelow(Waiting, 0)
        /\ SyncBelow(Served, mt.i - 1) /\ mt.n <= SyncNum
    BY Zenon DEF StartItem, Inv, TypeOK, Marked
  <2>4. /\ mt'.pc = "item" => mt'.i = mt.i + 1 /\ mt'.n = mt.n
        /\ \/ mt'.pc = "sent" /\ UNCHANGED <<que, main_que>>
           \/ MarkSync
    BY Zenon, <2>1, <1>StartItemCarries
  <2>5. CASE mt'.pc = "sent" /\ UNCHANGED <<que, main_que>>
    <3>1. mt'.pc # "item"
      BY Zenon, <2>5
    <3> QED
      BY Zenon, <2>2, <2>5, <3>1, <1>MarkedAside, <1>DeletionsAside, <1>StartItemCovered
  <2>6. CASE MarkSync
    <3>1. PICK i : i = mt.i
      BY Zenon
    <3>2. PICK q : q = Served
      BY Zenon
    <3>3. q \in Seq(Items) /\ i \in 1 .. Len(q)
            /\ Served' = [q EXCEPT ![i].is_sync = TRUE] /\ Waiting' = Waiting
      BY Zenon, <2>2, <2>3, <2>6, <3>1, <3>2, <1>MarkSyncQueues
    <3>4. LET r == [q EXCEPT ![i].is_sync = TRUE]
          IN  SyncBelow(r, i) /\ Len(r) = Len(q)
      BY Zenon, <2>3, <3>1, <3>2, <3>3, <1>MarkNext
    <3>5. SyncBelow(Served', i) /\ Len(Served') = Len(q) /\ SyncBelow(Waiting', 0)
      BY Zenon, <2>3, <3>3, <3>4
    <3>6. i \in 1 .. mt.n /\ mt.n \in Nat
      BY Zenon, <2>3, <3>1 DEF Inv, BatchStays, MasterThreads
    <3>7. i \in 0 .. SyncNum /\ i <= Len(q) /\ (i + 1) - 1 = i
      BY <2>3, <3>3, <3>6, SyncNumAssumption
    <3>8. status' # 0
      <4>1. status = 1
        <5>1. slave.conn # NoConn
          BY Zenon, <2>3 DEF Protocol, OneConnection
        <5> QED
          BY Zenon, <2>3, <5>1 DEF Protocol, Building, Got
      <4> QED
        BY <2>2, <4>1
    <3>9. mt'.pc = "item" => mt'.i - 1 = i /\ mt'.n <= SyncNum
      BY <2>3, <2>4, <3>1, <3>7
    <3>10. Marked'
      BY Zenon, <3>5, <3>7, <3>8, <3>9 DEF Marked
    <3> QED
      BY Zenon, <2>2, <2>3, <2>6, <3>10, <1>MarkDeletions, <1>StartItemCovered
  <2> QED
    BY Zenon, <2>4, <2>5, <2>6

(* The worker of the connection.                                           *)
<1>RepParserLoss.
    ASSUME Inv, Protocol, Covered, Marked, Deletions, NEW c \in Conns, RepParser(c)
    PROVE  Covered' /\ Marked' /\ Deletions'
  <2> USE <1>RepParserLoss
  <2>1. UNCHANGED <<mval, mexp, todo, registered, creating, que, main_que,
                    is_update_que, status, slave, sval, mt>>
    BY Zenon DEF RepParser, regVars, slaveVars, dbVars, queVars
  <2>2. slave.conn # NoConn => slave.conn \in Conns
    BY Zenon DEF Inv, TypeOK, SlaveRecs
  <2>3. \A d \in Conns : conn'[d].toS = conn[d].toS
    BY Zenon, <1>RepParserTurn
  <2>4. slave.conn # NoConn => conn'[slave.conn].toS = conn[slave.conn].toS
    BY Zenon, <2>2, <2>3
  <2>5. Carried' = Carried
    BY Zenon, <2>1, <2>4, <1>CarriedSame
  <2>6. Made' <=> Made
    BY Zenon, <2>1 DEF Made
  <2> QED
    BY Zenon, <2>1, <2>5, <2>6, <1>DataAside

(* The same for Complete ...                                               *)
<1>RepCompleteLoss.
    ASSUME Inv, Protocol, Covered, Marked, Deletions, NEW c \in Conns, RepComplete(c)
    PROVE  Covered' /\ Marked' /\ Deletions'
  <2> USE <1>RepCompleteLoss
  <2>1. UNCHANGED <<mval, mexp, todo, registered, creating, que, main_que,
                    is_update_que, status, slave, sval, mt>>
    BY Zenon DEF RepComplete, regVars, slaveVars, dbVars, queVars
  <2>2. SameConn
    BY Zenon, <1>RepCompleteTurn
  <2> QED
    BY Zenon, <2>1, <2>2, <1>WorkerLoss

(* ... and for the end of MasterHandle.                                    *)
<1>MasterFinishLoss.
    ASSUME Inv, Protocol, Covered, Marked, Deletions, MasterFinish
    PROVE  Covered' /\ Marked' /\ Deletions'
  <2> USE <1>MasterFinishLoss
  <2>1. UNCHANGED <<mval, mexp, todo, registered, creating, que, main_que,
                    is_update_que, status, slave, sval>>
    BY Zenon DEF MasterFinish, regVars, slaveVars, dbVars, queVars
  <2>2. SameConn
    BY Zenon, <1>MasterFinishTurn
  <2>3. mt.pc # "item" /\ mt'.pc # "item"
    BY Zenon DEF MasterFinish, IdleThread
  <2> QED
    BY Zenon, <2>1, <2>2, <2>3, <1>WorkerLoss

(* The constructor queues every key that is in the database; the slave has *)
(* no other.                                                               *)
<1>RepCreateLoss.
    ASSUME Inv, Protocol, Covered, Marked, Deletions, NEW c \in Conns, RepCreate(c)
    PROVE  Covered' /\ Marked' /\ Deletions'
  <2> USE <1>RepCreateLoss
  <2>1. UNCHANGED <<mval, mexp, todo, registered, main_que, status, slave, sval, mt,
                    conn>>
    BY Zenon DEF RepCreate, slaveVars, dbVars
  <2>2. ~registered /\ creating = NoConn /\ creating' = c /\ is_update_que'
          /\ que' \in Snapshot(PresentKeys)
    BY Zenon DEF RepCreate
  <2>3. mt.pc = "idle" /\ status = 0 /\ main_que = <<>>
    BY Zenon, <2>2 DEF Inv, Unpublished, Protocol, Deletions
  <2>4. "idle" # "item"
    OBVIOUS
  <2>5. Carried = <<>> /\ Carried' = Carried
    <3>1. Carried = <<>>
      BY Zenon, <2>3, <2>4, <1>NothingCarried
    <3> QED
      BY Zenon, <2>1, <3>1 DEF Carried
  <2>6. ~Made /\ Made'
    BY Zenon, <2>2, <1>ConnNumber DEF Made
  <2>7. PresentKeys \in SUBSET Keys
    BY Zenon DEF PresentKeys
  <2>8. PICK q \in Snapshot(PresentKeys) : q = que'
    BY Zenon, <2>2
  <2>9. /\ \A i \in 1 .. Len(q) : q[i].type = "ADD" /\ ~q[i].is_sync
        /\ \A k \in PresentKeys : \E i \in 1 .. Len(q) : q[i].key = k /\ ~q[i].is_sync
    BY Zenon, <2>7, SnapshotItems
  <2>10. Covered'
    <3>1. ASSUME NEW k \in Keys
          PROVE  Unsent(k)' \/ Right(k, Final(sval, Carried', k))
      <4>1. CASE mval[k] # 0
        <5>1. Holds(q, k)
          BY Zenon, <2>9, <4>1 DEF PresentKeys, Holds
        <5> QED
          BY Zenon, <2>8, <5>1 DEF Unsent
      <4>2. CASE mval[k] = 0
        <5>1. sval[k] = 0
          BY Zenon, <2>6 DEF Covered
        <5>2. Final(sval, Carried', k) = sval[k]
          BY Zenon, <2>5, LastOfNone
        <5> QED
          BY Zenon, <4>2, <5>1, <5>2 DEF Right
      <4> QED
        BY Zenon, <4>1, <4>2
    <3> QED
      BY Zenon, <2>1, <2>6, <3>1 DEF Covered, Right
  <2>11. Marked'
    <3>1. \A i \in 1 .. Len(q) : ~(i <= 0)
      <4>1. \A i \in 1 .. Len(q) : i \in Int /\ 1 <= i
        OBVIOUS
      <4> QED
        BY <4>1
    <3>2. SyncBelow(q, 0)
      BY Zenon, <2>9, <3>1 DEF SyncBelow
    <3>3. Len(main_que) = 0 /\ 1 .. 0 = {}
      BY <2>3
    <3>4. SyncBelow(main_que, 0)
      BY Zenon, <3>3 DEF SyncBelow
    <3>5. Served' = q /\ Waiting' = main_que
      BY Zenon, <2>1, <2>2, <2>8 DEF Served, Waiting
    <3>6. 0 \in 0 .. SyncNum
      BY SyncNumAssumption
    <3>7. q \in Seq(Items)
      BY Zenon, <2>7, SnapshotTypes
    <3>8. 0 <= Len(q)
      BY <3>7
    <3> QED
      BY Zenon, <2>1, <2>3, <2>4, <3>2, <3>4, <3>5, <3>6, <3>8 DEF Marked
  <2>12. Deletions'
    <3>1. main_que' = <<>> /\ Len(<<>>) = 0 /\ 1 .. 0 = {}
      BY <2>1, <2>3
    <3>2. \A i \in 1 .. Len(main_que') : FALSE
      BY Zenon, <3>1
    <3>3. \A i \in 1 .. Len(que') : que'[i].type = "ADD"
      BY Zenon, <2>8, <2>9
    <3>4. \A v \in Workers : \A k \in todo'[v].keys :
            todo'[v].op = "push" /\ todo'[v].type = "DEL" => mval'[k] = 0
      BY Zenon, <2>1 DEF Deletions
    <3> QED
      BY Zenon, <3>1, <3>2, <3>3, <3>4 DEF Deletions
  <2> QED
    BY Zenon, <2>10, <2>11, <2>12

(* From now on Push finds the object; nothing was pushed meanwhile.        *)
<1>RepPublishLoss.
    ASSUME Inv, Protocol, Covered, Marked, Deletions, NEW c \in Conns, RepPublish(c)
    PROVE  Covered' /\ Marked' /\ Deletions'
  <2> USE <1>RepPublishLoss
  <2>1. UNCHANGED <<mval, mexp, todo, que, main_que, is_update_que, status, slave, sval,
                    mt, conn>> /\ registered'
    BY Zenon DEF RepPublish, slaveVars, dbVars, queVars
  <2>2. Made /\ Made'
    BY Zenon, <2>1, <1>ConnNumber DEF Made, RepPublish
  <2>3. Carried' = Carried
    BY Zenon, <2>1 DEF Carried
  <2> QED
    BY Zenon, <2>1, <2>2, <2>3, <1>DataAside

(* The slave connects: nothing is on its way.                              *)
<1>SlaveLinkLoss.
    ASSUME Inv, Protocol, Covered, Marked, Deletions, SlaveLink
    PROVE  Covered' /\ Marked' /\ Deletions'
  <2> USE <1>SlaveLinkLoss
  <2>1. UNCHANGED <<mval, mexp, todo, registered, creating, que, main_que,
                    is_update_que, status, sval, mt>>
    BY Zenon DEF SlaveLink, regVars, dbVars, queVars
  <2>2. slave.conn = NoConn /\ mt.pc # "item" /\ conn'[slave'.conn].toS = <<>>
    BY Zenon, <1>SlaveLinkTurn
  <2>3. Carried' = Carried
    BY Zenon, <2>1, <2>2 DEF Carried
  <2>4. Made' <=> Made
    BY Zenon, <2>1 DEF Made
  <2> QED
    BY Zenon, <2>1, <2>3, <2>4, <1>DataAside

(* The slave's requests ...                                                *)
<1>SlaveAskLoss.
    ASSUME Inv, Protocol, Covered, Marked, Deletions, SlaveAsk
    PROVE  Covered' /\ Marked' /\ Deletions'
  <2> USE <1>SlaveAskLoss
  <2>1. UNCHANGED <<mval, mexp, todo, registered, creating, que, main_que,
                    is_update_que, status, sval, mt>>
    BY Zenon DEF SlaveAsk, regVars, dbVars, queVars
  <2>2. slave'.conn = slave.conn /\ conn'[slave.conn].toS = conn[slave.conn].toS
    BY Zenon, <1>SlaveAskTurn
  <2>3. Carried' = Carried
    BY Zenon, <2>1, <2>2, <1>CarriedSame
  <2>4. Made' <=> Made
    BY Zenon, <2>1 DEF Made
  <2> QED
    BY Zenon, <2>1, <2>3, <2>4, <1>DataAside

(* ... and its acknowledgements carry no pairs.                            *)
<1>SlaveWriteLoss.
    ASSUME Inv, Protocol, Covered, Marked, Deletions, NEW c \in Conns, SlaveWrite(c)
    PROVE  Covered' /\ Marked' /\ Deletions'
  <2> USE <1>SlaveWriteLoss
  <2>1. UNCHANGED <<mval, mexp, todo, registered, creating, que, main_que,
                    is_update_que, status, sval, mt>>
    BY Zenon DEF SlaveWrite, regVars, dbVars, queVars
  <2>2. slave.conn = c /\ slave'.conn = c /\ conn'[c].toS = conn[c].toS
    BY Zenon, <1>SlaveWriteTurn
  <2>3. Carried' = Carried
    BY Zenon, <2>1, <2>2, <1>CarriedSame
  <2>4. Made' <=> Made
    BY Zenon, <2>1 DEF Made
  <2> QED
    BY Zenon, <2>1, <2>3, <2>4, <1>DataAside

(* Nor does the answer to auth.                                            *)
<1>SlaveReplyCommandLoss.
    ASSUME Inv, Protocol, Covered, Marked, Deletions, NEW c \in Conns,
             SlaveReplyCommand(c)
    PROVE  Covered' /\ Marked' /\ Deletions'
  <2> USE <1>SlaveReplyCommandLoss
  <2>1. UNCHANGED <<mval, mexp, todo, registered, creating, que, main_que,
                    is_update_que, status, sval, mt>>
    BY Zenon DEF SlaveReplyCommand, regVars, dbVars, queVars
  <2>2. /\ slave.conn = c /\ slave'.conn = c /\ conn'[c].toS = <<>>
        /\ conn[c].toS = <<Reply("authok")>>
    BY Zenon, <1>SlaveReplyCommandTurn
  <2>3. Head(<<Reply("authok")>>).pairs = <<>>
    BY DEF Reply
  <2>4. Carried' = Carried
    BY Zenon, <2>1, <2>2, <2>3 DEF Carried
  <2>5. Made' <=> Made
    BY Zenon, <2>1 DEF Made
  <2> QED
    BY Zenon, <2>1, <2>4, <2>5, <1>DataAside

(* The slave's database after a command.                                   *)
<1>AppliedIs.
    ASSUME NEW p, NEW k \in Keys
    PROVE  Applied(p)[k] = Final(sval, p, k)
  BY Zenon, <1>AppliedIs DEF Applied, LastValue, Final

(* Executing the command gives the slave the values it carries.            *)
<1>SlaveExecuteLoss.
    ASSUME Inv, Protocol, Covered, Marked, Deletions, NEW c \in Conns, SlaveExecute(c)
    PROVE  Covered' /\ Marked' /\ Deletions'
  <2> USE <1>SlaveExecuteLoss
  <2>1. UNCHANGED <<mval, mexp, todo, registered, creating, que, main_que,
                    is_update_que, status, mt>>
    BY Zenon DEF SlaveExecute, regVars, dbVars, queVars
  <2>2. /\ slave.conn = c /\ slave'.conn = c /\ conn'[c].toS = <<>>
        /\ conn[c].toS # <<>> /\ mt.pc # "item"
        /\ sval' = Applied(Head(conn[c].toS).pairs)
    BY Zenon, <1>SlaveExecuteTurn
  <2>3. Carried' = <<>> /\ sval' = Applied(Carried)
    BY Zenon, <2>1, <2>2, <1>ConnNumber DEF Carried
  <2>4. Made' <=> Made
    BY Zenon, <2>1 DEF Made
  <2>5. ASSUME NEW k \in Keys
        PROVE  sval'[k] = Final(sval, Carried, k) /\ Final(sval', Carried', k) = sval'[k]
    BY Zenon, <2>3, <1>AppliedIs, LastOfNone
  <2>6. Covered'
    <3>1. CASE Made
      <4>1. \A k \in Keys : Unsent(k) => Unsent(k)'
        BY Zenon, <2>1, <1>UnsentAside
      <4>2. \A k \in Keys : Unsent(k)' \/ Right(k, Final(sval', Carried', k))
        BY Zenon, <2>5, <3>1, <4>1 DEF Covered
      <4> QED
        BY Zenon, <2>1, <2>4, <3>1, <4>2 DEF Covered, Right
    <3>2. CASE ~Made
      <4>1. status = 0
        BY Zenon, <3>2 DEF Made, Protocol
      <4>2. Carried = <<>>
        BY Zenon, <2>2, <4>1, <1>NothingCarried
      <4>3. \A k \in Keys : sval'[k] = 0
        BY Zenon, <2>5, <3>2, <4>2, LastOfNone DEF Covered
      <4> QED
        BY Zenon, <2>4, <3>2, <4>3 DEF Covered
    <3> QED
      BY Zenon, <3>1, <3>2
  <2> QED
    BY Zenon, <2>1, <2>6, <1>MarkedAside, <1>DeletionsAside

(* The steps of the clients.                                               *)
<1>ClientLoss.
    ASSUME Inv, Protocol, Covered, Marked, Deletions, Client, faults' = {}
    PROVE  Protocol' /\ Covered' /\ Marked' /\ Deletions'
  <2> USE <1>ClientLoss
  <2>1. Protocol'
    <3>1. UNCHANGED <<conn, slave, fresh, status, registered, conn_, mt>>
      BY Zenon DEF Client, Set, Setex, Mset, ClientWrite, DelLookup, DelExecute,
         PushKey, Expire,
         slaveVars, regVars
    <3> QED
      BY Zenon, <3>1, <1>ClientTurn
  <2>2. ASSUME NEW w \in Workers, Set(w) \/ Setex(w) \/ Mset(w)
        PROVE  Covered' /\ Marked' /\ Deletions'
    <3>1. PICK K \in SUBSET Keys, e \in {"none", "live"} : ClientWrite(w, K, e)
      BY Zenon, <2>2 DEF Set, Setex, Mset
    <3> QED
      BY Zenon, <3>1, <1>ClientWriteLoss
  <2> QED
    BY Zenon, <2>1, <2>2, <1>DelLookupLoss, <1>DelExecuteLoss, <1>PushKeyLoss,
       <1>ExpireLoss DEF Client

(* The steps of the master thread.                                         *)
<1>MasterLoss.
    ASSUME Inv, TypeOK', Protocol, Covered, Marked, Deletions, MasterThread, faults' = {}
    PROVE  Protocol' /\ Covered' /\ Marked' /\ Deletions'
  <2> USE <1>MasterLoss
  <2>1. CASE MasterHandle
    BY Zenon, <2>1, <1>MasterHandleTurn, <1>MasterHandleLoss
  <2>2. CASE StartReply
    BY Zenon, <2>2, <1>StartReplyTurn, <1>StartReplyLoss
  <2>3. CASE StartData
    BY Zenon, <2>3, <1>StartDataTurn, <1>StartDataLoss
  <2>4. CASE FrontNums
    BY Zenon, <2>4, <1>FrontNumsTurn, <1>FrontNumsLoss
  <2>5. CASE StartItem
    BY Zenon, <2>5, <1>StartItemTurn, <1>StartItemLoss
  <2>6. CASE MasterFinish
    BY Zenon, <2>6, <1>MasterFinishTurn, <1>MasterFinishLoss
  <2> QED
    BY Zenon, <2>1, <2>2, <2>3, <2>4, <2>5, <2>6 DEF MasterThread

(* The steps of the workers; no connection is closed.                      *)
<1>MasterWorkerLoss.
    ASSUME Inv, Protocol, Covered, Marked, Deletions, NEW c \in Conns, MasterWorker(c)
    PROVE  Protocol' /\ Covered' /\ Marked' /\ Deletions'
  <2> USE <1>MasterWorkerLoss
  <2>1. CASE RepParser(c)
    BY Zenon, <2>1, <1>RepParserTurn, <1>RepParserLoss
  <2>2. CASE RepComplete(c)
    BY Zenon, <2>2, <1>RepCompleteTurn, <1>RepCompleteLoss
  <2>3. CASE RepCreate(c)
    BY Zenon, <2>3, <1>RegisterTurn, <1>RepCreateLoss
  <2>4. CASE RepPublish(c)
    BY Zenon, <2>4, <1>RegisterTurn, <1>RepPublishLoss
  <2>5. ASSUME MasterDestruct(c) PROVE FALSE
    BY Zenon, <2>5, <1>TurnThere DEF MasterDestruct, Protocol
  <2> QED
    BY Zenon, <2>1, <2>2, <2>3, <2>4, <2>5 DEF MasterWorker

(* The steps of the slave; its timer does not fire and no write fails.     *)
<1>SlaveLoss.
    ASSUME Inv, Protocol, Covered, Marked, Deletions, faults' = {},
           SlaveTick \/ \E c \in Conns : SlaveEvent(c)
    PROVE  Protocol' /\ Covered' /\ Marked' /\ Deletions'
  <2> USE <1>SlaveLoss
  <2>1. CASE SlaveLink
    BY Zenon, <2>1, <1>SlaveLinkTurn, <1>SlaveLinkLoss
  <2>2. CASE SlaveAsk
    BY Zenon, <2>2, <1>SlaveAskTurn, <1>SlaveAskLoss
  <2>3. ASSUME SlaveLinkFails \/ SlaveTimeout PROVE FALSE
    BY Zenon, <2>3 DEF SlaveLinkFails, SlaveTimeout
  <2>4. ASSUME NEW c \in Conns, SlaveEvent(c)
        PROVE  Protocol' /\ Covered' /\ Marked' /\ Deletions'
    <3>1. CASE SlaveExecute(c)
      BY Zenon, <3>1, <1>SlaveExecuteTurn, <1>SlaveExecuteLoss
    <3>2. CASE SlaveReplyCommand(c)
      BY Zenon, <3>2, <1>SlaveReplyCommandTurn, <1>SlaveReplyCommandLoss
    <3>3. CASE SlaveWrite(c)
      BY Zenon, <3>3, <1>SlaveWriteTurn, <1>SlaveWriteLoss
    <3>4. ASSUME SlaveExecuteFails(c) PROVE FALSE
      BY Zenon, <3>4 DEF SlaveExecuteFails
    <3>5. ASSUME SlaveDestruct(c) PROVE FALSE
      BY Zenon, <3>5, <1>ConnNumber DEF SlaveDestruct, CanRead, Protocol
    <3> QED
      BY Zenon, <2>4, <3>1, <3>2, <3>3, <3>4, <3>5 DEF SlaveEvent
  <2> QED
    BY Zenon, <2>1, <2>2, <2>3, <2>4 DEF SlaveTick

(* Every step keeps the invariant as long as nothing has gone wrong.       *)
<1>NextLoss.
    ASSUME Inv, Inv', LossInv, [Next]_vars
    PROVE  LossInv'
  <2> USE <1>NextLoss
  <2> SUFFICES ASSUME faults' = {}
               PROVE  Protocol' /\ Covered' /\ Marked' /\ Deletions'
    BY Zenon DEF LossInv
  <2>1. faults \subseteq faults'
    <3>1. CASE Client
      BY Zenon, <3>1 DEF Client, Set, Setex, Mset, ClientWrite, DelLookup, DelExecute,
         PushKey, Expire
    <3>2. CASE MasterThread
      BY Zenon, <3>2 DEF MasterThread, MasterHandle, StartReply, StartData, FrontNums,
         StartItem,
         MasterFinish
    <3>3. CASE SlaveTick
      BY Zenon, <3>3 DEF SlaveTick, SlaveLink, SlaveLinkFails, SlaveAsk, SlaveTimeout
    <3>4. ASSUME NEW c \in Conns, MasterWorker(c) PROVE faults \subseteq faults'
      BY Zenon, <3>4 DEF MasterWorker, RepParser, RepComplete, RepCreate, RepPublish,
         MasterDestruct
    <3>5. ASSUME NEW c \in Conns, SlaveEvent(c) PROVE faults \subseteq faults'
      BY Zenon, <3>5 DEF SlaveEvent, SlaveExecute, SlaveExecuteFails, SlaveReplyCommand,
         SlaveWrite,
         SlaveDestruct
    <3>6. ASSUME NEW c \in Conns, Break(c) PROVE faults \subseteq faults'
      BY Zenon, <3>6 DEF Break
    <3>7. CASE UNCHANGED vars
      BY Zenon, <3>7 DEF vars
    <3> QED
      BY Zenon, <3>1, <3>2, <3>3, <3>4, <3>5, <3>6, <3>7 DEF Next
  <2>2. faults = {}
    BY Zenon, <2>1
  <2>3. Protocol /\ Covered /\ Marked /\ Deletions /\ TypeOK'
    BY Zenon, <2>2 DEF LossInv, Inv
  <2>4. CASE Client
    BY Zenon, <2>3, <2>4, <1>ClientLoss
  <2>5. CASE MasterThread
    BY Zenon, <2>3, <2>5, <1>MasterLoss
  <2>6. ASSUME NEW c \in Conns, MasterWorker(c)
        PROVE  Protocol' /\ Covered' /\ Marked' /\ Deletions'
    BY Zenon, <2>3, <2>6, <1>MasterWorkerLoss
  <2>7. CASE SlaveTick \/ \E c \in Conns : SlaveEvent(c)
    BY Zenon, <2>3, <2>7, <1>SlaveLoss
  <2>8. ASSUME NEW c \in Conns, Break(c) PROVE FALSE
    BY Zenon, <2>8 DEF Break
  <2>9. CASE UNCHANGED vars
    <3>1. UNCHANGED <<conn, slave, fresh, status, registered, creating, conn_, mt, mval,
                      mexp, sval, que,
                      main_que, is_update_que, todo>>
      BY Zenon, <2>9 DEF vars
    <3>2. Carried' = Carried /\ (Made' <=> Made)
      BY Zenon, <3>1 DEF Carried, Made
    <3> QED
      BY Zenon, <2>3, <3>1, <3>2, <1>ClientTurn, <1>DataAside
  <2> QED
    BY Zenon, <2>4, <2>5, <2>6, <2>7, <2>8, <2>9 DEF Next

<1> QED
  BY Zenon, <1>NextLoss
-----------------------------------------------------------------------------
(* Pop leaves a queue of the same kind.                                    *)
LEMMA PopTypes ==
  ASSUME NEW q \in Seq(Items), IsSyncPrefix(q)
  PROVE  AfterPop(q) \in Seq(Items) /\ IsSyncPrefix(AfterPop(q))
<1> DEFINE S == {n \in 1 .. Len(q) : /\ n <= 2 * SyncNum
                                     /\ \A i \in 1 .. n : q[i].is_sync}
<1>1. IsFiniteSet(1 .. Len(q)) /\ S \subseteq 1 .. Len(q)
  BY FS_Interval
<1>2. IsFiniteSet(S)
  BY Zenon, <1>1, FS_Subset
<1>3. PopCount(q) \in Nat
  BY Zenon, <1>2, FS_CardinalityType DEF PopCount
<1> DEFINE p == PopCount(q)
           r == SubSeq(q, p + 1, Len(q))
<1> HIDE DEF S, p
<1>4. p \in Nat
  BY Zenon, <1>3 DEF p
<1>5. r \in Seq(Items)
  BY <1>4
<1>6. \A i \in 1 .. Len(r) : i + p \in 1 .. Len(q) /\ r[i] = q[i + p]
  BY <1>4
<1>7. \A i, j \in 1 .. Len(r) : i < j => i + p < j + p
  BY <1>4, <1>5
<1>8. IsSyncPrefix(r)
  <2> HIDE DEF r
  <2> QED
    BY Zenon, <1>6, <1>7 DEF IsSyncPrefix
<1>9. QED
  BY Zenon, <1>5, <1>8 DEF AfterPop, p

(* A new item at the end is not marked.                                    *)
LEMMA AppendTypes ==
  ASSUME NEW q \in Seq(Items), IsSyncPrefix(q), NEW k \in Keys,
         NEW t \in {"ADD", "DEL"}
  PROVE  /\ Append(q, NewItem(k, t)) \in Seq(Items)
         /\ IsSyncPrefix(Append(q, NewItem(k, t)))
<1>1. NewItem(k, t) \in Items /\ NewItem(k, t).is_sync = FALSE
  BY Zenon DEF NewItem, Items
<1>2. QED
  BY <1>1 DEF IsSyncPrefix
-----------------------------------------------------------------------------
(* Steps that leave the queues, the batch and the registration alone.      *)
LEMMA QueuesUntouched ==
  ASSUME SyncPrefix, BatchStays, Unpublished,
         UNCHANGED <<queVars, registered, conn_, mt>>
  PROVE  SyncPrefix' /\ BatchStays' /\ Unpublished'
BY Zenon DEF SyncPrefix, IsSyncPrefix, BatchStays, Unpublished, queVars

LEMMA ClientWriteStep ==
  ASSUME Inv, NEW w \in Workers, NEW K \in SUBSET Keys,
         NEW e \in {"none", "live", "dead"}, ClientWrite(w, K, e)
  PROVE  Inv'
<1>1. ver' \in Versions
  BY BoundAssumption DEF Inv, TypeOK, ClientWrite, Versions
<1>2. mval' \in [Keys -> Versions] /\ mexp' \in [Keys -> {"none", "live", "dead"}]
  BY Zenon, <1>1 DEF Inv, TypeOK, ClientWrite
<1>3. todo' \in [Workers -> Todos]
  BY Zenon DEF Inv, TypeOK, ClientWrite, ToPush, Todos
<1>4. faults' \subseteq Faults
  BY Zenon DEF Inv, TypeOK, ClientWrite, Faults
<1>5. TypeOK'
  BY Zenon, <1>1, <1>2, <1>3, <1>4
     DEF Inv, TypeOK, ClientWrite, regVars, queVars, slaveVars
<1>6. QED
  BY Zenon, <1>5, QueuesUntouched DEF Inv, ClientWrite, regVars

LEMMA DelLookupStep ==
  ASSUME Inv, NEW w \in Workers, DelLookup(w)
  PROVE  Inv'
<1>1. todo' \in [Workers -> Todos]
  BY DEF Inv, TypeOK, DelLookup, Todos
<1>2. TypeOK'
  BY Zenon, <1>1 DEF Inv, TypeOK, DelLookup, dbVars, regVars, queVars, slaveVars
<1>3. QED
  BY Zenon, <1>2, QueuesUntouched DEF Inv, DelLookup, regVars

LEMMA DelExecuteStep ==
  ASSUME Inv, NEW w \in Workers, DelExecute(w)
  PROVE  Inv'
<1>1. todo' \in [Workers -> Todos]
  BY Zenon DEF Inv, TypeOK, DelExecute, ToPush, Todos
<1>2. mval' \in [Keys -> Versions] /\ mexp' \in [Keys -> {"none", "live", "dead"}]
  BY BoundAssumption DEF Inv, TypeOK, DelExecute, Versions
<1>3. TypeOK'
  BY Zenon, <1>1, <1>2 DEF Inv, TypeOK, DelExecute, regVars, queVars, slaveVars
<1>4. QED
  BY Zenon, <1>3, QueuesUntouched DEF Inv, DelExecute, regVars

LEMMA ExpireStep ==
  ASSUME Inv, Expire
  PROVE  Inv'
<1>1. mexp' \in [Keys -> {"none", "live", "dead"}]
  BY Zenon DEF Inv, TypeOK, Expire
<1>2. TypeOK'
  BY Zenon, <1>1 DEF Inv, TypeOK, Expire, regVars, queVars, slaveVars
<1>3. QED
  BY Zenon, <1>2, QueuesUntouched DEF Inv, Expire, regVars

(* Push appends behind the batch.                                          *)
LEMMA PushKeyStep ==
  ASSUME Inv, NEW w \in Workers, PushKey(w)
  PROVE  Inv'
<1>1. PICK k \in todo[w].keys :
        /\ todo' = [todo EXCEPT
                      ![w] = IF todo[w].keys = {k} THEN NoTodo
                             ELSE ToPush(todo[w].keys \ {k}, todo[w].type)]
        /\ main_que' = IF registered
                         THEN Append(main_que, NewItem(k, todo[w].type))
                         ELSE main_que
  BY Zenon DEF PushKey
<1>2. todo[w] \in Todos /\ k \in Keys /\ todo[w].type \in {"ADD", "DEL"}
  BY Zenon DEF Inv, TypeOK, Todos
<1>3. todo' \in [Workers -> Todos]
  BY Zenon, <1>1, <1>2 DEF Inv, TypeOK, ToPush, NoTodo, Todos
<1>4. main_que' \in Seq(Items) /\ IsSyncPrefix(main_que')
  BY Zenon, <1>1, <1>2, AppendTypes DEF Inv, TypeOK, SyncPrefix
<1>5. master_msg_' \in Nat /\ faults' \subseteq Faults
  BY DEF Inv, TypeOK, PushKey, Faults
<1>6. TypeOK'
  BY Zenon, <1>3, <1>4, <1>5
     DEF Inv, TypeOK, PushKey, dbVars, regVars, slaveVars
<1>7. SyncPrefix'
  BY Zenon, <1>4 DEF Inv, SyncPrefix, IsSyncPrefix, PushKey
<1>8. /\ Len(main_que') >= Len(main_que)
      /\ \A j \in 1 .. Len(main_que) : main_que'[j] = main_que[j]
  <2>1. NewItem(k, todo[w].type) \in Items /\ main_que \in Seq(Items)
    BY Zenon, <1>2 DEF Inv, TypeOK, NewItem, Items
  <2>2. QED
    BY <1>1, <2>1
<1>9. BatchStays'
  BY <1>8 DEF Inv, TypeOK, BatchStays, PushKey, MasterThreads
<1>10. Unpublished'
  BY Zenon DEF Inv, Unpublished, PushKey, regVars
<1>11. QED
  BY Zenon, <1>6, <1>7, <1>9, <1>10 DEF Inv
-----------------------------------------------------------------------------
(* The master thread.                                                      *)
LEMMA MasterHandleStep ==
  ASSUME Inv, MasterHandle
  PROVE  Inv'
<1>1. mt' \in MasterThreads /\ mt'.pc # "item"
  BY Zenon DEF Inv, TypeOK, MasterHandle, MasterThreads
<1>2. TypeOK'
  BY <1>1 DEF Inv, TypeOK, MasterHandle, dbVars, regVars, queVars, slaveVars
<1>3. SyncPrefix'
  BY Zenon DEF Inv, SyncPrefix, IsSyncPrefix, MasterHandle, queVars
<1>4. BatchStays'
  BY Zenon, <1>1 DEF BatchStays
<1>5. Unpublished'
  BY Zenon DEF Inv, Unpublished, MasterHandle, regVars
<1>6. QED
  BY Zenon, <1>2, <1>3, <1>4, <1>5 DEF Inv

LEMMA DestUpdate ==
  ASSUME NEW f \in [Conns -> ConnRecs], NEW c
  PROVE  [f EXCEPT ![c].dest = TRUE] \in [Conns -> ConnRecs]
<1>1. ASSUME c \in Conns
      PROVE  [f[c] EXCEPT !.dest = TRUE] \in ConnRecs
  BY Zenon, <1>1 DEF ConnRecs
<1>2. QED
  BY Zenon, <1>1, ConnUpdate

LEMMA StartReplyStep ==
  ASSUME Inv, StartReply
  PROVE  Inv'
<1>1. PICK op \in {"authok", "autherror", "close"} :
        conn' = [SendToSlave(mt.cur, Reply(op)) EXCEPT ![mt.cur].dest = TRUE]
  BY Zenon DEF StartReply
<1>2. Reply(op) \in Commands
  BY DEF Reply, Commands
<1>3. conn' \in [Conns -> ConnRecs]
  BY Zenon, <1>1, <1>2, SendTypes, DestUpdate DEF Inv
<1>4. mt' \in MasterThreads /\ mt'.pc = "sent" /\ mt.pc = "start"
  BY Zenon DEF Inv, TypeOK, StartReply, MasterThreads
<1>5. conn_' \in Conns \cup {NoConn}
  BY Zenon DEF Inv, TypeOK, StartReply, MasterThreads
<1>6. fresh' \in BOOLEAN /\ faults' \subseteq Faults
  BY Zenon DEF Inv, TypeOK, StartReply, Faults
<1>7. TypeOK'
  BY Zenon, <1>3, <1>4, <1>5, <1>6
     DEF Inv, TypeOK, StartReply, dbVars, regVars, queVars, slaveVars
<1>8. SyncPrefix'
  BY Zenon DEF Inv, SyncPrefix, IsSyncPrefix, StartReply, queVars
<1>9. BatchStays' /\ Unpublished'
  BY Zenon, <1>4 DEF Inv, BatchStays, Unpublished, StartReply, regVars
<1>10. QED
  BY Zenon, <1>7, <1>8, <1>9 DEF Inv

LEMMA StartDataStep ==
  ASSUME Inv, StartData
  PROVE  Inv'
<1>1. conn' \in [Conns -> ConnRecs]
  BY Zenon, DestUpdate DEF Inv, TypeOK, StartData
<1>2. mt' \in MasterThreads /\ mt'.pc = "front" /\ mt.pc = "start"
  BY Zenon DEF Inv, TypeOK, StartData, MasterThreads
<1>3. conn_' \in Conns \cup {NoConn}
  BY Zenon DEF Inv, TypeOK, StartData, MasterThreads
<1>4. fresh' \in BOOLEAN /\ faults' \subseteq Faults
  BY Zenon DEF Inv, TypeOK, StartData, Faults
<1>5. /\ que' \in Seq(Items) /\ IsSyncPrefix(que')
      /\ main_que' \in Seq(Items) /\ IsSyncPrefix(main_que')
  BY Zenon, PopTypes DEF Inv, TypeOK, SyncPrefix, StartData
<1>6. TypeOK'
  BY Zenon, <1>1, <1>2, <1>3, <1>4, <1>5
     DEF Inv, TypeOK, StartData, dbVars, regVars, slaveVars
<1>7. SyncPrefix'
  BY Zenon, <1>5 DEF SyncPrefix, IsSyncPrefix
<1>8. BatchStays' /\ Unpublished'
  BY Zenon, <1>2 DEF Inv, BatchStays, Unpublished, StartData, regVars
<1>9. QED
  BY Zenon, <1>6, <1>7, <1>8 DEF Inv

(* front_nums_element takes no more items than the queue has.              *)
LEMMA FrontNumsStep ==
  ASSUME Inv, FrontNums
  PROVE  Inv'
<1> DEFINE fromQue == is_update_que /\ que # <<>>
           q == IF fromQue THEN que ELSE main_que
<1>1. q \in Seq(Items) /\ mt \in MasterThreads
  BY Zenon DEF Inv, TypeOK
<1>2. BatchSize(q) \in Nat /\ BatchSize(q) <= Len(q)
      /\ (q # <<>> => 1 <= BatchSize(q))
  BY <1>1, SyncNumAssumption DEF BatchSize
<1>3. is_update_que' = fromQue /\ is_update_que' \in BOOLEAN
  BY Zenon DEF Inv, TypeOK, FrontNums
<1>4. status' \in {0, 1}
  BY Zenon DEF Inv, TypeOK, FrontNums
<1>5. \/ mt' = [mt EXCEPT !.pc = "sent"]
      \/ q # <<>> /\ mt' = [mt EXCEPT !.pc = "item", !.i = 1, !.out = <<>>,
                                     !.n = BatchSize(q)]
  BY Zenon DEF FrontNums
<1>6. mt' \in MasterThreads
  <2> HIDE DEF q
  <2>1. CASE mt' = [mt EXCEPT !.pc = "sent"]
    BY Zenon, <1>1, <2>1 DEF MasterThreads
  <2>2. CASE mt' = [mt EXCEPT !.pc = "item", !.i = 1, !.out = <<>>,
                              !.n = BatchSize(q)]
    <3>1. <<>> \in Seq(Pairs)
      OBVIOUS
    <3>2. QED
      BY Zenon, <1>1, <1>2, <2>2, <3>1 DEF MasterThreads
  <2>3. QED
    BY Zenon, <1>5, <2>1, <2>2
<1>7. TypeOK'
  BY Zenon, <1>3, <1>4, <1>6
     DEF Inv, TypeOK, FrontNums, dbVars, regVars, slaveVars
<1>8. SyncPrefix'
  BY Zenon DEF Inv, SyncPrefix, IsSyncPrefix, FrontNums
<1>9. BatchStays'
  <2>1. mt'.pc = "item" => /\ q # <<>> /\ mt'.i = 1 /\ mt'.out = <<>>
                           /\ mt'.n = BatchSize(q)
    BY Zenon, <1>1, <1>5 DEF MasterThreads
  <2>2. (IF is_update_que' THEN que' ELSE main_que') = q
    BY Zenon, <1>3 DEF FrontNums
  <2> HIDE DEF q
  <2>3. QED
    BY <1>2, <2>1, <2>2 DEF BatchStays
<1>10. Unpublished'
  BY Zenon DEF Inv, Unpublished, FrontNums, regVars
<1>11. QED
  BY Zenon, <1>7, <1>8, <1>9, <1>10 DEF Inv

(* The item Start looks at is the one after the marked ones of its batch.  *)
LEMMA MarkedQueue ==
  ASSUME NEW q \in Seq(Items), IsSyncPrefix(q), NEW i \in 1 .. Len(q),
         \A j \in 1 .. i - 1 : q[j].is_sync
  PROVE  LET r == [q EXCEPT ![i].is_sync = TRUE]
         IN  /\ r \in Seq(Items)
             /\ IsSyncPrefix(r)
             /\ Len(r) = Len(q)
             /\ \A j \in 1 .. i : r[j].is_sync
             /\ \A j \in 1 .. Len(q) : r[j].key = q[j].key
<1> DEFINE r == [q EXCEPT ![i].is_sync = TRUE]
<1>1. q[i] \in Items
  OBVIOUS
<1>2. /\ [q[i] EXCEPT !.is_sync = TRUE] \in Items
      /\ [q[i] EXCEPT !.is_sync = TRUE].is_sync = TRUE
      /\ [q[i] EXCEPT !.is_sync = TRUE].key = q[i].key
  BY Zenon, <1>1 DEF Items
<1>3. r \in Seq(Items) /\ Len(r) = Len(q)
  BY <1>2
<1>4. \A j \in 1 .. Len(q) :
        r[j] = IF j = i THEN [q[i] EXCEPT !.is_sync = TRUE] ELSE q[j]
  OBVIOUS
<1>5. \A j \in 1 .. i : r[j].is_sync
  BY <1>2, <1>4
<1>6. IsSyncPrefix(r)
  BY <1>2, <1>3, <1>4 DEF IsSyncPrefix
<1>7. QED
  BY Zenon, <1>2, <1>3, <1>4, <1>5, <1>6

LEMMA StartItemStep ==
  ASSUME Inv, StartItem
  PROVE  Inv'
<1> DEFINE q == IF is_update_que THEN que ELSE main_que
           it == CurrentItem
           k == it.key
           pair == [key |-> k, val |-> mval[k]]
           pairs == Append(mt.out, pair)
<1>1. mt.pc = "item" /\ mt \in MasterThreads
  BY Zenon DEF Inv, TypeOK, StartItem
<1>2. /\ mt.i \in 1 .. mt.n /\ mt.n <= Len(q) /\ Len(mt.out) = mt.i - 1
      /\ \A j \in 1 .. mt.i - 1 : q[j].is_sync /\ q[j].key = mt.out[j].key
  BY Zenon, <1>1 DEF Inv, BatchStays
<1>3. q \in Seq(Items) /\ IsSyncPrefix(q)
  BY Zenon DEF Inv, TypeOK, SyncPrefix
<1>4. /\ mt.i \in Nat /\ mt.n \in Nat /\ mt.out \in Seq(Pairs)
      /\ mt.i \in 1 .. Len(q)
  BY <1>1, <1>2, <1>3 DEF MasterThreads
<1>5. it = q[mt.i] /\ it \in Items
  BY <1>3, <1>4 DEF CurrentItem
<1>6. k \in Keys /\ pair \in Pairs /\ pairs \in Seq(Pairs)
  BY <1>4, <1>5 DEF Inv, TypeOK, Items, Pairs
<1>7. Put(pairs) \in Commands /\ Put(mt.out) \in Commands
  BY Zenon, <1>4, <1>6 DEF Put, Commands
<1>8. DelCommand(k) \in Commands
  <2>1. [key |-> k, val |-> 0] \in Pairs
    BY <1>6, BoundAssumption DEF Pairs, Versions
  <2>2. QED
    BY <2>1 DEF DelCommand, Commands
<1> DEFINE r == [q EXCEPT ![mt.i].is_sync = TRUE]
           q1 == IF is_update_que THEN que' ELSE main_que'
           unmarked == q1 = q
<1>9. /\ r \in Seq(Items) /\ IsSyncPrefix(r) /\ Len(r) = Len(q)
      /\ \A j \in 1 .. mt.i : r[j].is_sync
      /\ \A j \in 1 .. Len(q) : r[j].key = q[j].key
  <2> HIDE DEF q
  <2> QED
    BY Zenon, <1>2, <1>3, <1>4, MarkedQueue
<1>10. \/ MarkSync
       \/ UNCHANGED <<que, main_que>>
  BY Zenon DEF StartItem
<1>11. ASSUME MarkSync PROVE q1 = r
  BY Zenon, <1>11 DEF MarkSync
<1>12. /\ que' \in Seq(Items) /\ IsSyncPrefix(que')
       /\ main_que' \in Seq(Items) /\ IsSyncPrefix(main_que')
  <2>1. CASE MarkSync
    BY Zenon, <1>9, <2>1 DEF MarkSync, Inv, TypeOK, SyncPrefix
  <2>2. CASE UNCHANGED <<que, main_que>>
    BY Zenon, <2>2 DEF Inv, TypeOK, SyncPrefix
  <2>3. QED
    BY Zenon, <1>10, <2>1, <2>2
<1>13. UNCHANGED is_update_que
  BY Zenon DEF StartItem
(* either the command is sent, or the next item is looked at *)
<1>14. \/ \E m \in Commands : SendCommand(m)
       \/ /\ mt.i < mt.n /\ MarkSync /\ UNCHANGED conn
          /\ mt' = [mt EXCEPT !.i = @ + 1, !.out = pairs]
  BY Zenon, <1>7, <1>8 DEF StartItem
<1>15. mt' \in MasterThreads /\ conn' \in [Conns -> ConnRecs]
       /\ (mt'.pc = "item" => /\ mt.i < mt.n /\ MarkSync
                              /\ mt'.i = mt.i + 1 /\ mt'.n = mt.n
                              /\ mt'.out = pairs)
  <2>1. ASSUME NEW m \in Commands, SendCommand(m)
        PROVE  /\ mt' \in MasterThreads /\ mt'.pc = "sent"
               /\ conn' \in [Conns -> ConnRecs]
    BY Zenon, <1>1, <2>1, SendTypes DEF SendCommand, MasterThreads, Inv
  <2>2. CASE /\ mt.i < mt.n /\ MarkSync /\ UNCHANGED conn
             /\ mt' = [mt EXCEPT !.i = @ + 1, !.out = pairs]
    <3>1. pairs \in Seq(Pairs) /\ conn' \in [Conns -> ConnRecs]
      BY Zenon, <1>6, <2>2 DEF Inv, TypeOK
    <3> HIDE DEF pairs, q
    <3> DEFINE x == mt.i + 1
    <3>2. x \in Nat /\ mt' = [mt EXCEPT !.i = x, !.out = pairs]
      BY <1>4, <2>2
    <3>3. mt' \in MasterThreads /\ mt'.i = x /\ mt'.n = mt.n /\ mt'.out = pairs
      <4> HIDE DEF x
      <4> QED
        BY Zenon, <1>1, <3>1, <3>2 DEF MasterThreads
    <3>4. QED
      BY Zenon, <2>2, <3>1, <3>3
  <2>3. QED
    BY Zenon, <1>14, <2>1, <2>2
<1>16. TypeOK'
  BY Zenon, <1>12, <1>13, <1>15
     DEF Inv, TypeOK, StartItem, dbVars, regVars, slaveVars
<1>17. SyncPrefix'
  BY Zenon, <1>12 DEF SyncPrefix, IsSyncPrefix
<1>18. BatchStays'
  <2>1. SUFFICES ASSUME mt'.pc = "item"
                 PROVE  /\ mt'.i \in 1 .. mt'.n
                        /\ mt'.n <= Len(q1)
                        /\ Len(mt'.out) = mt'.i - 1
                        /\ \A j \in 1 .. mt'.i - 1 :
                             q1[j].is_sync /\ q1[j].key = mt'.out[j].key
    BY Zenon, <1>13 DEF BatchStays
  <2>2. mt.i < mt.n /\ q1 = r /\ mt'.i = mt.i + 1 /\ mt'.n = mt.n
        /\ mt'.out = pairs
    BY Zenon, <1>11, <1>15, <2>1
  <2>3. Len(pairs) = mt.i /\ pairs[mt.i] = pair
        /\ \A j \in 1 .. mt.i - 1 : pairs[j] = mt.out[j]
    BY <1>2, <1>4, <1>6
  <2>4. pair.key = q[mt.i].key
    BY Zenon, <1>5
  <2> HIDE DEF q, r, q1, pairs, pair
  <2>5. \A j \in 1 .. mt.i : r[j].is_sync /\ r[j].key = pairs[j].key
    <3>1. TAKE j \in 1 .. mt.i
    <3>2. r[j].is_sync /\ r[j].key = q[j].key
      BY <1>4, <1>9
    <3>3. q[j].key = pairs[j].key
      <4>1. CASE j = mt.i
        BY Zenon, <2>3, <2>4, <4>1
      <4>2. CASE j # mt.i
        <5>1. j \in 1 .. mt.i - 1
          BY <1>4, <4>2
        <5>2. QED
          BY Zenon, <1>2, <2>3, <5>1
      <4>3. QED
        BY Zenon, <4>1, <4>2
    <3>4. QED
      BY Zenon, <3>2, <3>3
  <2>6. QED
    BY <1>2, <1>4, <1>9, <2>2, <2>3, <2>5
<1>19. Unpublished'
  BY Zenon, <1>1 DEF Inv, Unpublished, StartItem, regVars
<1>20. QED
  BY Zenon, <1>16, <1>17, <1>18, <1>19 DEF Inv

LEMMA MasterFinishStep ==
  ASSUME Inv, MasterFinish
  PROVE  Inv'
<1>1. ASSUME mt.cur \in Conns
      PROVE  [conn[mt.cur] EXCEPT !.curstatus = "READ"] \in ConnRecs
  BY Zenon, <1>1, ConnQueues DEF ConnRecs, Inv
<1>2. conn' \in [Conns -> ConnRecs]
  BY Zenon, <1>1, ConnUpdate DEF Inv, TypeOK, MasterFinish
<1>3. mt' \in MasterThreads /\ mt'.pc = "idle"
  BY DEF MasterFinish, IdleThread, MasterThreads
<1>4. TypeOK'
  BY Zenon, <1>2, <1>3
     DEF Inv, TypeOK, MasterFinish, dbVars, regVars, queVars, slaveVars
<1>5. SyncPrefix' /\ BatchStays' /\ Unpublished'
  BY Zenon, <1>3 DEF Inv, SyncPrefix, IsSyncPrefix, BatchStays, Unpublished,
              MasterFinish, queVars, regVars
<1>6. QED
  BY Zenon, <1>4, <1>5 DEF Inv
-----------------------------------------------------------------------------
(* The worker that serves the slave, and the network.                      *)
LEMMA ReplyTypes ==
  ASSUME NEW op \in {"authok", "autherror", "close", "err"}
  PROVE  Reply(op) \in Commands
BY DEF Reply, Commands

LEMMA RepParserStep ==
  ASSUME Inv, NEW c \in Conns, RepParser(c)
  PROVE  Inv'
<1> DEFINE m == Head(conn[c].toM)
           answer(op) == IF conn[c].up THEN Append(conn[c].toS, Reply(op))
                                       ELSE conn[c].toS
<1>1. PICK n \in 1 .. Len(conn[c].toM) :
        LET read == [conn EXCEPT ![c].toM = Dropping(n, @)]
        IN  \/ conn' = [read EXCEPT ![c].toS = answer("err")]
            \/ conn' = [read EXCEPT ![c].toS = answer("autherror"),
                                    ![c].repmsg = "autherror"]
            \/ conn' = [read EXCEPT ![c].repmsg = m, ![c].master_auth = TRUE,
                                    ![c].curstatus = "DATA"]
  BY Zenon DEF RepParser
<1>2. /\ conn \in [Conns -> ConnRecs] /\ conn[c] \in ConnRecs
      /\ conn[c].toM \in Seq(RepMsgs) /\ conn[c].toS \in Seq(Commands)
  BY Zenon, ConnQueues DEF Inv, TypeOK
<1> DEFINE rest == Dropping(n, conn[c].toM)
<1>3. m \in RepMsgs /\ rest \in Seq(RepMsgs)
  BY <1>2 DEF Dropping
<1>4. answer("err") \in Seq(Commands) /\ answer("autherror") \in Seq(Commands)
  BY <1>2, ReplyTypes
<1> DEFINE a == answer("err")
           b == answer("autherror")
           r == [conn[c] EXCEPT !.toM = rest]
<1>5. r \in ConnRecs
  BY Zenon, <1>2, <1>3, ToMUpdate
<1>6. \/ conn' = [conn EXCEPT ![c] = [r EXCEPT !.toS = a]]
      \/ conn' = [conn EXCEPT ![c] = [r EXCEPT !.toS = b,
                                               !.repmsg = "autherror"]]
      \/ conn' = [conn EXCEPT ![c] = [r EXCEPT !.repmsg = m,
                                               !.master_auth = TRUE,
                                               !.curstatus = "DATA"]]
  <2> HIDE DEF m, answer
  <2> QED
    BY Zenon, <1>1, <1>2
<1>7. conn' \in [Conns -> ConnRecs]
  <2> HIDE DEF m, answer, a, b, r
  <2>1. a \in Seq(Commands) /\ b \in Seq(Commands)
    BY Zenon, <1>4 DEF a, b
  <2>2. /\ [r EXCEPT !.toS = a] \in ConnRecs
        /\ [r EXCEPT !.toS = b, !.repmsg = "autherror"] \in ConnRecs
    BY Zenon, <1>5, <2>1 DEF ConnRecs
  <2>3. [r EXCEPT !.repmsg = m, !.master_auth = TRUE, !.curstatus = "DATA"]
          \in ConnRecs
    BY Zenon, <1>3, <1>5 DEF ConnRecs
  <2>4. QED
    BY Zenon, <1>2, <1>6, <2>2, <2>3
<1>8. fresh' \in BOOLEAN
  BY Zenon DEF RepParser
<1>9. TypeOK'
  BY Zenon, <1>7, <1>8
     DEF Inv, TypeOK, RepParser, dbVars, regVars, queVars, slaveVars
<1>10. QED
  BY Zenon, <1>9, QueuesUntouched DEF Inv, RepParser, regVars

LEMMA RepCompleteStep ==
  ASSUME Inv, NEW c \in Conns, RepComplete(c)
  PROVE  Inv'
<1>1. conn[c] \in ConnRecs
  BY Zenon, ConnQueues DEF Inv
<1>2. [conn[c] EXCEPT !.dest = TRUE, !.curstatus = "READ"] \in ConnRecs
  BY Zenon, <1>1 DEF ConnRecs
<1>3. conn' = [conn EXCEPT ![c] =
                 [conn[c] EXCEPT !.dest = TRUE, !.curstatus = "READ"]]
  BY Zenon DEF RepComplete, Inv, TypeOK
<1>4. conn' \in [Conns -> ConnRecs]
  BY Zenon, <1>2, <1>3 DEF Inv, TypeOK
<1>5. TypeOK'
  BY <1>4 DEF Inv, TypeOK, RepComplete, dbVars, regVars, queVars, slaveVars
<1>6. SyncPrefix' /\ BatchStays' /\ Unpublished'
  BY Zenon DEF Inv, SyncPrefix, IsSyncPrefix, BatchStays, Unpublished, RepComplete,
         queVars, regVars
<1>7. QED
  BY Zenon, <1>5, <1>6 DEF Inv

(* The constructor replaces the queue while nobody works on it.            *)
LEMMA RepCreateStep ==
  ASSUME Inv, NEW c \in Conns, RepCreate(c)
  PROVE  Inv'
<1>1. PresentKeys \in SUBSET Keys
  BY Zenon DEF PresentKeys
<1>2. que' \in Seq(Items) /\ IsSyncPrefix(que')
  BY Zenon, <1>1, SnapshotTypes DEF RepCreate
<1>3. TypeOK'
  BY Zenon, <1>2 DEF Inv, TypeOK, RepCreate, dbVars, slaveVars
<1>4. SyncPrefix'
  BY Zenon, <1>2 DEF Inv, SyncPrefix, IsSyncPrefix, RepCreate
<1>5. BatchStays' /\ Unpublished'
  BY Zenon DEF Inv, BatchStays, Unpublished, RepCreate
<1>6. QED
  BY Zenon, <1>3, <1>4, <1>5 DEF Inv

LEMMA RepPublishStep ==
  ASSUME Inv, NEW c \in Conns, RepPublish(c)
  PROVE  Inv'
<1>1. TypeOK'
  BY Zenon DEF Inv, TypeOK, RepPublish, dbVars, queVars, slaveVars
<1>2. SyncPrefix' /\ BatchStays' /\ Unpublished'
  BY Zenon DEF Inv, SyncPrefix, IsSyncPrefix, BatchStays, Unpublished, RepPublish,
         queVars
<1>3. QED
  BY Zenon, <1>1, <1>2 DEF Inv

LEMMA MasterDestructStep ==
  ASSUME Inv, NEW c \in Conns, MasterDestruct(c)
  PROVE  Inv'
<1>1. conn[c] \in ConnRecs
  BY Zenon, ConnQueues DEF Inv
<1>2. [conn[c] EXCEPT !.open = FALSE, !.dest = FALSE] \in ConnRecs
  BY Zenon, <1>1 DEF ConnRecs
<1>3. conn' = [conn EXCEPT ![c] =
                 [conn[c] EXCEPT !.open = FALSE, !.dest = FALSE]]
  BY Zenon DEF MasterDestruct, Inv, TypeOK
<1>4. conn' \in [Conns -> ConnRecs]
  BY Zenon, <1>2, <1>3 DEF Inv, TypeOK
<1>5. TypeOK'
  BY Zenon, <1>4 DEF Inv, TypeOK, MasterDestruct, dbVars, regVars, queVars, slaveVars
<1>6. SyncPrefix' /\ BatchStays' /\ Unpublished'
  BY Zenon DEF Inv, SyncPrefix, IsSyncPrefix, BatchStays, Unpublished,
         MasterDestruct, queVars, regVars
<1>7. QED
  BY Zenon, <1>5, <1>6 DEF Inv

LEMMA BreakStep ==
  ASSUME Inv, NEW c \in Conns, Break(c)
  PROVE  Inv'
<1>1. PICK i \in 0 .. Len(conn[c].toM), j \in 0 .. Len(conn[c].toS) :
        conn' = [conn EXCEPT ![c].up = FALSE, ![c].toM = SubSeq(@, 1, i),
                             ![c].toS = SubSeq(@, 1, j)]
  BY Zenon DEF Break
<1>2. /\ conn \in [Conns -> ConnRecs] /\ conn[c] \in ConnRecs
      /\ conn[c].toM \in Seq(RepMsgs) /\ conn[c].toS \in Seq(Commands)
  BY Zenon, ConnQueues DEF Inv, TypeOK
<1> DEFINE p == SubSeq(conn[c].toM, 1, i)
           q == SubSeq(conn[c].toS, 1, j)
<1>3. p \in Seq(RepMsgs) /\ q \in Seq(Commands)
  BY <1>2
<1>4. conn' = [conn EXCEPT ![c] = [conn[c] EXCEPT !.up = FALSE, !.toM = p,
                                                  !.toS = q]]
  BY Zenon, <1>1, <1>2 DEF ConnRecs
<1>5. [conn[c] EXCEPT !.up = FALSE, !.toM = p, !.toS = q] \in ConnRecs
  <2> HIDE DEF p, q
  <2> QED
    BY Zenon, <1>2, <1>3 DEF ConnRecs
<1>6. conn' \in [Conns -> ConnRecs]
  BY Zenon, <1>2, <1>4, <1>5
<1>7. TypeOK'
  BY Zenon, <1>6 DEF Inv, TypeOK, Break, Faults, dbVars, regVars, queVars, slaveVars
<1>8. QED
  BY Zenon, <1>7, QueuesUntouched DEF Inv, Break, regVars
-----------------------------------------------------------------------------
(* The slave.                                                              *)
LEMMA SlaveLinkStep ==
  ASSUME Inv, SlaveLink \/ SlaveLinkFails
  PROVE  Inv'
<1> DEFINE c == slave.links + 1
<1>1. slave \in SlaveRecs /\ slave.links \in 0 .. MaxConn /\ c \in Conns
  <2>1. slave \in SlaveRecs /\ slave.links \in 0 .. MaxConn
    BY Zenon DEF Inv, TypeOK, SlaveRecs
  <2>2. slave.links < MaxConn \/ slave.links + 1 < MaxConn
    BY Zenon DEF SlaveLink, SlaveLinkFails
  <2>3. MaxConn \in Nat
    BY Zenon, BoundAssumption
  <2>4. QED
    BY <2>1, <2>2, <2>3 DEF Conns
<1>2. NeverConnected \in ConnRecs
  <2>1. <<>> \in Seq(RepMsgs) /\ <<>> \in Seq(Commands)
    OBVIOUS
  <2>2. QED
    BY Zenon, <2>1 DEF NeverConnected, ConnRecs
<1>3. [NeverConnected EXCEPT !.open = TRUE] \in ConnRecs
  BY Zenon, <1>2 DEF ConnRecs
<1>4. <<"auth">> \in Seq(RepMsgs) /\ <<>> \in Seq(RepMsgs)
  BY DEF RepMsgs
<1>5. conn' \in [Conns -> ConnRecs]
  <2>1. CASE SlaveLink
    <3>1. PICK auth \in BOOLEAN :
            conn' = [conn EXCEPT ![c] =
                      [NeverConnected EXCEPT
                         !.up = TRUE, !.open = TRUE, !.master_auth = auth,
                         !.toM = IF UseAuth THEN <<"auth">> ELSE <<>>]]
      BY Zenon, <2>1 DEF SlaveLink
    <3> DEFINE q == IF UseAuth THEN <<"auth">> ELSE <<>>
               r == [NeverConnected EXCEPT !.up = TRUE, !.open = TRUE,
                                           !.master_auth = auth, !.toM = q]
    <3>2. q \in Seq(RepMsgs)
      BY Zenon, <1>4
    <3>3. r \in ConnRecs
      <4> HIDE DEF q
      <4> QED
        BY Zenon, <1>2, <3>2 DEF ConnRecs
    <3>4. conn' = [conn EXCEPT ![c] = r]
      BY Zenon, <3>1
    <3> HIDE DEF r, c
    <3>5. QED
      BY Zenon, <3>3, <3>4, ConnUpdate DEF Inv, TypeOK
  <2>2. CASE SlaveLinkFails
    <3>1. conn' = [conn EXCEPT ![c] = [NeverConnected EXCEPT !.open = TRUE]]
      BY Zenon, <2>2 DEF SlaveLinkFails
    <3> HIDE DEF c
    <3>2. QED
      BY Zenon, <1>3, <3>1, ConnUpdate DEF Inv, TypeOK
  <2>3. QED
    BY Zenon, <2>1, <2>2
<1>6. slave' \in SlaveRecs
  <2>1. PICK st \in {"INIT", "AUTH", "CONTINUE"}, b \in BOOLEAN :
          slave' = [slave EXCEPT !.status = st, !.conn = c, !.reg = b,
                                 !.reply = "", !.links = c]
    BY Zenon DEF SlaveLink, SlaveLinkFails
  <2>2. c \in Conns \cup {NoConn} /\ c \in 0 .. MaxConn
    BY <1>1 DEF Conns
  <2> HIDE DEF c
  <2>3. QED
    BY Zenon, <1>1, <2>1, <2>2 DEF SlaveRecs
<1>7. faults' \subseteq Faults
  BY Zenon DEF Inv, TypeOK, SlaveLink, SlaveLinkFails, Faults
<1>8. /\ UNCHANGED <<mval, mexp, ver, todo, registered, creating, que, main_que,
                     is_update_que, status, conn_, master_msg_, mt, sval, fresh>>
  BY Zenon DEF SlaveLink, SlaveLinkFails, dbVars, regVars, queVars
<1>9. TypeOK'
  BY Zenon, <1>5, <1>6, <1>7, <1>8 DEF Inv, TypeOK
<1>10. QED
  BY Zenon, <1>8, <1>9, QueuesUntouched DEF Inv, queVars

LEMMA SlaveAskStep ==
  ASSUME Inv, SlaveAsk
  PROVE  Inv'
<1>1. conn' \in [Conns -> ConnRecs]
  BY Zenon, AskTypes DEF Inv, SlaveAsk, RepMsgs
<1>2. slave' \in SlaveRecs
  BY Zenon DEF Inv, TypeOK, SlaveAsk, SlaveRecs
<1>3. TypeOK'
  BY Zenon, <1>1, <1>2 DEF Inv, TypeOK, SlaveAsk, dbVars, regVars, queVars
<1>4. QED
  BY Zenon, <1>3, QueuesUntouched DEF Inv, SlaveAsk, regVars

LEMMA SlaveTimeoutStep ==
  ASSUME Inv, SlaveTimeout
  PROVE  Inv'
<1>1. slave' \in SlaveRecs
  BY Zenon DEF Inv, TypeOK, SlaveTimeout, SlaveRecs
<1>2. TypeOK'
  BY Zenon, <1>1 DEF Inv, TypeOK, SlaveTimeout, Faults, dbVars, regVars, queVars
<1>3. QED
  BY Zenon, <1>2, QueuesUntouched DEF Inv, SlaveTimeout, regVars

(* Executing a command writes versions that the command carries.           *)
LEMMA AppliedTypes ==
  ASSUME TypeOK, NEW pairs \in Seq(Pairs)
  PROVE  Applied(pairs) \in [Keys -> Versions]
<1>1. SUFFICES ASSUME NEW k \in Keys
               PROVE  LastValue(pairs, k) \in Versions
  BY Zenon DEF Applied
<1> DEFINE last == {i \in 1 .. Len(pairs) :
                      /\ pairs[i].key = k
                      /\ \A j \in i + 1 .. Len(pairs) : pairs[j].key # k}
<1>2. CASE last = {}
  BY Zenon, <1>2 DEF LastValue, TypeOK
<1>3. CASE last # {}
  <2>1. (CHOOSE i \in last : TRUE) \in 1 .. Len(pairs)
    BY Zenon, <1>3
  <2>2. pairs[CHOOSE i \in last : TRUE] \in Pairs
    BY <2>1
  <2>3. QED
    BY Zenon, <1>3, <2>2 DEF LastValue, Pairs
<1>4. QED
  BY Zenon, <1>2, <1>3

LEMMA SlaveExecuteStep ==
  ASSUME Inv, NEW c \in Conns, SlaveExecute(c)
  PROVE  Inv'
<1>1. PICK n \in 1 .. Len(conn[c].toS) :
        LET m == Head(conn[c].toS)
            known == m.op = "put" \/ (m.op = "del" /\ n = 1)
        IN  /\ conn' = Reads(c, n)
            /\ sval' = IF known THEN Applied(m.pairs) ELSE sval
            /\ slave' = [slave EXCEPT !.reply = IF known THEN "ok" ELSE "err"]
  BY Zenon DEF SlaveExecute
<1>2. conn' \in [Conns -> ConnRecs]
  BY <1>1, ReadTypes DEF Inv
<1>3. Head(conn[c].toS) \in Commands
  BY ConnQueues DEF Inv
<1>4. Head(conn[c].toS).pairs \in Seq(Pairs)
  BY Zenon, <1>3 DEF Commands
<1>5. sval' \in [Keys -> Versions]
  BY Zenon, <1>1, <1>4, AppliedTypes DEF Inv, TypeOK
<1>6. slave' \in SlaveRecs
  BY Zenon, <1>1 DEF Inv, TypeOK, SlaveRecs, RepMsgs
<1>7. TypeOK'
  BY Zenon, <1>2, <1>5, <1>6 DEF Inv, TypeOK, SlaveExecute, dbVars, regVars, queVars
<1>8. QED
  BY Zenon, <1>7, QueuesUntouched DEF Inv, SlaveExecute, regVars

LEMMA SlaveExecuteFailsStep ==
  ASSUME Inv, NEW c \in Conns, SlaveExecuteFails(c)
  PROVE  Inv'
<1>1. conn' \in [Conns -> ConnRecs]
  BY ReadTypes DEF Inv, SlaveExecuteFails
<1>2. slave' \in SlaveRecs
  BY Zenon DEF Inv, TypeOK, SlaveExecuteFails, SlaveRecs, RepMsgs
<1>3. TypeOK'
  BY Zenon, <1>1, <1>2
     DEF Inv, TypeOK, SlaveExecuteFails, Faults, dbVars, regVars, queVars
<1>4. QED
  BY Zenon, <1>3, QueuesUntouched DEF Inv, SlaveExecuteFails, regVars

LEMMA SlaveReplyCommandStep ==
  ASSUME Inv, NEW c \in Conns, SlaveReplyCommand(c)
  PROVE  Inv'
<1>1. PICK n \in 1 .. Len(conn[c].toS) :
        /\ \/ conn' = [Reads(c, n) EXCEPT ![c].up = FALSE]
           \/ conn' = Reads(c, n)
        /\ \/ slave' = [slave EXCEPT !.conn = NoConn, !.reg = FALSE]
           \/ slave' = [slave EXCEPT !.status = "CONTINUE"]
           \/ slave' = slave
  BY Zenon DEF SlaveReplyCommand
<1>2. Reads(c, n) \in [Conns -> ConnRecs]
  BY ReadTypes DEF Inv
<1>3. [Reads(c, n)[c] EXCEPT !.up = FALSE] \in ConnRecs
  BY Zenon, <1>2 DEF ConnRecs
<1>4. conn' \in [Conns -> ConnRecs]
  BY Zenon, <1>1, <1>2, <1>3, ConnUpdate
<1>5. slave' \in SlaveRecs
  BY Zenon, <1>1 DEF Inv, TypeOK, SlaveRecs
<1>6. TypeOK'
  BY Zenon, <1>4, <1>5 DEF Inv, TypeOK, SlaveReplyCommand, dbVars, regVars, queVars
<1>7. QED
  BY Zenon, <1>6, QueuesUntouched DEF Inv, SlaveReplyCommand, regVars

LEMMA SlaveWriteStep ==
  ASSUME Inv, NEW c \in Conns, SlaveWrite(c)
  PROVE  Inv'
<1>1. slave.reply \in RepMsgs
  BY Zenon DEF Inv, TypeOK, SlaveRecs, SlaveWrite
<1>2. conn' \in [Conns -> ConnRecs]
  BY Zenon, <1>1, AskTypes DEF Inv, SlaveWrite
<1>3. slave' \in SlaveRecs
  BY Zenon DEF Inv, TypeOK, SlaveWrite, SlaveRecs
<1>4. TypeOK'
  BY Zenon, <1>2, <1>3 DEF Inv, TypeOK, SlaveWrite, dbVars, regVars, queVars
<1>5. QED
  BY Zenon, <1>4, QueuesUntouched DEF Inv, SlaveWrite, regVars

LEMMA SlaveDestructStep ==
  ASSUME Inv, NEW c \in Conns, SlaveDestruct(c)
  PROVE  Inv'
<1>1. slave' \in SlaveRecs
  BY Zenon DEF Inv, TypeOK, SlaveDestruct, SlaveRecs
<1>2. TypeOK'
  BY Zenon, <1>1 DEF Inv, TypeOK, SlaveDestruct, dbVars, regVars, queVars
<1>3. QED
  BY Zenon, <1>2, QueuesUntouched DEF Inv, SlaveDestruct, regVars
-----------------------------------------------------------------------------
LEMMA InitInv == Init => Inv
<1> SUFFICES ASSUME Init PROVE Inv
  BY Zenon
<1>1. 0 \in Versions /\ 1 \in Versions
  BY BoundAssumption DEF Versions
<1>2. mval \in [Keys -> Versions] /\ sval \in [Keys -> Versions]
  BY Zenon, <1>1 DEF Init
<1>3. que \in Seq(Items) /\ IsSyncPrefix(que)
  <2>1. <<>> \in Seq(Items) /\ IsSyncPrefix(<<>>)
    BY DEF IsSyncPrefix
  <2>2. QED
    BY Zenon, <2>1, KeysAssumption, SnapshotTypes DEF Init
<1>4. main_que \in Seq(Items) /\ IsSyncPrefix(main_que)
  <2>1. main_que = <<>>
    BY Zenon DEF Init
  <2>2. QED
    BY <2>1 DEF IsSyncPrefix
<1>5. todo \in [Workers -> Todos]
  BY Zenon DEF Init, NoTodo, Todos
<1>6. mt \in MasterThreads /\ mt.pc = "idle"
  <2>1. IdleThread \in MasterThreads /\ IdleThread.pc = "idle"
    BY DEF IdleThread, MasterThreads
  <2>2. QED
    BY Zenon, <2>1 DEF Init
<1>7. conn \in [Conns -> ConnRecs]
  <2>1. <<>> \in Seq(RepMsgs) /\ <<>> \in Seq(Commands)
    OBVIOUS
  <2>2. NeverConnected \in ConnRecs
    BY Zenon, <2>1 DEF NeverConnected, ConnRecs
  <2>3. QED
    BY Zenon, <2>2 DEF Init
<1>8. slave \in SlaveRecs
  <2>1. 0 \in 0 .. MaxConn
    BY BoundAssumption
  <2>2. QED
    BY Zenon, <2>1 DEF Init, SlaveRecs
<1>9. is_update_que \in BOOLEAN
  BY Zenon DEF Init
<1>10. TypeOK
  BY Zenon, <1>1, <1>2, <1>3, <1>4, <1>5, <1>6, <1>7, <1>8, <1>9 DEF TypeOK, Init
<1>11. SyncPrefix /\ BatchStays /\ Unpublished
  BY Zenon, <1>3, <1>4, <1>6 DEF SyncPrefix, BatchStays, Unpublished, Init
<1>12. QED
  BY Zenon, <1>10, <1>11 DEF Inv

LEMMA NextInv == Inv /\ [Next]_vars => Inv'
<1> SUFFICES ASSUME Inv, [Next]_vars PROVE Inv'
  BY Zenon
<1>1. CASE Client
  <2>1. ASSUME NEW w \in Workers, Set(w) PROVE Inv'
    BY Zenon, <2>1, ClientWriteStep DEF Set
  <2>2. ASSUME NEW w \in Workers, Setex(w) PROVE Inv'
    BY Zenon, <2>2, ClientWriteStep DEF Setex
  <2>3. ASSUME NEW w \in Workers, Mset(w) PROVE Inv'
    BY Zenon, <2>3, ClientWriteStep DEF Mset
  <2>4. QED
    BY Zenon, <1>1, <2>1, <2>2, <2>3, DelLookupStep, DelExecuteStep, PushKeyStep,
       ExpireStep DEF Client
<1>2. CASE MasterThread
  BY Zenon, <1>2, MasterHandleStep, StartReplyStep, StartDataStep, FrontNumsStep,
     StartItemStep, MasterFinishStep DEF MasterThread
<1>3. CASE SlaveTick
  BY Zenon, <1>3, SlaveLinkStep, SlaveAskStep, SlaveTimeoutStep DEF SlaveTick
<1>4. ASSUME NEW c \in Conns, MasterWorker(c) PROVE Inv'
  BY Zenon, <1>4, RepParserStep, RepCompleteStep, RepCreateStep, RepPublishStep,
     MasterDestructStep DEF MasterWorker
<1>5. ASSUME NEW c \in Conns, SlaveEvent(c) PROVE Inv'
  BY Zenon, <1>5, SlaveExecuteStep, SlaveExecuteFailsStep, SlaveReplyCommandStep,
     SlaveWriteStep, SlaveDestructStep DEF SlaveEvent
<1>6. CASE UNCHANGED vars
  <2>1. TypeOK'
    BY Zenon, <1>6 DEF vars, Inv, TypeOK
  <2>2. QED
    BY Zenon, <1>6, <2>1, QueuesUntouched DEF vars, Inv, queVars
<1>7. QED
  BY Zenon, <1>1, <1>2, <1>3, <1>4, <1>5, <1>6, BreakStep DEF Next

LEMMA Invariant == Spec => []Inv
BY InitInv, NextInv, PTL DEF Spec

(* Every variable keeps its type; in particular Start never builds a       *)
(* command from an item beyond the end of its queue.                       *)
THEOREM ReplTypeCorrect == Spec => []TypeOK
<1>1. Inv => TypeOK
  BY Zenon DEF Inv
<1>2. QED
  BY <1>1, Invariant, PTL

(* For every number of keys, workers, connections and every SYNC_NUM, the  *)
(* items marked as sent are a prefix of each queue, so that Pop, which     *)
(* stops at the first unmarked one, removes what was sent.                 *)
THEOREM SentComeFirst == Spec => []SyncPrefix
<1>1. Inv => SyncPrefix
  BY Zenon DEF Inv
<1>2. QED
  BY <1>1, Invariant, PTL

(* The batch that Start walks through outside the lock stays the head of   *)
(* its queue whatever the workers push, and the command under construction *)
(* holds exactly the keys it has marked.                                   *)
THEOREM BatchIsHead == Spec => []BatchStays
<1>1. Inv => BatchStays
  BY Zenon DEF Inv
<1>2. QED
  BY <1>1, Invariant, PTL
-----------------------------------------------------------------------------
(***************************************************************************)
(* The slave never goes back.  The versions of a key form one line from    *)
(* the slave's database over the commands on its connection, in the order  *)
(* in which they were sent, and the command under construction, to the     *)
(* master's database: each is not older than the one before.               *)
(***************************************************************************)

(* The commands that the slave may still read.                             *)
LineOf(s, f) == IF s.conn = NoConn THEN <<>> ELSE f[s.conn].toS
Line == LineOf(slave, conn)

Says(pairs, k, v) ==
  \E l \in 1 .. Len(pairs) : pairs[l].key = k /\ pairs[l].val = v

(* A version that the master may have given out.                           *)
NotNewer(k, v) == v <= ver /\ (mval[k] # 0 => v <= mval[k])

(* An order on a sequence of commands above the versions s of a slave.     *)
InOrder(q, s) ==
  /\ \A i \in 1 .. Len(q), k \in Keys, v \in Versions :
       Says(q[i].pairs, k, v) /\ v # 0 => s[k] <= v
  /\ \A i, j \in 1 .. Len(q), k \in Keys, v, w \in Versions :
       i < j /\ Says(q[i].pairs, k, v) /\ Says(q[j].pairs, k, w) /\ w # 0 => v <= w

(* Everything in the line is below the pairs of a command to be sent.      *)
Below(q, s, pairs) ==
  \A k \in Keys, w \in Versions : Says(pairs, k, w) /\ w # 0 =>
    /\ s[k] <= w
    /\ \A i \in 1 .. Len(q), v \in Versions : Says(q[i].pairs, k, v) => v <= w

NoneNewer ==
  /\ \A k \in Keys : NotNewer(k, sval[k]) /\ mval[k] <= ver
  /\ \A i \in 1 .. Len(Line), k \in Keys, v \in Versions :
       Says(Line[i].pairs, k, v) => NotNewer(k, v)
  /\ mt.pc = "item" =>
       \A k \in Keys, v \in Versions : Says(mt.out, k, v) => NotNewer(k, v)

Ordered ==
  /\ NoneNewer
  /\ InOrder(Line, sval)
  /\ mt.pc = "item" => Below(Line, sval, mt.out)

(* What is read, dropped or cut off leaves a part of the line.             *)
Part(r, q) ==
  \E n \in Nat : \A i \in 1 .. Len(r) : i + n \in 1 .. Len(q) /\ r[i] = q[i + n]

LEMMA LineType ==
  ASSUME NEW s \in SlaveRecs, NEW f \in [Conns -> ConnRecs]
  PROVE  LineOf(s, f) \in Seq(Commands)
<1>1. s.conn \in Conns \cup {NoConn}
  BY Zenon DEF SlaveRecs
<1>2. \A c \in Conns : f[c].toS \in Seq(Commands)
  BY Zenon DEF ConnRecs
<1>3. <<>> \in Seq(Commands)
  OBVIOUS
<1> QED
  BY Zenon, <1>1, <1>2, <1>3 DEF LineOf

LEMMA PartInOrder ==
  ASSUME NEW q \in Seq(Commands), NEW r \in Seq(Commands), Part(r, q), NEW s, InOrder(q, s)
  PROVE  InOrder(r, s)
<1>1. PICK n \in Nat : \A i \in 1 .. Len(r) : i + n \in 1 .. Len(q) /\ r[i] = q[i + n]
  BY Zenon DEF Part
<1>2. \A i, j \in 1 .. Len(r) : i < j => i + n < j + n
  BY <1>1
<1> QED
  BY Zenon, <1>1, <1>2 DEF InOrder

LEMMA PartBelow ==
  ASSUME NEW q, NEW r, Part(r, q), NEW s, NEW pairs, Below(q, s, pairs)
  PROVE  Below(r, s, pairs)
<1>1. PICK n \in Nat : \A i \in 1 .. Len(r) : i + n \in 1 .. Len(q) /\ r[i] = q[i + n]
  BY Zenon DEF Part
<1> QED
  BY Zenon, <1>1 DEF Below

(* A command whose pairs are above the line may join it.                   *)
LEMMA AppendInOrder ==
  ASSUME NEW q \in Seq(Commands), NEW m \in Commands, NEW s,
         InOrder(q, s), Below(q, s, m.pairs)
  PROVE  InOrder(Append(q, m), s)
<1> DEFINE r == Append(q, m)
<1>1. Len(r) = Len(q) + 1 /\ Len(q) \in Nat
  OBVIOUS
<1>2. \A i \in 1 .. Len(q) : r[i] = q[i]
  OBVIOUS
<1>3. r[Len(q) + 1] = m
  OBVIOUS
<1> HIDE DEF r
<1>4. \A i \in 1 .. Len(r) : i \in 1 .. Len(q) \/ i = Len(q) + 1
  BY <1>1
<1>5. \A i, j \in 1 .. Len(r) : i < j => i \in 1 .. Len(q)
  BY <1>1
<1>6. ASSUME NEW i \in 1 .. Len(r), NEW k \in Keys, NEW v \in Versions,
             Says(r[i].pairs, k, v), v # 0
      PROVE  s[k] <= v
  BY Zenon, <1>2, <1>3, <1>4, <1>6 DEF InOrder, Below
<1>7. ASSUME NEW i \in 1 .. Len(r), NEW j \in 1 .. Len(r), NEW k \in Keys,
             NEW v \in Versions, NEW w \in Versions, i < j,
             Says(r[i].pairs, k, v), Says(r[j].pairs, k, w), w # 0
      PROVE  v <= w
  <2>1. i \in 1 .. Len(q) /\ Says(q[i].pairs, k, v)
    BY Zenon, <1>2, <1>5, <1>7
  <2>2. CASE j \in 1 .. Len(q)
    BY Zenon, <1>2, <1>7, <2>1, <2>2 DEF InOrder
  <2>3. CASE j = Len(q) + 1
    BY Zenon, <1>3, <1>7, <2>1, <2>3 DEF Below
  <2> QED
    BY Zenon, <1>4, <2>2, <2>3
<1> QED
  BY Zenon, <1>6, <1>7 DEF InOrder, r

(* What the master has given out stays not newer than what it holds.       *)
DbGrows ==
  /\ \A k \in Keys, v \in Versions : NotNewer(k, v) => NotNewer(k, v)'
  /\ \A k \in Keys : mval'[k] <= ver'

(* The command under construction, if there still is one.                  *)
Fits(pairs) ==
  /\ Below(Line, sval, pairs)
  /\ \A k \in Keys, v \in Versions : Says(pairs, k, v) => NotNewer(k, v)

LEMMA FitsKept ==
  ASSUME Ordered, mt'.pc = "item" => (mt.pc = "item" /\ mt'.out = mt.out) \/ mt'.out = <<>>
  PROVE  mt'.pc = "item" => Fits(mt'.out)
<1>1. mt.pc = "item" => Fits(mt.out)
  BY Zenon DEF Ordered, NoneNewer, Fits
<1>2. \A k, v : ~Says(<<>>, k, v)
  BY DEF Says
<1>3. Fits(<<>>)
  BY Zenon, <1>2 DEF Fits, Below
<1> QED
  BY Zenon, <1>1, <1>3

(* A step by which the slave learns nothing.                               *)
LEMMA PartOrdered ==
  ASSUME TypeOK, TypeOK', Ordered, DbGrows, sval' = sval, Part(Line', Line),
         mt'.pc = "item" => Fits(mt'.out)
  PROVE  Ordered'
<1>1. Line \in Seq(Commands) /\ Line' \in Seq(Commands)
  BY Zenon, LineType DEF Line, LineOf, TypeOK
<1>2. InOrder(Line', sval')
  BY Zenon, <1>1, PartInOrder DEF Ordered
<1>3. mt'.pc = "item" => Below(Line', sval', mt'.out)
  BY Zenon, PartBelow DEF Fits
<1>4. \A k \in Keys : NotNewer(k, sval[k])' /\ mval'[k] <= ver'
  <2>1. \A k \in Keys : sval[k] \in Versions
    BY Zenon DEF TypeOK
  <2> QED
    BY Zenon, <2>1 DEF DbGrows, Ordered, NoneNewer, NotNewer
<1>5. \A i \in 1 .. Len(Line'), k \in Keys, v \in Versions :
        Says(Line'[i].pairs, k, v) => NotNewer(k, v)'
  <2>1. PICK n \in Nat :
          \A i \in 1 .. Len(Line') : i + n \in 1 .. Len(Line) /\ Line'[i] = Line[i + n]
    BY Zenon DEF Part
  <2> QED
    BY Zenon, <2>1 DEF DbGrows, Ordered, NoneNewer
<1>6. mt'.pc = "item" => \A k \in Keys, v \in Versions : Says(mt'.out, k, v) => NotNewer(k, v)'
  BY Zenon DEF DbGrows, Fits
<1>7. NoneNewer'
  BY Zenon, <1>4, <1>5, <1>6 DEF NoneNewer, Says, NotNewer
<1>8. InOrder(Line, sval)'
  BY Zenon, <1>2 DEF InOrder, Says
<1>9. mt'.pc = "item" => Below(Line, sval, mt.out)'
  BY Zenon, <1>3 DEF Below, Says
<1> QED
  BY Zenon, <1>7, <1>8, <1>9 DEF Ordered

LEMMA SameLine ==
  ASSUME TypeOK, slave'.conn = slave.conn, \A d \in Conns : conn'[d].toS = conn[d].toS
  PROVE  Line' = Line
<1>1. slave.conn \in Conns \cup {NoConn}
  BY Zenon DEF TypeOK, SlaveRecs
<1> QED
  BY Zenon, <1>1 DEF Line, LineOf

LEMMA WholePart ==
  ASSUME NEW q \in Seq(Commands)
  PROVE  Part(q, q) /\ Part(<<>>, q)
<1>1. 0 \in Nat /\ (\A i \in 1 .. Len(q) : i + 0 \in 1 .. Len(q) /\ q[i] = q[i + 0])
      /\ (\A i \in 1 .. Len(<<>>) : i + 0 \in 1 .. Len(q) /\ <<>>[i] = q[i + 0])
  OBVIOUS
<1> QED
  BY Zenon, <1>1 DEF Part

LEMMA DbSame ==
  ASSUME Ordered, UNCHANGED <<mval, ver>>
  PROVE  DbGrows
BY Zenon DEF Ordered, NoneNewer, DbGrows, NotNewer

(* A client's write is newer than everything, a deletion orders nothing.   *)
LEMMA DbWritten ==
  ASSUME TypeOK, Ordered, NEW w \in Workers, NEW K \in SUBSET Keys, NEW e, ClientWrite(w, K, e)
  PROVE  DbGrows
<1>1. ver \in Nat /\ ver' = ver + 1 /\ \A k \in Keys : mval[k] \in Nat /\ mval[k] <= ver
  BY BoundAssumption DEF TypeOK, Versions, ClientWrite, Ordered, NoneNewer
<1>2. \A k \in Keys : mval'[k] = ver + 1 \/ mval'[k] = mval[k]
  BY Zenon DEF ClientWrite
<1>3. \A v \in Versions : v \in Nat
  BY BoundAssumption DEF Versions
<1>4. ASSUME NEW k \in Keys, NEW v \in Versions, NotNewer(k, v)
      PROVE  NotNewer(k, v)'
  <2>1. v \in Nat /\ v <= ver /\ (mval[k] # 0 => v <= mval[k])
    BY Zenon, <1>3, <1>4 DEF NotNewer
  <2>2. v <= ver' /\ (mval'[k] # 0 => v <= mval'[k])
    BY <1>1, <1>2, <2>1
  <2> QED
    BY Zenon, <2>2 DEF NotNewer
<1>5. \A k \in Keys : mval'[k] <= ver'
  BY <1>1, <1>2
<1> QED
  BY Zenon, <1>4, <1>5 DEF DbGrows

LEMMA DbDeleted ==
  ASSUME TypeOK, Ordered, NEW w \in Workers, DelExecute(w)
  PROVE  DbGrows
<1>1. ver \in Nat /\ ver' = ver /\ \A k \in Keys : mval[k] <= ver
  BY BoundAssumption DEF TypeOK, Versions, DelExecute, Ordered, NoneNewer
<1>2. \A k \in Keys : mval'[k] = 0 \/ mval'[k] = mval[k]
  BY Zenon DEF DelExecute
<1>3. \A k \in Keys : mval'[k] <= ver'
  BY <1>1, <1>2
<1>4. ASSUME NEW k \in Keys, NEW v \in Versions, NotNewer(k, v)
      PROVE  NotNewer(k, v)'
  BY Zenon, <1>1, <1>2, <1>4 DEF NotNewer
<1> QED
  BY Zenon, <1>3, <1>4 DEF DbGrows

(* Steps that touch neither the line nor the slave's database, and do not  *)
(* add to the command under construction.                                  *)
Aside ==
  /\ sval' = sval
  /\ slave'.conn = slave.conn
  /\ \A d \in Conns : conn'[d].toS = conn[d].toS
  /\ mt'.pc = "item" => (mt.pc = "item" /\ mt'.out = mt.out) \/ mt'.out = <<>>

LEMMA AsideOrdered ==
  ASSUME TypeOK, TypeOK', Ordered, DbGrows, Aside
  PROVE  Ordered'
<1>1. Line \in Seq(Commands)
  BY Zenon, LineType DEF Line, TypeOK
<1>2. Part(Line', Line)
  BY Zenon, <1>1, SameLine, WholePart DEF Aside
<1> QED
  BY Zenon, <1>2, FitsKept, PartOrdered DEF Aside

LEMMA ClientAside ==
  ASSUME TypeOK, Client
  PROVE  Aside /\ (\/ UNCHANGED <<mval, ver>>
                   \/ \E w \in Workers : DelExecute(w)
                   \/ \E w \in Workers, K \in SUBSET Keys, e \in {"none", "live"} :
                        ClientWrite(w, K, e))
<1>1. UNCHANGED <<sval, slave, conn, mt>>
  <2>1. \A w \in Workers : \A K, e : ClientWrite(w, K, e) => UNCHANGED <<sval, slave, conn, mt>>
    BY Zenon DEF ClientWrite, slaveVars
  <2>2. \A w \in Workers : Set(w) \/ Setex(w) \/ Mset(w) => UNCHANGED <<sval, slave, conn, mt>>
    BY Zenon, <2>1 DEF Set, Setex, Mset
  <2>3. \A w \in Workers : DelLookup(w) \/ DelExecute(w) \/ PushKey(w)
                             => UNCHANGED <<sval, slave, conn, mt>>
    BY Zenon DEF DelLookup, DelExecute, PushKey, slaveVars
  <2>4. Expire => UNCHANGED <<sval, slave, conn, mt>>
    BY Zenon DEF Expire, slaveVars
  <2> QED
    BY Zenon, <2>2, <2>3, <2>4 DEF Client
<1>2. Aside
  BY Zenon, <1>1 DEF Aside
<1>3. ASSUME NEW w \in Workers, Set(w) \/ Setex(w) \/ Mset(w)
      PROVE  \E K \in SUBSET Keys, e \in {"none", "live"} : ClientWrite(w, K, e)
  BY Zenon, <1>3 DEF Set, Setex, Mset
<1>4. ASSUME NEW w \in Workers, DelLookup(w) \/ PushKey(w) PROVE UNCHANGED <<mval, ver>>
  BY Zenon, <1>4 DEF DelLookup, PushKey, dbVars
<1>5. ASSUME Expire PROVE UNCHANGED <<mval, ver>>
  BY Zenon, <1>5 DEF Expire
<1> QED
  BY Zenon, <1>2, <1>3, <1>4, <1>5 DEF Client

(* Steps on other fields of a connection.                                  *)
LEMMA FieldsAside ==
  ASSUME NEW r \in ConnRecs, NEW b
  PROVE  /\ [r EXCEPT !.dest = b].toS = r.toS
         /\ [r EXCEPT !.curstatus = b].toS = r.toS
         /\ [r EXCEPT !.dest = TRUE, !.curstatus = b].toS = r.toS
         /\ [r EXCEPT !.open = FALSE, !.dest = b].toS = r.toS
         /\ [r EXCEPT !.toM = b].toS = r.toS
BY Zenon DEF ConnRecs

LEMMA KeepsToS ==
  ASSUME NEW f \in [Conns -> ConnRecs], NEW c, NEW r, c \in Conns => r.toS = f[c].toS,
         NEW d \in Conns
  PROVE  [f EXCEPT ![c] = r][d].toS = f[d].toS
BY Zenon

LEMMA MasterAside ==
  ASSUME TypeOK, MasterHandle \/ StartData \/ FrontNums \/ MasterFinish
  PROVE  Aside /\ UNCHANGED <<mval, ver>>
<1>1. UNCHANGED <<mval, ver, sval, slave>>
  BY Zenon DEF MasterHandle, StartData, FrontNums, MasterFinish, dbVars, slaveVars
<1>2. \A d \in Conns : conn'[d].toS = conn[d].toS
  <2>1. conn \in [Conns -> ConnRecs]
    BY Zenon DEF TypeOK
  <2>2. \/ conn' = conn \/ conn' = [conn EXCEPT ![mt.cur].dest = TRUE]
        \/ conn' = [conn EXCEPT ![mt.cur].curstatus = "READ"]
    BY Zenon DEF MasterHandle, StartData, FrontNums, MasterFinish
  <2>3. \A d \in Conns : [conn EXCEPT ![mt.cur].dest = TRUE][d].toS = conn[d].toS
    BY <2>1, FieldsAside, KeepsToS
  <2>4. \A d \in Conns : [conn EXCEPT ![mt.cur].curstatus = "READ"][d].toS = conn[d].toS
    BY <2>1, FieldsAside, KeepsToS
  <2> QED
    BY Zenon, <2>2, <2>3, <2>4
<1>3. mt'.pc = "item" => (mt.pc = "item" /\ mt'.out = mt.out) \/ mt'.out = <<>>
  <2>1. mt \in MasterThreads
    BY Zenon DEF TypeOK
  <2>2. MasterHandle => mt' = mt \/ mt'.pc \in {"start", "crashed"}
    BY Zenon, <2>1 DEF MasterHandle, MasterThreads
  <2>3. StartData => mt'.pc = "front"
    BY Zenon, <2>1 DEF StartData, MasterThreads
  <2>4. FrontNums => mt'.pc = "sent" \/ mt'.out = <<>>
    BY Zenon, <2>1 DEF FrontNums, MasterThreads
  <2>5. MasterFinish => mt'.pc = "idle"
    BY DEF MasterFinish, IdleThread
  <2> QED
    BY Zenon, <2>2, <2>3, <2>4, <2>5
<1> QED
  BY Zenon, <1>1, <1>2, <1>3 DEF Aside

LEMMA WorkerAside ==
  ASSUME TypeOK, NEW c \in Conns,
         RepComplete(c) \/ RepCreate(c) \/ RepPublish(c) \/ MasterDestruct(c) \/ SlaveWrite(c)
  PROVE  Aside /\ UNCHANGED <<mval, ver>>
<1>1. UNCHANGED <<mval, ver, sval, mt>>
  BY Zenon DEF RepComplete, RepCreate, RepPublish, MasterDestruct, SlaveWrite, dbVars, slaveVars
<1>2. \A d \in Conns : conn'[d].toS = conn[d].toS
  <2>1. conn \in [Conns -> ConnRecs]
    BY Zenon DEF TypeOK
  <2>2. \/ conn' = conn \/ conn' = [conn EXCEPT ![c].dest = TRUE, ![c].curstatus = "READ"]
        \/ conn' = [conn EXCEPT ![c].open = FALSE, ![c].dest = FALSE]
        \/ conn' = [conn EXCEPT ![c].toM = Append(@, slave.reply)]
    BY Zenon DEF RepComplete, RepCreate, RepPublish, MasterDestruct, SlaveWrite, SendToMaster
  <2>3. \A d \in Conns :
          [conn EXCEPT ![c].dest = TRUE, ![c].curstatus = "READ"][d].toS = conn[d].toS
    BY Zenon, <2>1 DEF ConnRecs
  <2>4. \A d \in Conns : [conn EXCEPT ![c].open = FALSE, ![c].dest = FALSE][d].toS = conn[d].toS
    BY ZenonT(40), <2>1 DEF ConnRecs
  <2>5. \A d \in Conns : [conn EXCEPT ![c].toM = Append(@, slave.reply)][d].toS = conn[d].toS
    BY <2>1, FieldsAside, KeepsToS
  <2> QED
    BY Zenon, <2>2, <2>3, <2>4, <2>5
<1>3. slave'.conn = slave.conn
  BY Zenon DEF TypeOK, SlaveRecs, RepComplete, RepCreate, RepPublish, MasterDestruct, SlaveWrite,
         slaveVars
<1> QED
  BY Zenon, <1>1, <1>2, <1>3 DEF Aside

LEMMA AskAside ==
  ASSUME TypeOK, SlaveAsk \/ SlaveTimeout
  PROVE  Aside /\ UNCHANGED <<mval, ver>>
<1>1. UNCHANGED <<mval, ver, sval, mt>>
  BY Zenon DEF SlaveAsk, SlaveTimeout, dbVars
<1>2. \A d \in Conns : conn'[d].toS = conn[d].toS
  <2>1. conn \in [Conns -> ConnRecs]
    BY Zenon DEF TypeOK
  <2>2. conn' = conn \/ conn' = [conn EXCEPT ![slave.conn].toM = Append(@, "data")]
    BY Zenon DEF SlaveAsk, SlaveTimeout, SendToMaster
  <2>3. \A d \in Conns : [conn EXCEPT ![slave.conn].toM = Append(@, "data")][d].toS = conn[d].toS
    BY <2>1, FieldsAside, KeepsToS
  <2> QED
    BY Zenon, <2>2, <2>3
<1>3. slave'.conn = slave.conn
  BY Zenon DEF TypeOK, SlaveRecs, SlaveAsk, SlaveTimeout
<1> QED
  BY Zenon, <1>1, <1>2, <1>3 DEF Aside

(* A new connection has carried nothing, and a closed one is not read.     *)
LEMMA LinkOrdered ==
  ASSUME TypeOK, TypeOK', Ordered,
         SlaveLink \/ SlaveLinkFails \/ \E c \in Conns : SlaveDestruct(c)
  PROVE  Ordered'
<1>1. UNCHANGED <<mval, ver, sval, mt>>
  BY Zenon DEF SlaveLink, SlaveLinkFails, SlaveDestruct, dbVars
<1>2. Line' = <<>>
  <2>1. CASE SlaveLink \/ SlaveLinkFails
    <3> DEFINE c == slave.links + 1
    <3>1. c \in Conns /\ c # NoConn
      <4>1. slave.links \in 0 .. MaxConn /\ MaxConn \in Nat
        BY Zenon, BoundAssumption DEF TypeOK, SlaveRecs
      <4>2. slave.links < MaxConn \/ slave.links + 1 < MaxConn
        BY Zenon, <2>1 DEF SlaveLink, SlaveLinkFails
      <4> QED
        BY <4>1, <4>2 DEF Conns, NoConn
    <3>2. slave'.conn = c
      BY ZenonT(40), <2>1 DEF TypeOK, SlaveRecs, SlaveLink, SlaveLinkFails
    <3>3. \E r : r.toS = <<>> /\ conn' = [conn EXCEPT ![c] = r]
      <4>1. CASE SlaveLink
        <5>1. PICK auth \in BOOLEAN :
                conn' = [conn EXCEPT ![c] =
                          [NeverConnected EXCEPT
                             !.up = TRUE, !.open = TRUE, !.master_auth = auth,
                             !.toM = IF UseAuth THEN <<"auth">> ELSE <<>>]]
          BY Zenon, <4>1 DEF SlaveLink
        <5> DEFINE r == [NeverConnected EXCEPT
                           !.up = TRUE, !.open = TRUE, !.master_auth = auth,
                           !.toM = IF UseAuth THEN <<"auth">> ELSE <<>>]
        <5>2. r.toS = <<>>
          BY Zenon DEF NeverConnected
        <5> QED
          BY Zenon, <5>1, <5>2
      <4>2. CASE SlaveLinkFails
        <5>1. conn' = [conn EXCEPT ![c] = [NeverConnected EXCEPT !.open = TRUE]]
          BY Zenon, <4>2 DEF SlaveLinkFails
        <5>2. [NeverConnected EXCEPT !.open = TRUE].toS = <<>>
          BY Zenon DEF NeverConnected
        <5> QED
          BY Zenon, <5>1, <5>2
      <4> QED
        BY Zenon, <2>1, <4>1, <4>2
    <3> HIDE DEF c
    <3>4. conn'[c].toS = <<>>
      BY Zenon, <3>1, <3>3 DEF TypeOK
    <3> QED
      BY Zenon, <3>1, <3>2, <3>4 DEF Line, LineOf
  <2>2. CASE \E c \in Conns : SlaveDestruct(c)
    <3>1. slave'.conn = NoConn
      BY Zenon, <2>2 DEF TypeOK, SlaveRecs, SlaveDestruct
    <3> QED
      BY Zenon, <3>1 DEF Line, LineOf
  <2> QED
    BY Zenon, <2>1, <2>2
<1>3. Line \in Seq(Commands)
  BY Zenon, LineType DEF Line, TypeOK
<1>4. Part(Line', Line)
  BY Zenon, <1>2, <1>3, WholePart
<1> QED
  BY Zenon, <1>1, <1>4, DbSame, FitsKept, PartOrdered

(* What is left of a sequence of commands after a read or a break.         *)
LEMMA CutPart ==
  ASSUME NEW q \in Seq(Commands)
  PROVE  /\ \A n \in 1 .. Len(q) : Part(Dropping(n, q), q)
         /\ \A n \in 0 .. Len(q) : Part(SubSeq(q, 1, n), q)
<1>1. ASSUME NEW n \in 1 .. Len(q) PROVE Part(Dropping(n, q), q)
  <2>1. n \in Nat /\ \A i \in 1 .. Len(Dropping(n, q)) :
                       i + n \in 1 .. Len(q) /\ Dropping(n, q)[i] = q[i + n]
    BY DEF Dropping
  <2> QED
    BY Zenon, <2>1 DEF Part
<1>2. ASSUME NEW n \in 0 .. Len(q) PROVE Part(SubSeq(q, 1, n), q)
  <2>1. 0 \in Nat /\ \A i \in 1 .. Len(SubSeq(q, 1, n)) :
                       i + 0 \in 1 .. Len(q) /\ SubSeq(q, 1, n)[i] = q[i + 0]
    OBVIOUS
  <2> QED
    BY Zenon, <2>1 DEF Part
<1> QED
  BY Zenon, <1>1, <1>2

(* Reading from a connection, or cutting it off, leaves a part of the line.*)
LEMMA CutLine ==
  ASSUME TypeOK, NEW c \in Conns, Part(conn'[c].toS, conn[c].toS),
         \A d \in Conns \ {c} : conn'[d].toS = conn[d].toS,
         slave'.conn \in {slave.conn, NoConn}
  PROVE  Part(Line', Line)
<1>1. Line \in Seq(Commands)
  BY Zenon, LineType DEF Line, TypeOK
<1>2. CASE slave'.conn = NoConn
  BY Zenon, <1>1, <1>2, WholePart DEF Line, LineOf
<1>3. CASE slave'.conn # NoConn /\ slave.conn = c
  BY Zenon, <1>3 DEF Line, LineOf
<1>4. CASE slave'.conn # NoConn /\ slave.conn # c
  <2>1. slave.conn \in Conns \ {c}
    BY Zenon, <1>4 DEF TypeOK, SlaveRecs
  <2>2. Line' = Line
    BY Zenon, <1>4, <2>1 DEF Line, LineOf
  <2> QED
    BY Zenon, <1>1, <2>2, WholePart
<1> QED
  BY Zenon, <1>2, <1>3, <1>4

LEMMA DownAside ==
  ASSUME NEW f \in [Conns -> ConnRecs], NEW c \in Conns
  PROVE  /\ [f EXCEPT ![c].up = FALSE][c].toS = f[c].toS
         /\ \A d \in Conns \ {c} : [f EXCEPT ![c].up = FALSE][d] = f[d]
BY Zenon DEF ConnRecs

LEMMA ReadsLine ==
  ASSUME TypeOK, NEW c \in Conns, NEW n \in 1 .. Len(conn[c].toS),
         conn' \in {Reads(c, n), [Reads(c, n) EXCEPT ![c].up = FALSE]},
         slave'.conn \in {slave.conn, NoConn}
  PROVE  Part(Line', Line) /\ conn'[c].toS = Dropping(n, conn[c].toS)
<1>1. conn \in [Conns -> ConnRecs] /\ conn[c].toS \in Seq(Commands) /\ conn[c] \in ConnRecs
  BY Zenon, ConnQueues DEF TypeOK
<1>2. /\ Reads(c, n)[c] = [conn[c] EXCEPT !.toS = Dropping(n, conn[c].toS)]
      /\ \A d \in Conns \ {c} : Reads(c, n)[d] = conn[d]
      /\ Reads(c, n) \in [Conns -> ConnRecs]
  <2>1. Reads(c, n) \in [Conns -> ConnRecs]
    BY ReadTypes
  <2> QED
    BY Zenon, <1>1, <2>1 DEF Reads
<1>3. Reads(c, n)[c].toS = Dropping(n, conn[c].toS)
  BY Zenon, <1>1, <1>2 DEF ConnRecs
<1>4. /\ [Reads(c, n) EXCEPT ![c].up = FALSE][c].toS = Reads(c, n)[c].toS
      /\ \A d \in Conns \ {c} : [Reads(c, n) EXCEPT ![c].up = FALSE][d] = Reads(c, n)[d]
  BY Zenon, <1>2, DownAside
<1>5. /\ conn'[c].toS = Dropping(n, conn[c].toS)
      /\ \A d \in Conns \ {c} : conn'[d].toS = conn[d].toS
  BY Zenon, <1>2, <1>3, <1>4
<1>6. Part(conn'[c].toS, conn[c].toS)
  BY Zenon, <1>1, <1>5, CutPart
<1> QED
  BY Zenon, <1>5, <1>6, CutLine

LEMMA CutOrdered ==
  ASSUME TypeOK, TypeOK', Ordered, NEW c \in Conns,
         Break(c) \/ SlaveExecuteFails(c) \/ SlaveReplyCommand(c)
  PROVE  Ordered'
<1>1. UNCHANGED <<mval, ver, sval, mt>>
  BY Zenon DEF Break, SlaveExecuteFails, SlaveReplyCommand, dbVars, slaveVars
<1>2. slave'.conn \in {slave.conn, NoConn}
  <2>1. slave \in SlaveRecs
    BY Zenon DEF TypeOK
  <2>2. Break(c) => slave' = slave
    BY Zenon DEF Break, slaveVars
  <2>3. SlaveExecuteFails(c) => slave' = [slave EXCEPT !.reply = "error"]
    BY Zenon DEF SlaveExecuteFails
  <2>4. SlaveReplyCommand(c) => \/ slave' = [slave EXCEPT !.conn = NoConn, !.reg = FALSE]
                                \/ slave' = [slave EXCEPT !.status = "CONTINUE"]
                                \/ slave' = slave
    BY Zenon DEF SlaveReplyCommand
  <2> QED
    BY Zenon, <2>1, <2>2, <2>3, <2>4 DEF SlaveRecs
<1>3. CASE Break(c)
  <2>1. PICK i \in 0 .. Len(conn[c].toM), j \in 0 .. Len(conn[c].toS) :
          conn' = [conn EXCEPT ![c].up = FALSE, ![c].toM = SubSeq(@, 1, i),
                               ![c].toS = SubSeq(@, 1, j)]
    BY Zenon, <1>3 DEF Break
  <2>2. conn \in [Conns -> ConnRecs] /\ conn[c].toS \in Seq(Commands)
    BY Zenon, ConnQueues DEF TypeOK
  <2>3. /\ conn'[c].toS = SubSeq(conn[c].toS, 1, j)
        /\ \A d \in Conns \ {c} : conn'[d].toS = conn[d].toS
    BY Zenon, <2>1, <2>2 DEF ConnRecs
  <2>4. Part(conn'[c].toS, conn[c].toS)
    BY Zenon, <2>2, <2>3, CutPart
  <2>5. Part(Line', Line)
    BY Zenon, <1>2, <2>3, <2>4, CutLine
  <2> QED
    BY Zenon, <1>1, <2>5, DbSame, FitsKept, PartOrdered
<1>4. CASE SlaveExecuteFails(c) \/ SlaveReplyCommand(c)
  <2>1. PICK n \in 1 .. Len(conn[c].toS) :
          conn' \in {Reads(c, n), [Reads(c, n) EXCEPT ![c].up = FALSE]}
    BY Zenon, <1>4 DEF SlaveExecuteFails, SlaveReplyCommand
  <2>2. Part(Line', Line)
    BY Zenon, <1>2, <2>1, ReadsLine
  <2> QED
    BY Zenon, <1>1, <2>2, DbSame, FitsKept, PartOrdered
<1> QED
  BY Zenon, <1>3, <1>4

(* A command joins the line behind everything that it is above.            *)
LEMMA JoinOrdered ==
  ASSUME TypeOK, TypeOK', Ordered, UNCHANGED <<mval, ver, sval>>, NEW m \in Commands,
         Line' = Append(Line, m), Fits(m.pairs),
         mt'.pc = "item" => mt.pc = "item" /\ mt'.out = mt.out /\ m.pairs = <<>>
  PROVE  Ordered'
<1>1. Line \in Seq(Commands)
  BY Zenon, LineType DEF Line, TypeOK
<1>2. InOrder(Line', sval')
  BY Zenon, <1>1, AppendInOrder DEF Ordered, Fits
<1>3. \A i \in 1 .. Len(Line') : \/ i \in 1 .. Len(Line) /\ Line'[i] = Line[i]
                                 \/ Line'[i] = m
  BY <1>1
<1>4. DbGrows
  BY Zenon, DbSame
<1>5. \A k \in Keys : NotNewer(k, sval[k])' /\ mval'[k] <= ver'
  BY Zenon DEF Ordered, NoneNewer, NotNewer
<1>6. \A i \in 1 .. Len(Line'), k \in Keys, v \in Versions :
        Says(Line'[i].pairs, k, v) => NotNewer(k, v)'
  BY Zenon, <1>3, <1>4 DEF DbGrows, Ordered, NoneNewer, Fits
<1>7. mt'.pc = "item" =>
        (\A k \in Keys, v \in Versions : Says(mt'.out, k, v) => NotNewer(k, v)')
        /\ Below(Line', sval', mt'.out)
  <2> SUFFICES ASSUME mt'.pc = "item"
               PROVE  (\A k \in Keys, v \in Versions : Says(mt.out, k, v) => NotNewer(k, v)')
                      /\ Below(Line', sval, mt.out)
    BY Zenon
  <2>1. mt.pc = "item" /\ m.pairs = <<>>
    BY Zenon
  <2>2. \A k, v : ~Says(m.pairs, k, v)
    BY <2>1 DEF Says
  <2>3. Below(Line', sval, mt.out)
    BY Zenon, <1>3, <2>1, <2>2 DEF Ordered, Below
  <2> QED
    BY Zenon, <1>4, <2>1, <2>3 DEF DbGrows, Ordered, NoneNewer
<1>8. NoneNewer'
  BY Zenon, <1>5, <1>6, <1>7 DEF NoneNewer, Says, NotNewer
<1>9. InOrder(Line, sval)'
  BY Zenon, <1>2 DEF InOrder, Says
<1>10. mt'.pc = "item" => Below(Line, sval, mt.out)'
  BY Zenon, <1>7 DEF Below, Says
<1> QED
  BY Zenon, <1>8, <1>9, <1>10 DEF Ordered

(* Sending adds to the line when the slave reads that connection.          *)
LEMMA SendLine ==
  ASSUME TypeOK, NEW c, NEW m \in Commands, slave'.conn = slave.conn,
         \A d \in Conns : conn'[d].toS = SendToSlave(c, m)[d].toS
  PROVE  Line' = Line \/ Line' = Append(Line, m)
<1>1. conn \in [Conns -> ConnRecs] /\ slave.conn \in Conns \cup {NoConn}
  BY Zenon DEF TypeOK, SlaveRecs
<1>2. ASSUME NEW d \in Conns
      PROVE  SendToSlave(c, m)[d].toS \in {conn[d].toS, Append(conn[d].toS, m)}
  BY Zenon, <1>1 DEF SendToSlave, ConnRecs
<1>3. CASE slave.conn = NoConn
  BY Zenon, <1>3 DEF Line, LineOf
<1>4. CASE slave.conn \in Conns /\ slave.conn # NoConn
  BY Zenon, <1>2, <1>4 DEF Line, LineOf
<1> QED
  BY Zenon, <1>1, <1>3, <1>4

LEMMA ReplyOrdered ==
  ASSUME TypeOK, TypeOK', Ordered, UNCHANGED <<mval, ver, sval>>, NEW op,
         Reply(op) \in Commands, Line' = Line \/ Line' = Append(Line, Reply(op)),
         mt'.pc = "item" => mt.pc = "item" /\ mt'.out = mt.out
  PROVE  Ordered'
<1>1. Line \in Seq(Commands)
  BY Zenon, LineType DEF Line, TypeOK
<1>2. CASE Line' = Line
  <2>1. Part(Line', Line)
    BY Zenon, <1>1, <1>2, WholePart
  <2> QED
    BY Zenon, <2>1, DbSame, FitsKept, PartOrdered
<1>3. CASE Line' = Append(Line, Reply(op))
  <2>1. Reply(op).pairs = <<>>
    BY Zenon DEF Reply
  <2>2. \A k, v : ~Says(<<>>, k, v)
    BY DEF Says
  <2>3. Fits(Reply(op).pairs)
    BY Zenon, <2>1, <2>2 DEF Fits, Below
  <2> QED
    BY Zenon, <1>3, <2>1, <2>3, JoinOrdered
<1> QED
  BY Zenon, <1>2, <1>3

LEMMA StartReplyOrdered ==
  ASSUME Inv, TypeOK', Ordered, StartReply
  PROVE  Ordered'
<1>1. PICK op \in {"authok", "autherror", "close"} :
        conn' = [SendToSlave(mt.cur, Reply(op)) EXCEPT ![mt.cur].dest = TRUE]
  BY Zenon DEF StartReply
<1>2. Reply(op) \in Commands /\ TypeOK
  BY DEF Reply, Commands, Inv
<1> DEFINE f == SendToSlave(mt.cur, Reply(op))
<1>3. f \in [Conns -> ConnRecs]
  BY Zenon, <1>2, SendTypes
<1> HIDE DEF f
<1>4. conn' = [f EXCEPT ![mt.cur].dest = TRUE]
  BY Zenon, <1>1 DEF f
<1>5. \A d \in Conns : conn'[d].toS = f[d].toS
  BY <1>3, <1>4, FieldsAside, KeepsToS
<1>6. slave' = slave /\ UNCHANGED <<mval, ver, sval>>
  BY Zenon DEF StartReply, slaveVars, dbVars
<1>7. Line' = Line \/ Line' = Append(Line, Reply(op))
  BY Zenon, <1>2, <1>5, <1>6, SendLine DEF f
<1>8. mt'.pc = "sent"
  BY Zenon DEF StartReply, Inv, TypeOK, MasterThreads
<1> QED
  BY Zenon, <1>2, <1>6, <1>7, <1>8, ReplyOrdered

LEMMA RepParserOrdered ==
  ASSUME Inv, TypeOK', Ordered, NEW c \in Conns, RepParser(c)
  PROVE  Ordered'
<1> DEFINE m == Head(conn[c].toM)
           answer(op) == IF conn[c].up THEN Append(conn[c].toS, Reply(op))
                                       ELSE conn[c].toS
<1>1. PICK n \in 1 .. Len(conn[c].toM) :
        LET read == [conn EXCEPT ![c].toM = Dropping(n, @)]
        IN  \/ conn' = [read EXCEPT ![c].toS = answer("err")]
            \/ conn' = [read EXCEPT ![c].toS = answer("autherror"),
                                    ![c].repmsg = "autherror"]
            \/ conn' = [read EXCEPT ![c].repmsg = m, ![c].master_auth = TRUE,
                                    ![c].curstatus = "DATA"]
  BY Zenon DEF RepParser
<1>2. conn \in [Conns -> ConnRecs] /\ conn[c] \in ConnRecs /\ TypeOK
  BY Zenon, ConnQueues DEF Inv, TypeOK
<1>3. /\ \A d \in Conns \ {c} : conn'[d].toS = conn[d].toS
      /\ conn'[c].toS \in {conn[c].toS, answer("err"), answer("autherror")}
  <2> DEFINE a == answer("err")
             b == answer("autherror")
             x == Dropping(n, conn[c].toM)
             r == [conn[c] EXCEPT !.toM = x]
  <2>1. r.toS = conn[c].toS /\ DOMAIN r = DOMAIN conn[c]
    BY Zenon, <1>2 DEF ConnRecs
  <2>2. \/ conn' = [conn EXCEPT ![c] = [r EXCEPT !.toS = a]]
        \/ conn' = [conn EXCEPT ![c] = [r EXCEPT !.toS = b, !.repmsg = "autherror"]]
        \/ conn' = [conn EXCEPT ![c] = [r EXCEPT !.repmsg = m, !.master_auth = TRUE,
                                                 !.curstatus = "DATA"]]
    <3> HIDE DEF m, answer
    <3> QED
      BY Zenon, <1>1, <1>2
  <2> HIDE DEF m, answer, a, b, r
  <2>3. /\ [r EXCEPT !.toS = a].toS = a
        /\ [r EXCEPT !.toS = b, !.repmsg = "autherror"].toS = b
        /\ [r EXCEPT !.repmsg = m, !.master_auth = TRUE, !.curstatus = "DATA"].toS = conn[c].toS
    BY Zenon, <1>2, <2>1 DEF ConnRecs
  <2> QED
    BY Zenon, <1>2, <2>2, <2>3 DEF a, b
<1>4. \E op \in {"err", "autherror"} :
        conn'[c].toS \in {conn[c].toS, Append(conn[c].toS, Reply(op))}
  BY Zenon, <1>3
<1>5. slave' = slave /\ UNCHANGED <<mval, ver, sval, mt>>
  BY Zenon DEF RepParser, slaveVars, dbVars
<1>6. PICK op \in {"err", "autherror"} : Line' = Line \/ Line' = Append(Line, Reply(op))
  <2>1. slave.conn \in Conns \cup {NoConn}
    BY Zenon, <1>2 DEF TypeOK, SlaveRecs
  <2>2. CASE slave.conn = NoConn
    BY Zenon, <1>5, <2>2 DEF Line, LineOf
  <2>3. CASE slave.conn # NoConn
    BY Zenon, <1>3, <1>4, <1>5, <2>1, <2>3 DEF Line, LineOf
  <2> QED
    BY Zenon, <2>2, <2>3
<1>7. Reply(op) \in Commands
  BY DEF Reply, Commands
<1> QED
  BY Zenon, <1>2, <1>5, <1>6, <1>7, ReplyOrdered

(* The versions that Start reads are above the line when it reads them.    *)
LEMMA CurrentFits ==
  ASSUME TypeOK, Ordered, NEW pairs \in Seq(Pairs), Fits(pairs), NEW k \in Keys
  PROVE  Fits(Append(pairs, [key |-> k, val |-> mval[k]]))
<1> DEFINE r == Append(pairs, [key |-> k, val |-> mval[k]])
<1>1. mval[k] \in Versions /\ [key |-> k, val |-> mval[k]] \in Pairs
  BY Zenon DEF TypeOK, Pairs
<1>2. ASSUME NEW j \in Keys, NEW v \in Versions, Says(r, j, v)
      PROVE  Says(pairs, j, v) \/ (j = k /\ v = mval[k])
  <2>1. PICK l \in 1 .. Len(r) : r[l].key = j /\ r[l].val = v
    BY Zenon, <1>2 DEF Says
  <2>2. (l \in 1 .. Len(pairs) /\ r[l] = pairs[l]) \/ r[l] = [key |-> k, val |-> mval[k]]
    BY <1>1
  <2> HIDE DEF r
  <2> QED
    BY <2>1, <2>2 DEF Says
<1> HIDE DEF r
<1>3. NotNewer(k, mval[k])
  <2>1. mval[k] <= ver
    BY Zenon DEF Ordered, NoneNewer
  <2>2. mval[k] <= mval[k]
    BY <1>1, BoundAssumption DEF Versions
  <2> QED
    BY Zenon, <2>1, <2>2 DEF NotNewer
<1>4. mval[k] # 0 => /\ sval[k] <= mval[k]
                     /\ \A i \in 1 .. Len(Line), v \in Versions :
                          Says(Line[i].pairs, k, v) => v <= mval[k]
  BY Zenon DEF Ordered, NoneNewer, NotNewer
<1>5. Below(Line, sval, r)
  BY ZenonT(40), <1>2, <1>4 DEF Fits, Below
<1>6. \A j \in Keys, v \in Versions : Says(r, j, v) => NotNewer(j, v)
  BY Zenon, <1>2, <1>3 DEF Fits
<1> QED
  BY Zenon, <1>5, <1>6 DEF Fits, r

LEMMA StartItemOrdered ==
  ASSUME Inv, TypeOK', Ordered, StartItem
  PROVE  Ordered'
<1> DEFINE q == IF is_update_que THEN que ELSE main_que
           k == CurrentItem.key
           pairs == Append(mt.out, [key |-> k, val |-> mval[k]])
<1>1. mt.pc = "item" /\ mt \in MasterThreads /\ TypeOK
  BY Zenon DEF Inv, TypeOK, StartItem
<1>2. mt.out \in Seq(Pairs) /\ Fits(mt.out)
  BY Zenon, <1>1 DEF MasterThreads, Ordered, NoneNewer, Fits
<1>3. k \in Keys
  <2>1. q \in Seq(Items) /\ mt.i \in 1 .. mt.n /\ mt.n <= Len(q) /\ mt.n \in Nat
    BY Zenon, <1>1 DEF Inv, TypeOK, BatchStays, MasterThreads
  <2>2. q[mt.i] \in Items
    BY <2>1
  <2> QED
    BY Zenon, <2>2 DEF CurrentItem, Items
<1>4. pairs \in Seq(Pairs)
  BY <1>1, <1>2, <1>3 DEF TypeOK, Pairs
<1>5. Fits(pairs)
  BY Zenon, <1>1, <1>2, <1>3, CurrentFits
<1> HIDE DEF k, pairs, q
<1>6. 0 \in Versions /\ [key |-> k, val |-> 0] \in Pairs
  BY <1>3, BoundAssumption DEF Pairs, Versions
<1>7. Put(pairs) \in Commands /\ Put(mt.out) \in Commands /\ DelCommand(k) \in Commands
  BY <1>2, <1>4, <1>6 DEF Put, DelCommand, Commands
<1>8. Fits(Put(pairs).pairs) /\ Fits(Put(mt.out).pairs)
  <2>1. Put(pairs).pairs = pairs /\ Put(mt.out).pairs = mt.out
    BY Zenon DEF Put
  <2> QED
    BY Zenon, <1>2, <1>5, <2>1
<1>9. Fits(DelCommand(k).pairs)
  <2>1. \A j, v : Says(DelCommand(k).pairs, j, v) => v = 0
    BY DEF Says, DelCommand
  <2>2. \A j \in Keys : NotNewer(j, 0)
    BY <1>1, BoundAssumption DEF TypeOK, NotNewer, Versions
  <2> QED
    BY Zenon, <2>1, <2>2 DEF Fits, Below
<1>10. UNCHANGED <<mval, ver, sval, slave>>
  BY Zenon DEF StartItem, dbVars, slaveVars
<1>11. ASSUME NEW m \in Commands, Fits(m.pairs), SendCommand(m) PROVE Ordered'
  <2>1. mt'.pc = "sent" /\ conn' = SendToSlave(mt.cur, m)
    BY Zenon, <1>1, <1>11 DEF SendCommand, MasterThreads
  <2>2. Line' = Line \/ Line' = Append(Line, m)
    BY Zenon, <1>1, <1>10, <2>1, SendLine
  <2>3. CASE Line' = Line
    <3>1. Part(Line', Line)
      BY Zenon, <1>1, <2>3, LineType, WholePart DEF Line, TypeOK
    <3>2. mt'.pc # "item"
      BY Zenon, <2>1
    <3> QED
      BY Zenon, <1>1, <1>10, <3>1, <3>2, DbSame, PartOrdered
  <2>4. CASE Line' = Append(Line, m)
    <3>1. mt'.pc # "item"
      BY Zenon, <2>1
    <3> QED
      BY Zenon, <1>1, <1>10, <1>11, <2>4, <3>1, JoinOrdered
  <2> QED
    BY Zenon, <2>2, <2>3, <2>4
<1>12. ASSUME mt' = [mt EXCEPT !.i = @ + 1, !.out = pairs], conn' = conn PROVE Ordered'
  <2>1. mt'.out = pairs
    BY Zenon, <1>1, <1>12 DEF MasterThreads
  <2>2. Part(Line', Line)
    BY Zenon, <1>1, <1>10, <1>12, LineType, WholePart DEF Line, TypeOK
  <2> QED
    BY Zenon, <1>1, <1>5, <1>10, <2>1, <2>2, DbSame, PartOrdered
<1>13. \/ mt' = [mt EXCEPT !.i = @ + 1, !.out = pairs] /\ conn' = conn
       \/ SendCommand(Put(pairs)) \/ SendCommand(Put(mt.out)) \/ SendCommand(DelCommand(k))
  BY Zenon DEF StartItem, pairs, k
<1> QED
  BY Zenon, <1>7, <1>8, <1>9, <1>11, <1>12, <1>13

(* A command that is executed was the first of the line: the slave gets a  *)
(* version that is not older, and everything behind it is not older still. *)
LEMMA AppliedSays ==
  ASSUME NEW pairs \in Seq(Pairs), NEW k \in Keys
  PROVE  LastValue(pairs, k) = sval[k] \/ Says(pairs, k, LastValue(pairs, k))
<1> DEFINE last == {i \in 1 .. Len(pairs) :
                      /\ pairs[i].key = k
                      /\ \A j \in i + 1 .. Len(pairs) : pairs[j].key # k}
<1>1. CASE last = {}
  BY Zenon, <1>1 DEF LastValue
<1>2. CASE last # {}
  <2>1. (CHOOSE i \in last : TRUE) \in last
    BY Zenon, <1>2
  <2>2. LastValue(pairs, k) = pairs[CHOOSE i \in last : TRUE].val
    BY Zenon, <1>2 DEF LastValue
  <2> QED
    BY Zenon, <2>1, <2>2 DEF Says
<1> QED
  BY Zenon, <1>1, <1>2

LEMMA SlaveExecuteOrdered ==
  ASSUME Inv, TypeOK', Ordered, NEW c \in Conns, SlaveExecute(c)
  PROVE  /\ Ordered'
         /\ \A k \in Keys : sval[k] # 0 /\ sval'[k] # 0 => sval'[k] >= sval[k]
<1>1. PICK n \in 1 .. Len(conn[c].toS) :
        /\ conn' = Reads(c, n)
        /\ sval' = sval \/ sval' = Applied(Head(conn[c].toS).pairs)
  BY Zenon DEF SlaveExecute
<1>2. slave.conn = c /\ c # NoConn /\ UNCHANGED <<mval, ver, mt>> /\ TypeOK
  <2>1. c # NoConn
    BY DEF Conns, NoConn
  <2> QED
    BY Zenon, <2>1 DEF SlaveExecute, CanRead, dbVars, Inv
<1>3. slave'.conn = slave.conn
  BY Zenon, <1>2 DEF SlaveExecute, TypeOK, SlaveRecs
<1>4. /\ Line \in Seq(Commands) /\ Line = conn[c].toS
      /\ Line' \in Seq(Commands) /\ Line' = Dropping(n, Line) /\ Part(Line', Line)
  <2>1. Line = conn[c].toS
    BY Zenon, <1>2 DEF Line, LineOf
  <2>2. Part(Line', Line) /\ conn'[c].toS = Dropping(n, conn[c].toS)
    BY Zenon, <1>1, <1>2, <1>3, ReadsLine
  <2>3. Line' = conn'[c].toS
    BY Zenon, <1>2, <1>3 DEF Line, LineOf
  <2>4. Line \in Seq(Commands) /\ Line' \in Seq(Commands)
    BY Zenon, <1>2, LineType DEF Line, LineOf, TypeOK
  <2> QED
    BY Zenon, <2>1, <2>2, <2>3, <2>4
<1>5. CASE sval' = sval
  <2>1. Ordered'
    BY Zenon, <1>2, <1>4, <1>5, DbSame, FitsKept, PartOrdered
  <2>2. \A k \in Keys : sval[k] \in Nat
    BY <1>2, BoundAssumption DEF TypeOK, Versions
  <2> QED
    BY <1>5, <2>1, <2>2
<1>6. CASE sval' = Applied(Head(conn[c].toS).pairs)
  <2> DEFINE pairs == Line[1].pairs
  <2>1. 1 \in 1 .. Len(Line) /\ pairs \in Seq(Pairs) /\ Head(conn[c].toS).pairs = pairs
    <3>1. 1 \in 1 .. Len(Line) /\ Line[1] \in Commands /\ Head(Line) = Line[1]
      BY <1>1, <1>4
    <3>2. Line[1].pairs \in Seq(Pairs)
      BY Zenon, <3>1 DEF Commands
    <3> QED
      BY Zenon, <1>4, <3>1, <3>2
  <2> HIDE DEF pairs
  <2>2. \A k \in Keys : sval'[k] = sval[k] \/ Says(pairs, k, sval'[k])
    BY Zenon, <1>6, <2>1, AppliedSays DEF Applied
  <2>3. \A k \in Keys : sval'[k] \in Versions /\ sval[k] \in Versions
    BY Zenon, <1>2 DEF TypeOK
  <2>4. \A v \in Versions : v \in Nat
    BY BoundAssumption DEF Versions
  <2>5. \A k \in Keys : Says(pairs, k, sval'[k]) /\ sval'[k] # 0 => sval[k] <= sval'[k]
    BY Zenon, <2>1, <2>3 DEF Ordered, InOrder, pairs
  <2>6. \A k \in Keys : sval[k] # 0 /\ sval'[k] # 0 => sval'[k] >= sval[k]
    BY <2>2, <2>3, <2>4, <2>5
  <2>7. n \in Nat /\ \A i \in 1 .. Len(Line') : /\ i + n \in 1 .. Len(Line) /\ 1 < i + n
                                                /\ Line'[i] = Line[i + n]
    BY <1>1, <1>4 DEF Dropping
  <2>8. InOrder(Line', sval)
    BY Zenon, <1>4, PartInOrder DEF Ordered
  <2>9. InOrder(Line', sval')
    <3>1. ASSUME NEW i \in 1 .. Len(Line'), NEW k \in Keys, NEW v \in Versions,
                 Says(Line'[i].pairs, k, v), v # 0
          PROVE  sval'[k] <= v
      <4>1. CASE sval'[k] = sval[k]
        BY Zenon, <2>8, <3>1, <4>1 DEF InOrder
      <4>2. CASE Says(pairs, k, sval'[k])
        BY Zenon, <2>1, <2>3, <2>7, <3>1, <4>2 DEF Ordered, InOrder, pairs
      <4> QED
        BY Zenon, <2>2, <4>1, <4>2
    <3> QED
      BY Zenon, <2>8, <3>1 DEF InOrder
  <2>10. mt'.pc = "item" => Below(Line', sval', mt'.out)
    <3> SUFFICES ASSUME mt.pc = "item" PROVE Below(Line', sval', mt.out)
      BY Zenon, <1>2
    <3>1. Below(Line, sval, mt.out)
      BY Zenon DEF Ordered
    <3>2. Below(Line', sval, mt.out)
      BY Zenon, <1>4, <3>1, PartBelow
    <3>3. ASSUME NEW k \in Keys, NEW w \in Versions, Says(mt.out, k, w), w # 0
          PROVE  sval'[k] <= w
      <4>1. CASE sval'[k] = sval[k]
        BY Zenon, <3>1, <3>3, <4>1 DEF Below
      <4>2. CASE Says(pairs, k, sval'[k])
        BY Zenon, <2>1, <2>3, <3>1, <3>3, <4>2 DEF Below, pairs
      <4> QED
        BY Zenon, <2>2, <4>1, <4>2
    <3> QED
      BY Zenon, <3>2, <3>3 DEF Below
  <2>11. DbGrows
    BY Zenon, <1>2, DbSame
  <2>12. \A k \in Keys : NotNewer(k, sval'[k])
    <3>1. TAKE k \in Keys
    <3>2. CASE sval'[k] = sval[k]
      BY Zenon, <3>2 DEF Ordered, NoneNewer
    <3>3. CASE Says(pairs, k, sval'[k])
      BY Zenon, <2>1, <2>3, <3>3 DEF Ordered, NoneNewer, pairs
    <3> QED
      BY Zenon, <2>2, <3>2, <3>3
  <2>13. \A k \in Keys : NotNewer(k, sval[k])' /\ mval'[k] <= ver'
    BY Zenon, <2>3, <2>11, <2>12 DEF DbGrows, NotNewer
  <2>14. \A i \in 1 .. Len(Line'), k \in Keys, v \in Versions :
           Says(Line'[i].pairs, k, v) => NotNewer(k, v)'
    BY Zenon, <2>7, <2>11 DEF DbGrows, Ordered, NoneNewer
  <2>15. mt'.pc = "item" => \A k \in Keys, v \in Versions : Says(mt'.out, k, v) => NotNewer(k, v)'
    BY Zenon, <1>2, <2>11 DEF DbGrows, Ordered, NoneNewer
  <2>16. NoneNewer'
    BY Zenon, <2>13, <2>14, <2>15 DEF NoneNewer, Says, NotNewer
  <2>17. InOrder(Line, sval)'
    BY Zenon, <2>9 DEF InOrder, Says
  <2>18. mt'.pc = "item" => Below(Line, sval, mt.out)'
    BY Zenon, <2>10 DEF Below, Says
  <2> QED
    BY Zenon, <2>6, <2>16, <2>17, <2>18 DEF Ordered
<1> QED
  BY Zenon, <1>1, <1>5, <1>6
-----------------------------------------------------------------------------
LEMMA InitOrdered == Init => Ordered
<1> SUFFICES ASSUME Init PROVE Ordered
  BY Zenon
<1>1. Line = <<>>
  BY Zenon DEF Init, Line, LineOf
<1>2. ver = 1 /\ \A k \in Keys : mval[k] \in {0, 1} /\ sval[k] \in {0, mval[k]}
  BY Zenon DEF Init
<1>3. mt.pc # "item"
  BY Zenon DEF Init, IdleThread
<1>4. InOrder(Line, sval)
  BY <1>1 DEF InOrder
<1>5. NoneNewer
  <2>1. \A k \in Keys : sval[k] <= ver /\ mval[k] <= ver /\ (mval[k] # 0 => sval[k] <= mval[k])
    BY <1>2
  <2>2. \A i \in 1 .. Len(Line) : FALSE
    BY <1>1
  <2> QED
    BY Zenon, <1>3, <2>1, <2>2 DEF NoneNewer, NotNewer
<1> QED
  BY Zenon, <1>3, <1>4, <1>5 DEF Ordered

LEMMA NextOrdered ==
  ASSUME Inv, Inv', Ordered, [Next]_vars
  PROVE  /\ Ordered'
         /\ \A k \in Keys : sval[k] # 0 /\ sval'[k] # 0 => sval'[k] >= sval[k]
<1>1. TypeOK /\ TypeOK'
  BY Zenon DEF Inv
<1>2. \A k \in Keys : sval[k] \in Nat
  BY <1>1, BoundAssumption DEF TypeOK, Versions
<1>3. ASSUME NEW c \in Conns, SlaveExecute(c)
      PROVE  /\ Ordered'
             /\ \A k \in Keys : sval[k] # 0 /\ sval'[k] # 0 => sval'[k] >= sval[k]
  BY Zenon, <1>1, <1>3, SlaveExecuteOrdered
<1>4. ASSUME sval' = sval
      PROVE  \A k \in Keys : sval[k] # 0 /\ sval'[k] # 0 => sval'[k] >= sval[k]
  BY <1>2, <1>4
<1>5. CASE Client
  <2>1. DbGrows
    <3>1. \/ UNCHANGED <<mval, ver>>
          \/ \E w \in Workers : DelExecute(w)
          \/ \E w \in Workers, K \in SUBSET Keys, e \in {"none", "live"} : ClientWrite(w, K, e)
      BY Zenon, <1>1, <1>5, ClientAside
    <3>2. CASE UNCHANGED <<mval, ver>>
      BY Zenon, <3>2, DbSame
    <3>3. ASSUME NEW w \in Workers, DelExecute(w) PROVE DbGrows
      BY Zenon, <1>1, <3>3, DbDeleted
    <3>4. ASSUME NEW w \in Workers, NEW K \in SUBSET Keys, NEW e, ClientWrite(w, K, e)
          PROVE  DbGrows
      BY Zenon, <1>1, <3>4, DbWritten
    <3> QED
      BY Zenon, <3>1, <3>2, <3>3, <3>4
  <2>2. Aside
    BY Zenon, <1>1, <1>5, ClientAside
  <2> QED
    BY Zenon, <1>1, <1>4, <2>1, <2>2, AsideOrdered DEF Aside
<1>6. CASE MasterThread
  <2>1. ASSUME MasterHandle \/ StartData \/ FrontNums \/ MasterFinish
        PROVE  Ordered' /\ sval' = sval
    BY Zenon, <1>1, <2>1, MasterAside, DbSame, AsideOrdered DEF Aside
  <2>2. ASSUME StartReply \/ StartItem PROVE Ordered' /\ sval' = sval
    BY Zenon, <1>1, <2>2, StartReplyOrdered, StartItemOrdered
       DEF StartReply, StartItem, slaveVars
  <2> QED
    BY Zenon, <1>4, <1>6, <2>1, <2>2 DEF MasterThread
<1>7. CASE SlaveTick
  <2>1. ASSUME SlaveAsk \/ SlaveTimeout PROVE Ordered' /\ sval' = sval
    BY Zenon, <1>1, <2>1, AskAside, DbSame, AsideOrdered DEF Aside
  <2>2. ASSUME SlaveLink \/ SlaveLinkFails PROVE Ordered' /\ sval' = sval
    BY Zenon, <1>1, <2>2, LinkOrdered DEF SlaveLink, SlaveLinkFails
  <2> QED
    BY Zenon, <1>4, <1>7, <2>1, <2>2 DEF SlaveTick
<1>8. ASSUME NEW c \in Conns, MasterWorker(c) PROVE Ordered' /\ sval' = sval
  <2>1. ASSUME RepComplete(c) \/ RepCreate(c) \/ RepPublish(c) \/ MasterDestruct(c)
        PROVE  Ordered' /\ sval' = sval
    BY Zenon, <1>1, <2>1, WorkerAside, DbSame, AsideOrdered DEF Aside
  <2>2. ASSUME RepParser(c) PROVE Ordered' /\ sval' = sval
    BY Zenon, <1>1, <2>2, RepParserOrdered DEF RepParser, slaveVars
  <2> QED
    BY Zenon, <1>8, <2>1, <2>2 DEF MasterWorker
<1>9. ASSUME NEW c \in Conns, Break(c) \/ SlaveExecuteFails(c) \/ SlaveReplyCommand(c)
      PROVE  Ordered' /\ sval' = sval
  BY Zenon, <1>1, <1>9, CutOrdered DEF Break, SlaveExecuteFails, SlaveReplyCommand, slaveVars
<1>10. ASSUME NEW c \in Conns, SlaveWrite(c) PROVE Ordered' /\ sval' = sval
  BY Zenon, <1>1, <1>10, WorkerAside, DbSame, AsideOrdered DEF Aside
<1>11. ASSUME NEW c \in Conns, SlaveDestruct(c) PROVE Ordered' /\ sval' = sval
  BY Zenon, <1>1, <1>11, LinkOrdered DEF SlaveDestruct
<1>12. CASE UNCHANGED vars
  <2>1. Aside /\ UNCHANGED <<mval, ver>>
    BY Zenon, <1>12 DEF Aside, vars
  <2> QED
    BY Zenon, <1>1, <1>4, <2>1, DbSame, AsideOrdered DEF Aside
<1> QED
  BY ZenonT(40), <1>3, <1>4, <1>5, <1>6, <1>7, <1>8, <1>9, <1>10, <1>11, <1>12
     DEF Next, SlaveEvent

(***************************************************************************)
(* The slave never goes back to an older version of a key, for any number  *)
(* of keys, workers, connections, timeouts, breaks and failed writes:      *)
(* Start reads the current value when it builds a command (gent_repl.cpp), *)
(* one thread builds them, and the slave drops commands but never reads    *)
(* one out of order or from a connection it has left.                      *)
(***************************************************************************)
THEOREM SlaveNeverGoesBack == Spec => SlaveMonotone
<1>1. Inv /\ Inv' /\ Ordered /\ [Next]_vars => Ordered'
  BY Zenon, NextOrdered
<1>2. Inv /\ Inv' /\ Ordered /\ [Next]_vars =>
        [\A k \in Keys : sval[k] # 0 /\ sval'[k] # 0 => sval'[k] >= sval[k]]_vars
  BY Zenon, NextOrdered
<1> QED
  BY <1>1, <1>2, InitOrdered, Invariant, PTL DEF Spec, SlaveMonotone
-----------------------------------------------------------------------------
(* A slave that is loaded has everything, or its queue has every key.      *)
LEMMA InitLoss ==
  ASSUME Init, Inv
  PROVE  LossInv
<1>1. Protocol
  <2>1. \A d \in Conns : ~conn[d].open
    BY Zenon DEF Init, NeverConnected
  <2>2. mt.pc = "idle"
    BY Zenon DEF Init, IdleThread
  <2>3. slave.conn = NoConn /\ slave.links = 0
    BY Zenon DEF Init
  <2> QED
    BY Zenon, <2>1, <2>2, <2>3 DEF Init, Protocol, OneConnection
<1>2. mt.pc # "item" /\ Carried = <<>>
  BY Zenon DEF Init, IdleThread, Carried
<1>3. \A s, k : Final(s, Carried, k) = s[k]
  BY Zenon, <1>2, LastOfNone
<1>4. Preload \in SUBSET Keys
  BY Zenon, KeysAssumption
<1>5. Made <=> registered
  BY Zenon DEF Init, Made
<1>6. Len(<<>>) = 0 /\ 1 .. 0 = {}
  OBVIOUS
<1>7. que \in Seq(Items) /\ main_que = <<>>
  BY Zenon DEF Init, Inv, TypeOK
<1>8. \A k \in Keys : mval[k] = IF k \in Preload THEN 1 ELSE 0
  BY Zenon DEF Init
<1>9. CASE registered /\ que \in Snapshot(Preload) /\ is_update_que = TRUE
             /\ sval = [k \in Keys |-> 0]
  <2>1. /\ \A i \in 1 .. Len(que) : que[i].type = "ADD" /\ ~que[i].is_sync
        /\ \A k \in Preload : \E i \in 1 .. Len(que) : que[i].key = k /\ ~que[i].is_sync
    BY Zenon, <1>4, <1>9, SnapshotItems
  <2>2. \A k \in Keys : Unsent(k) \/ sval[k] = mval[k]
    BY Zenon, <1>8, <1>9, <2>1 DEF Unsent, Holds
  <2>3. Covered
    BY Zenon, <1>3, <1>5, <1>9, <2>2 DEF Covered, Right
  <2>4. \A i \in 1 .. Len(que) : ~(i <= 0)
    BY <1>7
  <2>5. SyncBelow(que, 0) /\ SyncBelow(main_que, 0)
    BY Zenon, <1>6, <1>7, <2>1, <2>4 DEF SyncBelow
  <2>6. 0 \in 0 .. SyncNum /\ 0 <= Len(que)
    BY <1>7, SyncNumAssumption
  <2>7. Marked
    BY Zenon, <1>2, <1>9, <2>5, <2>6 DEF Marked, Served, Waiting
  <2>8. Deletions
    BY Zenon, <1>6, <1>7, <2>1 DEF Deletions, Init, NoTodo
  <2> QED
    BY Zenon, <1>1, <2>3, <2>7, <2>8 DEF LossInv
<1>10. CASE que = <<>> /\ sval = IF registered THEN mval ELSE [k \in Keys |-> 0]
  <2>1. Covered
    BY Zenon, <1>3, <1>5, <1>10 DEF Covered, Right
  <2>2. SyncBelow(que, 0) /\ SyncBelow(main_que, 0)
    BY Zenon, <1>6, <1>7, <1>10 DEF SyncBelow
  <2>3. 0 \in 0 .. SyncNum /\ 0 <= Len(<<>>)
    BY SyncNumAssumption
  <2>4. Marked
    BY Zenon, <1>2, <1>7, <1>10, <2>2, <2>3 DEF Marked, Served, Waiting
  <2>5. Deletions
    BY Zenon, <1>6, <1>7, <1>10 DEF Deletions, Init, NoTodo
  <2> QED
    BY Zenon, <1>1, <2>1, <2>4, <2>5 DEF LossInv
<1> QED
  BY Zenon, <1>9, <1>10 DEF Init

(* The invariant gives the property.                                       *)
LEMMA NothingLost ==
  ASSUME Inv, LossInv
  PROVE  LossNeedsFault
<1> SUFFICES ASSUME faults = {}, registered, NEW k \in Keys, ~Agree(k), ~Queued(k)
             PROVE  InFlight(k)
  BY Zenon DEF LossNeedsFault, NoLostUpdate
<1>1. ~Unsent(k)
  BY Zenon DEF Unsent, Queued, Holds
<1>2. Right(k, Final(sval, Carried, k))
  BY Zenon, <1>1 DEF LossInv, Covered, Made
<1>3. Final(sval, Carried, k) # sval[k]
  BY Zenon, <1>2 DEF Right, Agree
<1>4. PICK l \in 1 .. Len(Carried) : Carried[l].key = k
  BY Zenon, <1>3 DEF Final
<1>5. mt.pc # "item"
  <2> SUFFICES ASSUME mt.pc = "item" PROVE FALSE
    BY Zenon
  <2>1. PICK q : q = Served
    BY Zenon
  <2>2. /\ mt.i \in 1 .. mt.n /\ mt.n <= Len(q) /\ Len(mt.out) = mt.i - 1
        /\ \A j \in 1 .. mt.i - 1 : q[j].key = mt.out[j].key
    BY Zenon, <2>1 DEF Inv, BatchStays, Served
  <2>3. l \in 1 .. mt.i - 1 /\ mt.out[l].key = k
    BY Zenon, <1>4, <2>2 DEF Carried
  <2>4. mt.n \in Nat /\ q \in Seq(Items)
    BY Zenon, <2>1 DEF Inv, TypeOK, MasterThreads, Served
  <2>5. l \in 1 .. Len(q)
    BY <2>2, <2>3, <2>4
  <2>6. q[l].key = k
    BY Zenon, <2>2, <2>3
  <2> QED
    BY Zenon, <2>1, <2>5, <2>6 DEF Queued, Served
<1>6. Len(<<>>) = 0 /\ 1 .. 0 = {}
  OBVIOUS
<1>7. Carried # <<>>
  BY Zenon, <1>4, <1>6
<1>8. /\ slave.conn # NoConn /\ conn[slave.conn].toS # <<>>
      /\ Carried = Head(conn[slave.conn].toS).pairs
  BY Zenon, <1>5, <1>7 DEF Carried
<1>9. slave.conn \in Conns /\ conn[slave.conn].toS \in Seq(Commands)
  BY Zenon, <1>8 DEF Inv, TypeOK, SlaveRecs, ConnRecs
<1>10. PICK t : t = conn[slave.conn].toS
  BY Zenon
<1>11. t \in Seq(Commands) /\ t # <<>> /\ Carried = Head(t).pairs
  BY Zenon, <1>8, <1>9, <1>10
<1>12. 1 \in 1 .. Len(t) /\ Head(t) = t[1]
  BY <1>11
<1> QED
  BY Zenon, <1>4, <1>9, <1>10, <1>11, <1>12 DEF InFlight

(***************************************************************************)
(* Updates are lost only after a fault, for any number of keys, workers    *)
(* and client commands and every SYNC_NUM: as long as no push falls into   *)
(* the construction of the object, no wake-up is acted upon twice, no      *)
(* timer fires, no connection breaks, no write fails and no deletion is    *)
(* overtaken, Start (gent_repl.cpp) deletes an item only when the slave    *)
(* has executed the command that carries it.                               *)
(***************************************************************************)
THEOREM LossOnlyAfterFault == Spec => []LossNeedsFault
<1>1. Inv /\ Init => LossInv
  BY Zenon, InitLoss
<1>2. Inv /\ Inv' /\ LossInv /\ [Next]_vars => LossInv'
  BY Zenon, LossKept
<1>3. Inv /\ LossInv => LossNeedsFault
  BY Zenon, NothingLost
<1> QED
  BY <1>1, <1>2, <1>3, Invariant, PTL DEF Spec
=============================================================================
