------------------------------ MODULE Connect ------------------------------
(***************************************************************************)
(* A client's connection: GentConnect::TryRunning with its reads and       *)
(* writes, GentRedis::Process on what was read, and the event loop that    *)
(* calls it.  TCP delivers the client's bytes in pieces of any size.       *)
(*                                                                         *)
(* TryRunning runs in one thread.  Each turn of its loop is a step, since  *)
(* bytes arrive in between.  The client sends a command at a time and      *)
(* waits for the answer.  No auth is configured.                           *)
(***************************************************************************)
EXTENDS RedisParser

CONSTANTS
  Commands,         \* the commands of the client: [op, pairs]
  READ_BUFFER_SIZE, \* symbols in a fresh buffer
  ReplySize,        \* bytes of an answer, as far as send splits it
  MaxCommands       \* bound: commands the client sends

ASSUME CommandsAssumption ==
  \A m \in Commands :
    /\ m.op \in {"set", "mset", "ping"}
    /\ m.op = "set" => Len(m.pairs) = 1
    /\ m.op = "mset" => Len(m.pairs) \in 1 .. 4   \* one digit of fields
ASSUME BufferAssumption ==
  {READ_BUFFER_SIZE, ReplySize} \subseteq Nat \ {0} /\ MaxCommands \in Nat

VARIABLES
  wire,     \* bytes the client has sent that were not read
  closed,   \* the client has closed the connection
  asked,    \* the command the client waits for, or NoCommand
  sent,     \* number of commands sent
  conn,     \* the members of GentConnect
  redis,    \* the members of GentRedis
  db,       \* the database
  known,    \* history: the database by the answers the client has got
  cut,      \* history: reads that ended inside a header or a line end
  odd       \* history: refusals, and answers nobody waits for

vars == <<wire, closed, asked, sent, conn, redis, db, known, cut, odd>>
client == <<asked, sent, closed>>
-----------------------------------------------------------------------------
NoCommand == [op |-> "none", pairs |-> <<>>]

(* The command as the client writes it.                                    *)
Line(s) == s \o <<CR, LF>>
Field(s) == Line(<<Dollar(Len(s))>>) \o Line(s)
Fields(ss) ==
  LET upto[i \in 0 .. Len(ss)] ==
        IF i = 0 THEN <<>>
        ELSE upto[i - 1] \o Field(ss[i][1]) \o Field(ss[i][2])
  IN  upto[Len(ss)]
Bytes(m) ==
  Line(<<Star, Number(2 * Len(m.pairs) + 1)>>)
    \o Line(<<Dollar(IF m.op = "set" THEN 3 ELSE 4)>>) \o Line(<<Word(m.op)>>) \o Fields(m.pairs)
(* What may come in a later read than the beginning: the value of a set,   *)
(* the pairs of an mset, the line feed of a ping.                          *)
Body(m) ==
  CASE m.op = "set" -> Line(m.pairs[1][2])
    [] m.op = "mset" -> Fields(m.pairs)
    [] OTHER -> <<LF>>

(* The database after the command.                                         *)
Executed(d, m) ==
  LET after[i \in 0 .. Len(m.pairs)] ==
        IF i = 0 THEN d ELSE With(after[i - 1], m.pairs[i][1], m.pairs[i][2])
  IN  after[Len(m.pairs)]
Merge(d, kv) ==
  [k \in DOMAIN d \cup DOMAIN kv |-> IF k \in DOMAIN kv THEN kv[k] ELSE d[k]]
-----------------------------------------------------------------------------
Statuses == {"CONN_READ", "CONN_NREAD", "CONN_WRITE", "CONN_WAIT",
             "CONN_CLOSE", "CONN_DATA", "CONN_CONREAD",
             "DESTRUCTED",   \* returned to the pool
             "ABORTED"}      \* std::out_of_range ended the process
Answers == {"", "+OK", "+PONG", "-ERR unknown", "-ERR NOT_STORED"}
Symbols == Seq(STRING \X Nat)

TypeOK ==
  /\ wire \in Symbols
  /\ closed \in BOOLEAN /\ sent \in 0 .. MaxCommands
  /\ asked \in Commands \cup {NoCommand}
  /\ conn \in [curstatus : Statuses, ev_flags : {"read", "write"},
               running : BOOLEAN,       \* inside TryRunning
               rbuf : Symbols,          \* rbuf up to rbytes, while it is used
               rsize : Nat, csize : Nat,\* csize is 0 without a cbuf
               content : Symbols, remainsize : Nat,
               outstr : Answers, sendsize : 0 .. ReplySize]
  /\ redis.subc \in {"", "set", "mset", "ping"}
  /\ {redis.rlbytes, redis.mdata.setNum} \subseteq Nat
  /\ cut \subseteq {"header", "line end"}
  /\ odd \subseteq {"refused", "extra"}

Init ==
  /\ wire = <<>> /\ closed = FALSE
  /\ asked = NoCommand /\ sent = 0
  /\ conn = [curstatus |-> "CONN_READ", ev_flags |-> "read",
             running |-> FALSE, rbuf |-> <<>>, rsize |-> READ_BUFFER_SIZE,
             csize |-> 0, content |-> <<>>, remainsize |-> 0, outstr |-> "",
             sendsize |-> 0]
  /\ redis = [subc |-> "", keystr |-> <<>>, content |-> <<>>, rlbytes |-> 0,
              mdata |-> MsetInit]
  /\ db = NoPairs /\ known = NoPairs
  /\ cut = {} /\ odd = {}
-----------------------------------------------------------------------------
(* The client.  After a refusal it asks no more.                           *)
Ask(m) ==
  /\ asked = NoCommand /\ ~closed /\ odd = {} /\ sent < MaxCommands
  /\ asked' = m
  /\ sent' = sent + 1
  /\ wire' = wire \o Bytes(m)
  /\ UNCHANGED <<closed, conn, redis, db, known, cut, odd>>

(* The connection ends.  What was sent is read first, or what was not read *)
(* yet is lost: since a read may take any part of it, that leaves every    *)
(* beginning of a command.                                                 *)
Close ==
  /\ ~closed
  /\ closed' = TRUE
  /\ wire' \in {wire, <<>>}
  /\ UNCHANGED <<asked, sent, conn, redis, db, known, cut, odd>>

Eof == closed /\ wire = <<>>
(* read(fd, buf, avail) returns n bytes: TCP has delivered that many, or   *)
(* there is room for no more.  With n = 0 it fails with EAGAIN.            *)
CanRead(n, avail) == n <= Len(wire) /\ n <= avail
-----------------------------------------------------------------------------
(* GentEvent::Handle, called by libevent for a descriptor that is ready.   *)
Alive == conn.curstatus \notin {"DESTRUCTED", "ABORTED"}
Handle ==
  /\ Alive /\ ~conn.running
  /\ conn.ev_flags = "read" => wire # <<>> \/ closed
  /\ conn' = [conn EXCEPT !.running = TRUE, !.rbuf = <<>>]
  /\ UNCHANGED <<wire, client, redis, db, known, cut, odd>>

At(status) == conn.running /\ conn.curstatus = status

(* Reset and ReAllocation; then UpdateEvent and the return of TryRunning.  *)
Reset(c) == [c EXCEPT !.content = <<>>, !.csize = 0]
Return(c, ev) == [c EXCEPT !.running = FALSE, !.rbuf = <<>>, !.ev_flags = ev]
Destructed == [Reset(conn) EXCEPT !.curstatus = "DESTRUCTED", !.rbuf = <<>>,
                                  !.running = FALSE]

(* The loops of InitRead and ContinueRead: the buffer doubles at most four *)
(* times.  At the end of the stream they fail, also when they have just    *)
(* filled the buffer and read again.                                       *)
Room(size, have) == 16 * size - have
Grown(size, n) ==
  LET fits == {k \in 0 .. 4 : size * 2 ^ k > n}
  IN  size * 2 ^ (IF fits = {} THEN 4 ELSE Min(fits))
ReadFails(size, have, n) ==
  /\ closed /\ n = Len(wire)
  /\ n = 0 \/ have + n \in {size * 2 ^ k : k \in 0 .. 3}
-----------------------------------------------------------------------------
(* The parsers' result: the members of GentRedis, the status they set and  *)
(* the value they return.  substr throws when a read ends between the two  *)
(* bytes of the last line end of a header.                                 *)
Result(r, status, ret) == [redis |-> r, status |-> status, ret |-> ret]
Refused(r) == Result(r, "CONN_WRITE", ERROR)
Thrown(r) == Result(r, "ABORTED", 0)

SetValue(r, len, got) ==
  Result([r EXCEPT !.rlbytes = len, !.content = SubStr(got, 0, len)],
         "CONN_NREAD", len - Min({len, Len(got)}))
SetHeader(data, tokens, r, pos) ==
  CASE pos = NPOS -> Refused(r)
    [] pos > Len(data) -> Thrown(r)
    [] OTHER -> SetValue(r, GetLength(tokens[6]), From(data, pos))
SetParser(data, tokens) ==
  IF Len(tokens) < 5 THEN Refused([redis EXCEPT !.subc = "set"])
  ELSE SetHeader(data, tokens,
         [redis EXCEPT !.subc = "set",
                       !.keystr = SubStr(tokens[5], 0, GetLength(tokens[4]))],
         AfterLines(data,
           FindFirstOf(data, {Star, Number(3), Dollar(3)}, 0), 6))

MsetItems(r, p) ==
  Result([r EXCEPT !.mdata = p.m],
         IF p.ret = MGET_REQ THEN "CONN_CONREAD" ELSE "CONN_NREAD", p.ret)
MsetHeader(data, r, pos) ==
  CASE pos = NPOS -> Refused(r)
    [] pos > Len(data) -> Thrown(r)
    [] OTHER -> MsetItems(r, ItemParser(From(data, pos), r.mdata))
MsetParser(data, tokens) ==
  LET fieldNum == GetLength(tokens[1])
  IN  IF (fieldNum - 1) % 2 # 0 THEN Refused([redis EXCEPT !.subc = "mset"])
      ELSE MsetHeader(data,
             [redis EXCEPT !.subc = "mset",
                           !.mdata.setNum = (fieldNum - 1) \div 2],
             AfterLines(data, FindFirstOf(data, {tokens[1][1]}, 0), 3))

(* GentRedis::ParseCommand.  Nothing but line ends is no command.          *)
AlwaysCommand(tokens) == FALSE  \* a mutant: line ends are an unknown command
NoTokens(tokens) == tokens = <<>>
Execute(data, tokens) ==
  LET Is(op) == Len(tokens) >= 3 /\ tokens[3] = <<Word(op)>>
  IN  CASE NoTokens(tokens) -> Result(redis, conn.curstatus, 0)
        [] Is("set") -> SetParser(data, tokens)
        [] Is("mset") -> MsetParser(data, tokens)
        [] Is("ping") -> Result([redis EXCEPT !.subc = "ping"], "CONN_DATA", 0)
        [] OTHER -> Refused(redis)
ParseCommand(data) == Execute(data, Split(data))
-----------------------------------------------------------------------------
(* What a read left out of the command the client waits for.               *)
CutBy(data) ==
  LET text == {p \in DOMAIN data : data[p] \notin {CR, LF}}
      n == IF text = {} THEN 0 ELSE Len(data) - Min(text) + 1
  IN  (IF n \in 1 .. Len(Bytes(asked)) - Len(Body(asked)) - 1
         THEN {"header"} ELSE {})
      \cup (IF data[1] = LF /\ n > 0 THEN {"line end"} ELSE {})

(* case CONN_READ.  remainsize counts only for a set: what an mset leaves  *)
(* in it is not looked at before CONN_WAIT sets it to 0.                   *)
Process(data, p) ==
  LET c == [conn EXCEPT
              !.curstatus = p.status,
              !.rbuf = IF p.status = "CONN_READ" THEN data ELSE <<>>,
              !.rsize = Grown(conn.rsize, Len(data)),
              !.remainsize = IF p.ret > 0 THEN p.ret ELSE 0,
              !.outstr = IF p.ret = ERROR THEN "-ERR unknown" ELSE ""]
  IN  /\ redis' = p.redis
      /\ conn' = CASE p.ret = ERROR -> Return(Reset(c), "write")
                   [] p.status = "ABORTED" -> [c EXCEPT !.running = FALSE]
                   [] OTHER -> c
      /\ cut' = cut \cup CutBy(data)

ReadCase(n) ==
  LET data == conn.rbuf \o SubSeq(wire, 1, n)
  IN  /\ At("CONN_READ")
      /\ CanRead(n, Room(conn.rsize, Len(conn.rbuf)))
      /\ \/ /\ ReadFails(conn.rsize, Len(conn.rbuf), n)
            /\ conn' = Destructed
            /\ UNCHANGED <<redis, cut>>
         \/ /\ n = 0 /\ ~Eof
            /\ conn' = [conn EXCEPT !.curstatus = "CONN_WAIT", !.outstr = ""]
            /\ UNCHANGED <<redis, cut>>
         \/ /\ n > 0
            /\ \E p \in {ParseCommand(data)} : Process(data, p)
      /\ wire' = From(wire, n)
      /\ UNCHANGED <<client, db, known, odd>>

(* case CONN_NREAD and NextRead: the rest of the value of a set.           *)
NextRoom(c) == c.remainsize
NReadCase(n) ==
  /\ At("CONN_NREAD")
  /\ CanRead(n, NextRoom(conn))
  /\ \/ /\ conn.remainsize = 0
        /\ conn' = [conn EXCEPT !.curstatus = "CONN_DATA"]
     \/ /\ conn.remainsize > 0 /\ n > 0
        /\ conn' = [conn EXCEPT !.content = @ \o SubSeq(wire, 1, n),
                                !.remainsize = @ - n]
     \/ /\ conn.remainsize > 0 /\ n = 0 /\ Eof
        /\ conn' = [conn EXCEPT !.curstatus = "CONN_CLOSE"]
     \/ /\ conn.remainsize > 0 /\ n = 0 /\ ~Eof
        /\ conn' = Return(conn, "read")
  /\ wire' = From(wire, n)
  /\ UNCHANGED <<client, redis, db, known, cut, odd>>

(* case CONN_CONREAD and ContinueRead: the rest of an mset.                *)
ConReadCase(n) ==
  LET size == IF conn.csize = 0 THEN READ_BUFFER_SIZE ELSE conn.csize
  IN  /\ At("CONN_CONREAD")
      /\ CanRead(n, Room(size, 0))
      /\ \/ /\ ReadFails(size, 0, n)
            /\ conn' = Destructed
            /\ UNCHANGED redis
         \/ /\ n = 0 /\ ~Eof
            /\ conn' = Return([conn EXCEPT !.csize = size], "read")
            /\ UNCHANGED redis
         \/ /\ n > 0
            /\ \E p \in {ContinueParser(redis.mdata, SubSeq(wire, 1, n))} :
                 /\ redis' = [redis EXCEPT !.mdata = p.m]
                 /\ conn' = IF p.ret = 0
                              THEN [conn EXCEPT !.curstatus = "CONN_DATA",
                                                !.csize = 0]
                              ELSE Return([conn EXCEPT
                                             !.csize = Grown(size, n)], "read")
      /\ wire' = From(wire, n)
      /\ UNCHANGED <<client, db, known, cut, odd>>

(* case CONN_DATA: Complete executes the command, or leveldb fails.        *)
DataCase ==
  LET value == SubStr(redis.content \o conn.content, 0, redis.rlbytes)
      Written(d) == CASE redis.subc = "set" -> With(d, redis.keystr, value)
                      [] redis.subc = "mset" -> Merge(d, redis.mdata.keys_values)
                      [] OTHER -> d
  IN  /\ At("CONN_DATA")
      /\ \E stored \in IF redis.subc = "ping" THEN {TRUE} ELSE BOOLEAN :
           /\ db' = IF stored THEN Written(db) ELSE db
           /\ conn' = Return([conn EXCEPT
                        !.curstatus = "CONN_WRITE",
                        !.outstr = CASE ~stored -> "-ERR NOT_STORED"
                                     [] redis.subc = "ping" -> "+PONG"
                                     [] OTHER -> "+OK"], "write")
      /\ redis' = IF redis.subc = "mset"
                    THEN [redis EXCEPT !.mdata.keys_values = NoPairs]
                    ELSE [redis EXCEPT !.content =
                            IF redis.subc = "set" THEN @ \o conn.content ELSE @]
      /\ UNCHANGED <<wire, client, known, cut, odd>>

(* case CONN_WRITE and OutString: send takes n bytes.  When it takes none  *)
(* because the buffer is full or the connection is gone, TryRunning comes  *)
(* back to this case at once.                                              *)
WriteCase(n) ==
  LET size == IF conn.sendsize = 0 THEN ReplySize ELSE conn.sendsize
      done == n = size
      c == [Reset(conn) EXCEPT !.sendsize = size - n]
  IN  /\ At("CONN_WRITE")
      /\ n <= size
      /\ conn' = CASE n = 0 -> [c EXCEPT !.ev_flags = "write"]
                   [] done -> [c EXCEPT !.curstatus = "CONN_WAIT"]
                   [] OTHER -> c
      /\ IF done /\ ~closed
           THEN /\ asked' = NoCommand
                /\ known' = IF conn.outstr = "+OK" THEN Executed(known, asked)
                                                   ELSE known
                /\ odd' = odd
                     \cup (IF asked = NoCommand THEN {"extra"} ELSE {})
                     \cup (IF conn.outstr = "-ERR unknown" THEN {"refused"}
                                                           ELSE {})
           ELSE UNCHANGED <<asked, known, odd>>
      /\ UNCHANGED <<wire, closed, sent, redis, db, cut>>

WaitCase ==
  /\ At("CONN_WAIT")
  /\ conn' = Return([Reset(conn) EXCEPT !.remainsize = 0,
                                        !.curstatus = "CONN_READ"], "read")
  /\ UNCHANGED <<wire, client, redis, db, known, cut, odd>>

CloseCase ==
  /\ At("CONN_CLOSE")
  /\ conn' = Destructed
  /\ UNCHANGED <<wire, client, redis, db, known, cut, odd>>
-----------------------------------------------------------------------------
Read(n) == ReadCase(n) \/ NReadCase(n) \/ ConReadCase(n)
TryRunning ==
  \/ \E n \in 0 .. Len(wire) : Read(n)
  \/ DataCase \/ WaitCase \/ CloseCase

Next ==
  \/ \E m \in Commands : Ask(m)
  \/ Close \/ Handle \/ TryRunning
  \/ \E n \in 0 .. ReplySize : WriteCase(n)

Spec == Init /\ [][Next]_vars
-----------------------------------------------------------------------------
(* However the bytes of set and mset are cut into reads, and wherever the  *)
(* connection ends: what the client was told was stored is in the database *)
(* as it was sent, and of the command under way all or nothing.  Claimed   *)
(* as long as no command was refused: the rest of a refused command is     *)
(* read as further commands, and answers no longer match.                  *)
OkMeansStored ==
  odd = {} => db \in {known, Executed(known, asked)}

(* A command is refused only when a read ended inside its header, or when  *)
(* the line end of the command before was split and left a lone line feed  *)
(* (Split takes it for two bytes).  The process aborts only when a read    *)
(* ended inside a header.                                                  *)
RefusalNeedsCut ==
  /\ "refused" \in odd => cut # {}
  /\ conn.curstatus = "ABORTED" => "header" \in cut

(* A line end that is left over from a set is not answered: as long as no  *)
(* header was cut there is one answer to a command.                        *)
OneAnswerEach == "extra" \in odd => cut # {}

(* The connection does not fall asleep on a command: when the event loop   *)
(* waits for more bytes and all the client has sent were read, the client  *)
(* has its answer.  TryRunning has then left no piece of a set or an mset  *)
(* in a buffer, and no answer without asking for the write event.          *)
NoStall ==
  ~conn.running /\ Alive /\ conn.ev_flags = "read" /\ wire = <<>> /\ ~closed
    => asked = NoCommand \/ cut # {}
=============================================================================
