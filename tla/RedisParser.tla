---------------------------- MODULE RedisParser ----------------------------
(***************************************************************************)
(* What GentRedis makes of the bytes of a read: Split, the parsers of set, *)
(* mset and ping, and the continued parsing of an mset that arrives in     *)
(* pieces (ItemParser).                                                    *)
(*                                                                         *)
(* A symbol <<kind, n>> stands for a byte, for the digits of a number, for *)
(* "$" with its digits or for the name of a command.  Positions count from *)
(* 0, as in the code.                                                      *)
(***************************************************************************)
EXTENDS Integers, Sequences, FiniteSetsExt

CR == <<"cr", 0>>
LF == <<"lf", 0>>
Star == <<"*", 0>>
Number(n) == <<"number", n>>   \* the digits after a star
Dollar(n) == <<"$", n>>        \* a line with a length
Word(w) == <<w, 0>>            \* the name of a command
Byte(n) == <<"byte", n>>       \* a byte of a key or a value

NPOS == -1
MGET_REQ == -6
ERROR == -1
-----------------------------------------------------------------------------
(* data.find_first_of(set, pos), data.substr(pos, n) and data.substr(pos). *)
FindFirstOf(data, set, pos) ==
  LET at == {p \in pos .. Len(data) - 1 : data[p + 1] \in set}
  IN  IF at = {} THEN NPOS ELSE Min(at)
FindEol(data, pos) == FindFirstOf(data, {CR, LF}, pos)
SubStr(data, pos, n) == SubSeq(data, pos + 1, Min({pos + n, Len(data)}))
From(data, pos) == SubSeq(data, pos + 1, Len(data))

(* atoi(str.substr(1)): of "$5" and "*5" the number.  A star lost to Split *)
(* leaves the digits alone, of which the first is then skipped.            *)
GetLength(str) ==
  CASE str = <<>> -> 0
    [] str[1][1] = "$" -> str[1][2]
    [] str[1] = Star /\ Len(str) > 1 -> str[2][2]
    [] str[1][1] = "number" /\ str[1][2] >= 10 -> str[1][2] % 10
    [] OTHER -> 0

(* The tokens between line ends; an end of line is taken to be two bytes.  *)
SplitSkipsThree(data) ==  \* a mutant: an empty line takes a byte too many
  LET from[p \in 0 .. Len(data) + 3] ==
        LET e == FindEol(data, p)
        IN  CASE e = NPOS -> <<>>
              [] e = p    -> from[p + 3]
              [] OTHER    -> <<SubStr(data, p, e - p)>> \o from[e + 2]
  IN  from[0]
Split(data) ==
  LET from[p \in 0 .. Len(data) + 2] ==
        LET e == FindEol(data, p)
        IN  CASE e = NPOS -> <<>>
              [] e = p    -> from[p + 2]
              [] OTHER    -> <<SubStr(data, p, e - p)>> \o from[e + 2]
  IN  from[0]

(* The position after n line ends, counted from the star of the command.   *)
AfterLines(data, start, n) ==
  LET after[i \in 0 .. n, p \in NPOS .. Len(data) + 1] ==
        IF i = 0 \/ p = NPOS THEN p
        ELSE LET e == FindEol(data, p)
             IN  after[i - 1, IF e = NPOS THEN NPOS ELSE e + 2]
  IN  after[n, start]
-----------------------------------------------------------------------------
(* mset_data.  keys_values is a map from keys to values.                   *)
NoPairs == [k \in {} |-> <<>>]
With(map, key, val) ==
  [k \in DOMAIN map \cup {key} |-> IF k = key THEN val ELSE map[k]]
MsetInit ==
  [keys_values |-> NoPairs, content |-> <<>>, cur_key |-> <<>>,
   cur_key_end |-> 0, cur_content_len |-> 0, cur_content_start |-> 0,
   setNum |-> 0]

(* mset_data::set, after a pair has been taken.                            *)
KeyKept(m) ==  \* a mutant: cur_key is not reset
  [m EXCEPT !.setNum = @ - 1, !.cur_key_end = 0, !.content = <<>>,
            !.cur_content_start = 0, !.cur_content_len = 0]
SetDone(m) ==
  [m EXCEPT !.setNum = @ - 1, !.cur_key = <<>>, !.cur_key_end = 0,
            !.cur_content_start = 0, !.cur_content_len = 0,
            !.content = <<>>]

(* One turn of the loop of ItemParser: s.data begins with the pair that is *)
(* being read, and what is known of it already is in s.m.                  *)
Wait(s) == [s EXCEPT !.m.content = s.data, !.ret = MGET_REQ]

KeyAfter(s, p) ==
  LET keyLen == GetLength(SubStr(s.data, 0, p))
  IN  IF p = NPOS \/ Len(s.data) < p + 2 + keyLen THEN Wait(s)
      ELSE [s EXCEPT !.m.cur_key = SubStr(s.data, p + 2, keyLen),
                     !.m.cur_key_end = p + 2 + keyLen + 2]
TakeKey(s) ==
  IF s.m.cur_key = <<>> THEN KeyAfter(s, FindEol(s.data, 0)) ELSE s

LengthBefore(s, clpos, p) ==
  IF p = NPOS THEN Wait(s)
  ELSE [s EXCEPT !.m.cur_content_len =
                    GetLength(SubStr(s.data, clpos, p - clpos)),
                 !.m.cur_content_start = p + 2]
TakeLength(s) ==
  IF s.ret = 0 /\ s.m.cur_content_len = 0
    THEN LengthBefore(s, s.m.cur_key_end, FindEol(s.data, s.m.cur_key_end))
    ELSE s

TakeValue(s) ==
  LET end == s.m.cur_content_start + s.m.cur_content_len + 2
      val == SubStr(s.data, s.m.cur_content_start, s.m.cur_content_len)
  IN  CASE s.ret # 0 -> s
        [] s.ret = 0 /\ Len(s.data) < end -> Wait(s)
        [] OTHER ->
             [data |-> From(s.data, end), ret |-> 0,
              m |-> SetDone([s.m EXCEPT !.keys_values =
                                          With(@, s.m.cur_key, val)])]

ItemParser(data, m) ==
  LET Turn(s) == IF s.ret = 0 THEN TakeValue(TakeLength(TakeKey(s))) ELSE s
      after[i \in 0 .. m.setNum] ==
        IF i = 0 THEN [data |-> data, m |-> m, ret |-> 0]
        ELSE Turn(after[i - 1])
  IN  after[m.setNum]

(* ContinueParser: the piece that was kept, and the new one.               *)
PieceForgotten(m, data) == ItemParser(data, m)  \* a mutant
ContinueParser(m, data) == ItemParser(m.content \o data, m)
=============================================================================
