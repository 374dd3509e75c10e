----------------------------- MODULE MCConnect -----------------------------
(* Connections from two sides, each on its own: what one does with the     *)
(* bytes of its client, and how the event loops call all of them.  part    *)
(* says which of the two moves.                                            *)
EXTENDS Connect, EventLoop, TLC

(* Commands of a client: keys of one and two bytes, values that are empty  *)
(* or contain a line end.                                                  *)
A == <<Byte(1)>>
B == <<Byte(2), Byte(3)>>
MCCommands ==
  {[op |-> "ping", pairs |-> <<>>],
   [op |-> "set", pairs |-> <<<<A, <<CR, LF>>>>>>],
   [op |-> "set", pairs |-> <<<<B, <<>>>>>>],
   [op |-> "mset", pairs |-> <<<<B, <<Byte(4), CR>>>>, <<A, <<>>>>>>]}

VARIABLE part

MCInit == part \in {"bytes", "loops"} /\ Init /\ LoopInit
MCNext ==
  /\ \/ part = "bytes" /\ Next /\ UNCHANGED loopVars
     \/ part = "loops" /\ LoopNext /\ UNCHANGED vars
  /\ UNCHANGED part
MCSpec == MCInit /\ [][MCNext]_<<vars, loopVars, part>>

Symmetry == Permutations(Connects) \cup Permutations(Sockets)
=============================================================================
