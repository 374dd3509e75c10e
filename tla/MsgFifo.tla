------------------------------ MODULE MsgFifo ------------------------------
(***************************************************************************)
(* What a GentMsg queue promises to its callers: Push and Pop are atomic,  *)
(* a value is delivered exactly once and in the order of the pushes, and   *)
(* no more than Capacity values are held.  A blocked caller is one whose   *)
(* call has begun and cannot take effect yet.                              *)
(***************************************************************************)
EXTENDS Naturals, Sequences

CONSTANTS
  Producers,    \* threads that call Push
  Consumers,    \* threads that call Pop
  Values,       \* the pointers that travel through the queue
  NoVal,        \* not a value: no call in progress, or nothing returned yet
  Capacity      \* number of slots

VARIABLES
  q,            \* the values held, oldest first
  pushing,      \* the argument of the Push call a producer is in, or NoVal
  popping,      \* the consumers that are in a Pop call
  got           \* what the last Pop of a consumer returned

fifoVars == <<q, pushing, popping, got>>

FifoInit ==
  /\ q = <<>>
  /\ pushing = [p \in Producers |-> NoVal]
  /\ popping = {}
  /\ got = [c \in Consumers |-> NoVal]

BeginPush(p, v) ==
  /\ pushing[p] = NoVal
  /\ pushing' = [pushing EXCEPT ![p] = v]
  /\ UNCHANGED <<q, popping, got>>

EndPush(p) ==
  /\ pushing[p] # NoVal
  /\ Len(q) < Capacity
  /\ q' = Append(q, pushing[p])
  /\ pushing' = [pushing EXCEPT ![p] = NoVal]
  /\ UNCHANGED <<popping, got>>

BeginPop(c) ==
  /\ c \notin popping
  /\ popping' = popping \cup {c}
  /\ UNCHANGED <<q, pushing, got>>

EndPop(c) ==
  /\ c \in popping
  /\ q # <<>>
  /\ got' = [got EXCEPT ![c] = Head(q)]
  /\ q' = Tail(q)
  /\ popping' = popping \ {c}
  /\ UNCHANGED pushing

FifoNext ==
  \/ \E p \in Producers : EndPush(p) \/ \E v \in Values : BeginPush(p, v)
  \/ \E c \in Consumers : BeginPop(c) \/ EndPop(c)

FifoSpec == FifoInit /\ [][FifoNext]_fifoVars
=============================================================================
