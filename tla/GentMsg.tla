------------------------------ MODULE GentMsg ------------------------------
(***************************************************************************)
(* GentMsg<T> (gent_msg.h): the bounded ring that carries accepted sockets *)
(* from the main thread to a worker (GentFrame::msg_[i]) and wake-ups from *)
(* the workers to the master thread (GentFrame::master_msg_).              *)
(*                                                                         *)
(* Push and Pop run with lock_ held except inside pthread_cond_wait, so a  *)
(* call is a sequence of critical sections, one per wake-up: each section  *)
(* tests the loop condition once and either waits again or takes effect.   *)
(***************************************************************************)
EXTENDS Naturals, FiniteSets, Sequences

CONSTANTS
  Producers,    \* threads that call Push
  Consumers,    \* threads that call Pop
  Values,       \* the pointers that travel through the queue
  NoVal,        \* not a value
  Capacity      \* app_cq_.size() after Resize (MAX_CONNECT in the program)

ASSUME ThreadsAssumption == IsFiniteSet(Producers) /\ IsFiniteSet(Consumers)
ASSUME CapacityAssumption == Capacity \in Nat \ {0}
ASSUME NoValAssumption == NoVal \notin Values

VARIABLES
  app_cq_,      \* the slots
  size_,        \* number of values held
  start_,       \* index of the oldest value
  pushing,      \* the argument of the Push call a producer is in, or NoVal
  popping,      \* the consumers that are in a Pop call
  got,          \* what the last Pop of a consumer returned
  empt_cond_,   \* producers inside pthread_cond_wait(&empt_cond_)
  full_cond_    \* consumers inside pthread_cond_wait(&full_cond_)

vars == <<app_cq_, size_, start_, pushing, popping, got, empt_cond_, full_cond_>>

Slots == 0 .. Capacity - 1

InPush == {p \in Producers : pushing[p] # NoVal}

TypeOK ==
  /\ app_cq_ \in [Slots -> Values \cup {NoVal}]
  /\ size_ \in 0 .. Capacity
  /\ start_ \in Slots
  /\ pushing \in [Producers -> Values \cup {NoVal}]
  /\ popping \in SUBSET Consumers
  /\ got \in [Consumers -> Values \cup {NoVal}]
  /\ empt_cond_ \in SUBSET InPush
  /\ full_cond_ \in SUBSET popping

Init ==
  /\ app_cq_ = [i \in Slots |-> NoVal]
  /\ size_ = 0
  /\ start_ = 0
  /\ pushing = [p \in Producers |-> NoVal]
  /\ popping = {}
  /\ got = [c \in Consumers |-> NoVal]
  /\ empt_cond_ = {}
  /\ full_cond_ = {}
-----------------------------------------------------------------------------
(* The waiters that may remain after pthread_cond_signal, which wakes one  *)
(* waiter if there is one.                                                 *)
SignalNobody(cond) == {cond}  \* a mutant: no signal

Signal(cond) == IF cond = {} THEN {cond} ELSE {cond \ {t} : t \in cond}

SlotTooFar(i) == (i + 1) % Capacity  \* a mutant: off by one

(* The ring index of (start_ + size_) % app_cq_.size().                    *)
Slot(i) == i % Capacity

BeginPush(p, v) ==
  /\ pushing[p] = NoVal
  /\ pushing' = [pushing EXCEPT ![p] = v]
  /\ UNCHANGED <<app_cq_, size_, start_, popping, got, empt_cond_, full_cond_>>

(* The loop condition size_ >= app_cq_.size() holds: the producer sleeps.  *)
PushWait(p) ==
  /\ p \in InPush \ empt_cond_
  /\ size_ >= Capacity
  /\ empt_cond_' = empt_cond_ \cup {p}
  /\ UNCHANGED <<app_cq_, size_, start_, pushing, popping, got, full_cond_>>

(* The rest of Push: store, count, signal full_cond_, unlock.              *)
Push(p) ==
  /\ p \in InPush \ empt_cond_
  /\ size_ < Capacity
  /\ app_cq_' = [app_cq_ EXCEPT ![Slot(start_ + size_)] = pushing[p]]
  /\ size_' = size_ + 1
  /\ full_cond_' \in Signal(full_cond_)
  /\ pushing' = [pushing EXCEPT ![p] = NoVal]
  /\ UNCHANGED <<start_, popping, got, empt_cond_>>

BeginPop(c) ==
  /\ c \notin popping
  /\ popping' = popping \cup {c}
  /\ UNCHANGED <<app_cq_, size_, start_, pushing, got, empt_cond_, full_cond_>>

(* The loop condition size_ <= 0 holds: the consumer sleeps.               *)
PopWait(c) ==
  /\ c \in popping \ full_cond_
  /\ size_ <= 0
  /\ full_cond_' = full_cond_ \cup {c}
  /\ UNCHANGED <<app_cq_, size_, start_, pushing, popping, got, empt_cond_>>

(* The rest of Pop: take the oldest value, signal empt_cond_, unlock.      *)
Pop(c) ==
  /\ c \in popping \ full_cond_
  /\ size_ > 0
  /\ got' = [got EXCEPT ![c] = app_cq_[start_]]
  /\ start_' = Slot(start_ + 1)
  /\ size_' = size_ - 1
  /\ empt_cond_' \in Signal(empt_cond_)
  /\ popping' = popping \ {c}
  /\ UNCHANGED <<app_cq_, pushing, full_cond_>>

(* pthread_cond_wait may return without a signal.                          *)
SpuriousPushWake ==
  /\ \E p \in empt_cond_ : empt_cond_' = empt_cond_ \ {p}
  /\ UNCHANGED <<app_cq_, size_, start_, pushing, popping, got, full_cond_>>

SpuriousPopWake ==
  /\ \E c \in full_cond_ : full_cond_' = full_cond_ \ {c}
  /\ UNCHANGED <<app_cq_, size_, start_, pushing, popping, got, empt_cond_>>

Next ==
  \/ \E p \in Producers : \/ \E v \in Values : BeginPush(p, v)
                          \/ PushWait(p)
                          \/ Push(p)
  \/ \E c \in Consumers : BeginPop(c) \/ PopWait(c) \/ Pop(c)
  \/ SpuriousPushWake
  \/ SpuriousPopWake

Spec == Init /\ [][Next]_vars
-----------------------------------------------------------------------------
(***************************************************************************)
(* No wake-up is lost although each Push and Pop signals a single waiter.  *)
(* While a consumer sleeps on full_cond_, at least as many other consumers *)
(* are awake inside Pop as there are values to take, so a value is never   *)
(* left in the ring with everybody asleep; the same for producers asleep   *)
(* on empt_cond_ and free slots.                                           *)
(***************************************************************************)
NoLostWakeup ==
  /\ full_cond_ # {} => Cardinality(popping \ full_cond_) >= size_
  /\ empt_cond_ # {} => Cardinality(InPush \ empt_cond_) >= Capacity - size_

(***************************************************************************)
(* The ring read from start_ is a first-in first-out queue: every Push and *)
(* Pop, with its index arithmetic modulo the capacity and its waiting,     *)
(* does exactly what the atomic bounded queue MsgFifo does, and waiting    *)
(* and waking change nothing a caller can see.                             *)
(***************************************************************************)
Contents == [i \in 1 .. size_ |-> app_cq_[(start_ + i - 1) % Capacity]]

Fifo == INSTANCE MsgFifo WITH q <- Contents

ImplementsFifo == Fifo!FifoSpec
=============================================================================
