--------------------------- MODULE GentMsgProofs ---------------------------
(***************************************************************************)
(* Proofs about the message queue GentMsg and the pipe that announces its  *)
(* entries, for any numbers of threads, values and slots.                  *)
(***************************************************************************)
EXTENDS MsgPipe, FiniteSetTheorems, TLAPS

(* pthread_cond_signal wakes exactly one waiter, when there is one.        *)
LEMMA SignalWakesOne ==
  ASSUME NEW cond, NEW rest \in Signal(cond)
  PROVE  \/ cond = {} /\ rest = {}
         \/ \E t \in cond : rest = cond \ {t}
BY Zenon DEF Signal

(* Ring indices stay within app_cq_.                                       *)
LEMMA SlotInRange ==
  ASSUME NEW i \in Nat
  PROVE  Slot(i) \in Slots
BY SMTT(30), CapacityAssumption DEF Slot, Slots

(* Type correctness is preserved by every step of Push, Pop and the        *)
(* condition variables: the ring is never overfilled or underrun.          *)
LEMMA TypeStep == TypeOK /\ [Next]_vars => TypeOK'
<1> SUFFICES ASSUME TypeOK, [Next]_vars PROVE TypeOK'
  BY Zenon
<1> USE CapacityAssumption, NoValAssumption DEF TypeOK, InPush
<1>1. ASSUME NEW p \in Producers, NEW v \in Values, BeginPush(p, v)
      PROVE  TypeOK'
  BY Zenon, <1>1 DEF BeginPush
<1>2. ASSUME NEW p \in Producers, PushWait(p) PROVE TypeOK'
  BY Zenon, <1>2 DEF PushWait
<1>3. ASSUME NEW p \in Producers, Push(p) PROVE TypeOK'
  <2>1. full_cond_' \in SUBSET popping
    BY <1>3, SignalWakesOne DEF Push
  <2>2. Slot(start_ + size_) \in Slots
    BY SlotInRange DEF Slots
  <2> QED
    BY <1>3, <2>1, <2>2 DEF Push
<1>4. ASSUME NEW c \in Consumers, BeginPop(c) PROVE TypeOK'
  BY Zenon, <1>4 DEF BeginPop
<1>5. ASSUME NEW c \in Consumers, PopWait(c) PROVE TypeOK'
  BY Zenon, <1>5 DEF PopWait
<1>6. ASSUME NEW c \in Consumers, Pop(c) PROVE TypeOK'
  <2>1. empt_cond_' \in SUBSET InPush
    BY <1>6, SignalWakesOne DEF Pop
  <2>2. start_' \in Slots
    BY <1>6, SlotInRange DEF Pop, Slots
  <2> QED
    BY <1>6, <2>1, <2>2 DEF Pop
<1>7. CASE SpuriousPushWake
  BY Zenon, <1>7 DEF SpuriousPushWake
<1>8. CASE SpuriousPopWake
  BY Zenon, <1>8 DEF SpuriousPopWake
<1>9. CASE UNCHANGED vars
  BY Zenon, <1>9 DEF vars
<1> QED
  BY Zenon, <1>1, <1>2, <1>3, <1>4, <1>5, <1>6, <1>7, <1>8, <1>9 DEF Next

(* GentMsg keeps its ring, its counters and its sets of waiters within     *)
(* their types, whatever the threads do.                                   *)
THEOREM TypeCorrect == Spec => []TypeOK
<1>1. Init => TypeOK
  BY CapacityAssumption, NoValAssumption DEF Init, TypeOK, InPush, Slots
<1> QED
  BY <1>1, TypeStep, PTL DEF Spec
-----------------------------------------------------------------------------
(* Sets of threads are finite, so that counting them makes sense.          *)
LEMMA Awake ==
  ASSUME TypeOK
  PROVE  /\ IsFiniteSet(popping) /\ IsFiniteSet(popping \ full_cond_)
         /\ IsFiniteSet(InPush) /\ IsFiniteSet(InPush \ empt_cond_)
         /\ Cardinality(popping \ full_cond_) \in Nat
         /\ Cardinality(InPush \ empt_cond_) \in Nat
<1>1. popping \subseteq Consumers /\ InPush \subseteq Producers
  BY Zenon DEF TypeOK, InPush
<1>2. IsFiniteSet(popping) /\ IsFiniteSet(InPush)
  BY Zenon, <1>1, ThreadsAssumption, FS_Subset
<1>3. IsFiniteSet(popping \ full_cond_) /\ IsFiniteSet(InPush \ empt_cond_)
  BY Zenon, <1>2, FS_Subset
<1> QED
  BY Zenon, <1>2, <1>3, FS_CardinalityType

(* Adding an element to a finite set, or removing one, changes its size by *)
(* one; a larger set has at least as many elements.                        *)
LEMMA AddOne ==
  ASSUME NEW S, IsFiniteSet(S), NEW x, x \notin S
  PROVE  IsFiniteSet(S \cup {x}) /\ Cardinality(S \cup {x}) = Cardinality(S) + 1
BY Zenon, FS_AddElement

LEMMA RemoveOne ==
  ASSUME NEW S, IsFiniteSet(S), NEW x \in S
  PROVE  /\ IsFiniteSet(S \ {x})
         /\ Cardinality(S) \in Nat
         /\ Cardinality(S \ {x}) = Cardinality(S) - 1
BY Zenon, FS_RemoveElement, FS_CardinalityType

(* The consumers' half of NoLostWakeup survives every step.                *)
ConsumersAwake ==
  full_cond_ # {} => Cardinality(popping \ full_cond_) >= size_

LEMMA ConsumersStep ==
  TypeOK /\ ConsumersAwake /\ [Next]_vars => ConsumersAwake'
<1> SUFFICES ASSUME TypeOK, ConsumersAwake, [Next]_vars, full_cond_' # {}
             PROVE  Cardinality(popping \ full_cond_)' >= size_'
  BY Zenon DEF ConsumersAwake
<1> DEFINE A == popping \ full_cond_
<1>a. /\ IsFiniteSet(A) /\ Cardinality(A) \in Nat
      /\ size_ \in 0 .. Capacity /\ Capacity \in Nat \ {0}
      /\ full_cond_ \subseteq popping
  BY Zenon, Awake, CapacityAssumption DEF TypeOK
<1>1. ASSUME NEW p \in Producers, Push(p)
      PROVE  Cardinality(popping \ full_cond_)' >= size_'
  <2>1. PICK t \in full_cond_ : full_cond_' = full_cond_ \ {t}
    BY Zenon, <1>1, SignalWakesOne DEF Push
  <2>2. (popping \ full_cond_)' = A \cup {t} /\ t \notin A
    BY Zenon, <1>1, <1>a, <2>1 DEF Push
  <2>3. Cardinality((popping \ full_cond_)') = Cardinality(A) + 1
    BY Zenon, <1>a, <2>2, AddOne
  <2> QED
    BY <1>1, <1>a, <2>1, <2>3 DEF Push, ConsumersAwake
<1>2. ASSUME NEW c \in Consumers, BeginPop(c)
      PROVE  Cardinality(popping \ full_cond_)' >= size_'
  <2>1. (popping \ full_cond_)' = A \cup {c} /\ c \notin A
    BY Zenon, <1>2, <1>a DEF BeginPop
  <2>2. Cardinality((popping \ full_cond_)') = Cardinality(A) + 1
    BY Zenon, <1>a, <2>1, AddOne
  <2> QED
    BY <1>2, <1>a, <2>2 DEF BeginPop, ConsumersAwake
<1>3. ASSUME NEW c \in Consumers, PopWait(c)
      PROVE  Cardinality(popping \ full_cond_)' >= size_'
  <2>1. (popping \ full_cond_)' = A \ {c} /\ c \in A
    BY Zenon, <1>3 DEF PopWait
  <2>2. IsFiniteSet(A \ {c})
    BY Zenon, <1>a, <2>1, RemoveOne
  <2>3. Cardinality((popping \ full_cond_)') \in Nat
    BY Zenon, <2>1, <2>2, FS_CardinalityType
  <2> QED
    BY <1>3, <1>a, <2>3 DEF PopWait
<1>4. ASSUME NEW c \in Consumers, Pop(c)
      PROVE  Cardinality(popping \ full_cond_)' >= size_'
  <2>1. (popping \ full_cond_)' = A \ {c} /\ c \in A
    BY Zenon, <1>4 DEF Pop
  <2>2. Cardinality((popping \ full_cond_)') = Cardinality(A) - 1
    BY Zenon, <1>a, <2>1, RemoveOne
  <2> QED
    BY <1>4, <1>a, <2>2 DEF Pop, ConsumersAwake
<1>5. CASE SpuriousPopWake
  <2>1. PICK t \in full_cond_ : full_cond_' = full_cond_ \ {t}
    BY Zenon, <1>5 DEF SpuriousPopWake
  <2>2. (popping \ full_cond_)' = A \cup {t} /\ t \notin A
    BY Zenon, <1>5, <1>a, <2>1 DEF SpuriousPopWake
  <2>3. Cardinality((popping \ full_cond_)') = Cardinality(A) + 1
    BY Zenon, <1>a, <2>2, AddOne
  <2> QED
    BY <1>5, <1>a, <2>1, <2>3 DEF SpuriousPopWake, ConsumersAwake
<1>6. CASE UNCHANGED <<size_, popping, full_cond_>>
  BY Zenon, <1>6 DEF ConsumersAwake
<1> QED
  BY Zenon, <1>1, <1>2, <1>3, <1>4, <1>5, <1>6
  DEF Next, BeginPush, PushWait, SpuriousPushWake, vars

(* The producers' half of NoLostWakeup survives every step.                *)
ProducersAwake ==
  empt_cond_ # {} => Cardinality(InPush \ empt_cond_) >= Capacity - size_

LEMMA ProducersStep ==
  TypeOK /\ ProducersAwake /\ [Next]_vars => ProducersAwake'
<1> SUFFICES ASSUME TypeOK, ProducersAwake, [Next]_vars, empt_cond_' # {}
             PROVE  Cardinality(InPush \ empt_cond_)' >= Capacity - size_'
  BY Zenon DEF ProducersAwake
<1> DEFINE B == InPush \ empt_cond_
<1>a. /\ IsFiniteSet(B) /\ Cardinality(B) \in Nat
      /\ size_ \in 0 .. Capacity /\ Capacity \in Nat \ {0}
      /\ empt_cond_ \subseteq InPush
      /\ pushing \in [Producers -> Values \cup {NoVal}]
  BY Zenon, Awake, CapacityAssumption DEF TypeOK
<1>1. ASSUME NEW p \in Producers, NEW v \in Values, BeginPush(p, v)
      PROVE  Cardinality(InPush \ empt_cond_)' >= Capacity - size_'
  <2>1. (InPush \ empt_cond_)' = B \cup {p} /\ p \notin B
    BY Zenon, <1>1, <1>a, NoValAssumption DEF BeginPush, InPush
  <2>2. Cardinality((InPush \ empt_cond_)') = Cardinality(B) + 1
    BY Zenon, <1>a, <2>1, AddOne
  <2> QED
    BY <1>1, <1>a, <2>2 DEF BeginPush, ProducersAwake
<1>2. ASSUME NEW p \in Producers, PushWait(p)
      PROVE  Cardinality(InPush \ empt_cond_)' >= Capacity - size_'
  <2>1. (InPush \ empt_cond_)' = B \ {p} /\ p \in B
    BY Zenon, <1>2 DEF PushWait, InPush
  <2>2. IsFiniteSet(B \ {p})
    BY Zenon, <1>a, <2>1, RemoveOne
  <2>3. Cardinality((InPush \ empt_cond_)') \in Nat
    BY Zenon, <2>1, <2>2, FS_CardinalityType
  <2> QED
    BY <1>2, <1>a, <2>3 DEF PushWait
<1>3. ASSUME NEW p \in Producers, Push(p)
      PROVE  Cardinality(InPush \ empt_cond_)' >= Capacity - size_'
  <2>1. (InPush \ empt_cond_)' = B \ {p} /\ p \in B
    BY Zenon, <1>3, <1>a DEF Push, InPush
  <2>2. Cardinality((InPush \ empt_cond_)') = Cardinality(B) - 1
    BY Zenon, <1>a, <2>1, RemoveOne
  <2> QED
    BY <1>3, <1>a, <2>2 DEF Push, ProducersAwake
<1>4. ASSUME NEW c \in Consumers, Pop(c)
      PROVE  Cardinality(InPush \ empt_cond_)' >= Capacity - size_'
  <2>1. PICK t \in empt_cond_ : empt_cond_' = empt_cond_ \ {t}
    BY Zenon, <1>4, SignalWakesOne DEF Pop
  <2>2. (InPush \ empt_cond_)' = B \cup {t} /\ t \notin B
    BY Zenon, <1>4, <1>a, <2>1 DEF Pop, InPush
  <2>3. Cardinality((InPush \ empt_cond_)') = Cardinality(B) + 1
    BY Zenon, <1>a, <2>2, AddOne
  <2> QED
    BY <1>4, <1>a, <2>1, <2>3 DEF Pop, ProducersAwake
<1>5. CASE SpuriousPushWake
  <2>1. PICK t \in empt_cond_ : empt_cond_' = empt_cond_ \ {t}
    BY Zenon, <1>5 DEF SpuriousPushWake
  <2>2. (InPush \ empt_cond_)' = B \cup {t} /\ t \notin B
    BY Zenon, <1>5, <1>a, <2>1 DEF SpuriousPushWake, InPush
  <2>3. Cardinality((InPush \ empt_cond_)') = Cardinality(B) + 1
    BY Zenon, <1>a, <2>2, AddOne
  <2> QED
    BY <1>5, <1>a, <2>1, <2>3 DEF SpuriousPushWake, ProducersAwake
<1>6. CASE UNCHANGED <<size_, pushing, empt_cond_>>
  BY Zenon, <1>6 DEF ProducersAwake, InPush
<1> QED
  BY Zenon, <1>1, <1>2, <1>3, <1>4, <1>5, <1>6
  DEF Next, BeginPop, PopWait, SpuriousPopWake, vars

(* One signal per Push and per Pop is enough: no value stays in the ring,  *)
(* and no slot stays free, while every thread that could use it sleeps in  *)
(* pthread_cond_wait.                                                      *)
THEOREM WakeupsNotLost == Spec => []NoLostWakeup
<1>1. Init => TypeOK /\ NoLostWakeup
  BY CapacityAssumption, NoValAssumption
  DEF Init, TypeOK, InPush, Slots, NoLostWakeup
<1>2. TypeOK /\ NoLostWakeup /\ [Next]_vars => TypeOK' /\ NoLostWakeup'
  BY Zenon, TypeStep, ConsumersStep, ProducersStep
  DEF NoLostWakeup, ConsumersAwake, ProducersAwake
<1> QED
  BY <1>1, <1>2, PTL DEF Spec
-----------------------------------------------------------------------------
(* The inductive invariant of the queue with its pipe: a producer that has *)
(* stored its pointer and not written its byte is not in Push.             *)
PipeInv ==
  /\ TypeOK
  /\ pipe \in Nat
  /\ writing \subseteq Producers \ InPush
  /\ PipeMatchesRing

LEMMA PipeStep == PipeInv /\ [PipeNext]_pipeVars => PipeInv'
<1> SUFFICES ASSUME PipeInv, [PipeNext]_pipeVars PROVE PipeInv'
  BY Zenon
<1>a. /\ TypeOK /\ pipe \in Nat /\ writing \subseteq Producers \ InPush
      /\ size_ = pipe + Cardinality(popping) + Cardinality(writing)
      /\ IsFiniteSet(popping) /\ Cardinality(popping) \in Nat
      /\ IsFiniteSet(writing) /\ Cardinality(writing) \in Nat
  <2>1. IsFiniteSet(writing)
    BY Zenon, ThreadsAssumption, FS_Subset DEF PipeInv
  <2> QED
    BY Zenon, <2>1, Awake, FS_CardinalityType DEF PipeInv, PipeMatchesRing
<1>b. TypeOK'
  BY Zenon, <1>a, TypeStep DEF PipeNext, Next, pipeVars, vars, BeginSend, SendBlocks,
     SendPush, WriteByte, HandlerRead, HandlerPop
<1>1. ASSUME NEW p \in Producers, NEW v \in Values, BeginSend(p, v)
      PROVE  PipeInv'
  BY Zenon, <1>1, <1>a, <1>b DEF PipeInv, PipeMatchesRing, BeginSend, BeginPush,
     InPush, TypeOK
<1>2. ASSUME NEW p \in Producers, SendBlocks(p) PROVE PipeInv'
  BY Zenon, <1>2, <1>a, <1>b DEF PipeInv, PipeMatchesRing, SendBlocks, PushWait, InPush
<1>3. ASSUME NEW p \in Producers, SendPush(p) PROVE PipeInv'
  <2>1. p \notin writing /\ writing' = writing \cup {p}
    BY Zenon, <1>3, <1>a DEF SendPush, Push
  <2>2. Cardinality(writing') = Cardinality(writing) + 1
    BY Zenon, <1>a, <2>1, AddOne
  <2>3. writing' \subseteq (Producers \ InPush)'
    BY Zenon, <1>3, <1>a, <2>1 DEF SendPush, Push, InPush, TypeOK
  <2>4. PipeMatchesRing'
    BY <1>3, <1>a, <2>2 DEF SendPush, Push, PipeMatchesRing
  <2> QED
    BY Zenon, <1>3, <1>a, <1>b, <2>3, <2>4 DEF PipeInv, SendPush
<1>4. ASSUME NEW p \in Producers, WriteByte(p) PROVE PipeInv'
  <2>1. Cardinality(writing') = Cardinality(writing) - 1
    BY Zenon, <1>4, <1>a, RemoveOne DEF WriteByte
  <2> QED
    BY <1>4, <1>a, <1>b, <2>1 DEF PipeInv, PipeMatchesRing, WriteByte, InPush,
       vars
<1>5. ASSUME NEW c \in Consumers, HandlerRead(c) PROVE PipeInv'
  <2>1. Cardinality(popping') = Cardinality(popping) + 1
    BY Zenon, <1>5, <1>a, AddOne DEF HandlerRead, BeginPop
  <2> QED
    BY <1>5, <1>a, <1>b, <2>1 DEF PipeInv, PipeMatchesRing, HandlerRead,
       BeginPop, InPush
<1>6. ASSUME NEW c \in Consumers, HandlerPop(c) PROVE PipeInv'
  <2>1. Cardinality(popping') = Cardinality(popping) - 1
    BY Zenon, <1>6, <1>a, RemoveOne DEF HandlerPop, Pop
  <2> QED
    BY <1>6, <1>a, <1>b, <2>1 DEF PipeInv, PipeMatchesRing, HandlerPop, Pop,
       InPush
<1>7. CASE SpuriousPushWake /\ UNCHANGED <<pipe, writing>>
  BY Zenon, <1>7, <1>a, <1>b DEF PipeInv, PipeMatchesRing, SpuriousPushWake, InPush
<1>8. CASE UNCHANGED pipeVars
  BY Zenon, <1>8, <1>a, <1>b DEF PipeInv, PipeMatchesRing, InPush, pipeVars, vars
<1> QED
  BY Zenon, <1>1, <1>2, <1>3, <1>4, <1>5, <1>6, <1>7, <1>8 DEF PipeNext

LEMMA PipeInvariant == PipeSpec => []PipeInv
<1>1. PipeInit => PipeInv
  <2> SUFFICES ASSUME PipeInit PROVE PipeInv
    BY Zenon
  <2>1. TypeOK
    BY CapacityAssumption, NoValAssumption
    DEF PipeInit, Init, TypeOK, InPush, Slots
  <2> QED
    BY <2>1, FS_EmptySet DEF PipeInit, Init, PipeInv, PipeMatchesRing
<1> QED
  BY <1>1, PipeStep, PTL DEF PipeSpec

(* The number of pointers in the ring is the number of bytes in the pipe,  *)
(* plus the producers about to write theirs, plus the handlers about to    *)
(* pop: none is forgotten, none is announced twice.                        *)
THEOREM PipeAnnouncesRing == PipeSpec => []PipeMatchesRing
<1>1. PipeInv => PipeMatchesRing
  BY Zenon DEF PipeInv
<1> QED
  BY <1>1, PipeInvariant, PTL

(* A handler called for a byte finds a pointer: the event loop of a worker *)
(* or of the master thread never sleeps inside Pop.                        *)
THEOREM HandlersNeverBlock == PipeSpec => []HandlerNeverBlocks
<1>1. PipeInv => HandlerNeverBlocks
  <2> SUFFICES ASSUME PipeInv PROVE HandlerNeverBlocks
    BY Zenon
  <2>1. IsFiniteSet(writing)
    BY Zenon, ThreadsAssumption, FS_Subset DEF PipeInv
  <2> QED
    BY <2>1, Awake, FS_CardinalityType
    DEF PipeInv, PipeMatchesRing, HandlerNeverBlocks
<1> QED
  BY <1>1, PipeInvariant, PTL
-----------------------------------------------------------------------------
(***************************************************************************)
(* The ring implements the first-in first-out queue of MsgFifo.            *)
(***************************************************************************)

(* The index arithmetic modulo the capacity goes around at most once.      *)
LEMMA Around ==
  ASSUME NEW i \in Nat, i < 2 * Capacity
  PROVE  i % Capacity = IF i < Capacity THEN i ELSE i - Capacity
BY SMTT(30), CapacityAssumption

(* The slot i steps after the oldest value is i - 1 steps after the next.  *)
LEMMA NextSlot ==
  ASSUME NEW s \in Slots, NEW i \in Nat, 1 <= i, i < Capacity
  PROVE  (((s + 1) % Capacity) + i - 1) % Capacity = (s + i) % Capacity
<1>1. s \in Nat /\ s < Capacity /\ Capacity \in Nat \ {0}
  BY CapacityAssumption DEF Slots
<1>2. (s + i) % Capacity = IF s + i < Capacity THEN s + i ELSE s + i - Capacity
  BY <1>1, Around
<1>3. CASE s + 1 < Capacity
  <2>1. (s + 1) % Capacity = s + 1
    BY <1>1, <1>3, Around
  <2> QED
    BY <1>1, <2>1
<1>4. CASE s + 1 = Capacity
  <2>1. (s + 1) % Capacity = 0
    BY <1>1, <1>4, Around
  <2>2. (i - 1) % Capacity = i - 1
    BY <1>1, Around
  <2> QED
    BY <1>1, <1>2, <1>4, <2>1, <2>2
<1> QED
  BY <1>1, <1>3, <1>4

(* What a ring of slots cq holds, n values from index s on, is a sequence. *)
Ring(s, n, cq) == [i \in 1 .. n |-> cq[(s + i - 1) % Capacity]]

LEMMA RingType ==
  ASSUME NEW s \in Slots, NEW n \in 0 .. Capacity,
         NEW cq \in [Slots -> Values \cup {NoVal}]
  PROVE  /\ Ring(s, n, cq) \in Seq(Values \cup {NoVal}) /\ Len(Ring(s, n, cq)) = n
         /\ \A i \in 1 .. n : Ring(s, n, cq)[i] = cq[(s + i - 1) % Capacity]
<1>1. n \in Nat /\ s \in Nat
  BY CapacityAssumption DEF Slots
<1>2. \A i \in 1 .. n : (s + i - 1) % Capacity \in Slots
  BY <1>1, CapacityAssumption DEF Slots
<1>3. \A i \in 1 .. n : cq[(s + i - 1) % Capacity] \in Values \cup {NoVal}
  BY Zenon, <1>2
<1> QED
  BY <1>1, <1>3 DEF Ring

(* The values held are a sequence of size_ entries, in this state and in   *)
(* the next.                                                               *)
LEMMA ContentsType ==
  ASSUME TypeOK
  PROVE  /\ Contents \in Seq(Values \cup {NoVal}) /\ Len(Contents) = size_
         /\ \A i \in 1 .. size_ : Contents[i] = app_cq_[(start_ + i - 1) % Capacity]
<1>1. start_ \in Slots /\ size_ \in 0 .. Capacity /\ app_cq_ \in [Slots -> Values \cup {NoVal}]
  BY Zenon DEF TypeOK
<1>2. Contents = Ring(start_, size_, app_cq_)
  BY Zenon DEF Contents, Ring
<1> QED
  BY Zenon, <1>1, <1>2, RingType

LEMMA ContentsTypeNext ==
  ASSUME TypeOK'
  PROVE  /\ Contents' \in Seq(Values \cup {NoVal}) /\ Len(Contents') = size_'
         /\ \A i \in 1 .. size_' : Contents'[i] = app_cq_'[(start_' + i - 1) % Capacity]
<1>1. start_' \in Slots /\ size_' \in 0 .. Capacity
      /\ app_cq_' \in [Slots -> Values \cup {NoVal}]
  BY Zenon DEF TypeOK, Slots
<1>2. Contents' = Ring(start_', size_', app_cq_')
  BY Zenon DEF Contents, Ring
<1> QED
  BY Zenon, <1>1, <1>2, RingType

(* Push stores behind the values held, and overwrites none of them.        *)
LEMMA PushAppends ==
  ASSUME TypeOK, TypeOK', NEW p \in Producers, Push(p)
  PROVE  Contents' = Append(Contents, pushing[p])
<1>1. /\ size_ \in Nat /\ size_ < Capacity /\ start_ \in Nat /\ start_ < Capacity
      /\ size_' = size_ + 1 /\ start_' = start_ /\ Capacity \in Nat \ {0}
  BY CapacityAssumption DEF Push, TypeOK, Slots
<1>2. /\ Contents \in Seq(Values \cup {NoVal}) /\ Len(Contents) = size_
      /\ \A i \in 1 .. size_ : Contents[i] = app_cq_[(start_ + i - 1) % Capacity]
  BY Zenon, ContentsType
<1>3. /\ Contents' \in Seq(Values \cup {NoVal}) /\ Len(Contents') = size_ + 1
      /\ \A i \in 1 .. size_ + 1 : Contents'[i] = app_cq_'[(start_ + i - 1) % Capacity]
  BY Zenon, <1>1, ContentsTypeNext
<1>4. (start_ + size_) % Capacity \in Slots
  BY <1>1 DEF Slots
<1>5. app_cq_'[(start_ + size_) % Capacity] = pushing[p]
  BY Zenon, <1>4 DEF Push, Slot, TypeOK
<1>6. ASSUME NEW i \in 1 .. size_
      PROVE  app_cq_'[(start_ + i - 1) % Capacity] = app_cq_[(start_ + i - 1) % Capacity]
  <2>1. /\ start_ + i - 1 \in Nat /\ start_ + i - 1 < 2 * Capacity
        /\ start_ + size_ \in Nat /\ start_ + size_ < 2 * Capacity
    BY <1>1
  <2>2. /\ (start_ + i - 1) % Capacity
             = IF start_ + i - 1 < Capacity THEN start_ + i - 1 ELSE start_ + i - 1 - Capacity
        /\ (start_ + size_) % Capacity
             = IF start_ + size_ < Capacity THEN start_ + size_ ELSE start_ + size_ - Capacity
    BY SMTT(30), <1>1, <2>1, Around
  <2>3. (start_ + i - 1) % Capacity # (start_ + size_) % Capacity
    BY <1>1, <2>2
  <2>4. (start_ + i - 1) % Capacity \in Slots
    BY <1>1, <2>2 DEF Slots
  <2> QED
    BY Zenon, <2>3, <2>4 DEF Push, Slot, TypeOK
<1>7. /\ Append(Contents, pushing[p]) \in Seq(Values \cup {NoVal})
      /\ Len(Append(Contents, pushing[p])) = size_ + 1
      /\ \A i \in 1 .. size_ : Append(Contents, pushing[p])[i] = Contents[i]
      /\ Append(Contents, pushing[p])[size_ + 1] = pushing[p]
  <2>1. pushing[p] \in Values \cup {NoVal}
    BY Zenon DEF TypeOK
  <2> QED
    BY <1>1, <1>2, <2>1
<1>8. \A i \in 1 .. size_ + 1 : Contents'[i] = Append(Contents, pushing[p])[i]
  <2>1. ASSUME NEW i \in 1 .. size_
        PROVE  Contents'[i] = Append(Contents, pushing[p])[i]
    <3>2. i \in 1 .. size_ + 1
      BY <1>1
    <3> QED
      BY Zenon, <1>2, <1>3, <1>6, <1>7, <3>2
  <2>2. start_ + (size_ + 1) - 1 = start_ + size_ /\ size_ + 1 \in 1 .. size_ + 1
    BY <1>1
  <2>3. Contents'[size_ + 1] = pushing[p]
    BY Zenon, <1>3, <1>5, <2>2
  <2>4. \A i \in 1 .. size_ + 1 : i \in 1 .. size_ \/ i = size_ + 1
    BY <1>1
  <2> QED
    BY Zenon, <1>7, <2>1, <2>3, <2>4
<1> QED
  BY <1>3, <1>7, <1>8

(* Pop takes the value that was stored first and keeps the others.         *)
LEMMA PopTakesHead ==
  ASSUME TypeOK, TypeOK', NEW c \in Consumers, Pop(c)
  PROVE  Contents # <<>> /\ app_cq_[start_] = Head(Contents) /\ Contents' = Tail(Contents)
<1>1. /\ size_ \in Nat \ {0} /\ size_ <= Capacity /\ start_ \in Nat /\ start_ < Capacity
      /\ size_' = size_ - 1 /\ start_' = (start_ + 1) % Capacity /\ app_cq_' = app_cq_
      /\ Capacity \in Nat \ {0}
  BY CapacityAssumption DEF Pop, TypeOK, Slots, Slot
<1>2. /\ Contents \in Seq(Values \cup {NoVal}) /\ Len(Contents) = size_
      /\ \A i \in 1 .. size_ : Contents[i] = app_cq_[(start_ + i - 1) % Capacity]
  BY Zenon, ContentsType
<1>3. /\ Contents' \in Seq(Values \cup {NoVal}) /\ Len(Contents') = size_ - 1
      /\ \A i \in 1 .. size_ - 1 : Contents'[i] = app_cq_[(start_' + i - 1) % Capacity]
  BY Zenon, <1>1, ContentsTypeNext
<1>4. Contents # <<>> /\ Head(Contents) = Contents[1]
  BY <1>1, <1>2
<1>5. Contents[1] = app_cq_[start_]
  <2>1. (start_ + 1 - 1) % Capacity = start_ /\ 1 \in 1 .. size_
    <3>1. start_ % Capacity = start_
      BY <1>1, Around
    <3> QED
      BY <1>1, <3>1
  <2> QED
    BY Zenon, <1>2, <2>1
<1>6. /\ Tail(Contents) \in Seq(Values \cup {NoVal}) /\ Len(Tail(Contents)) = size_ - 1
      /\ \A i \in 1 .. size_ - 1 : Tail(Contents)[i] = Contents[i + 1]
  BY <1>1, <1>2, <1>4
<1>7. ASSUME NEW i \in 1 .. size_ - 1
      PROVE  Contents'[i] = Tail(Contents)[i]
  <2>4. (start_' + i - 1) % Capacity = (start_ + i) % Capacity
    BY <1>1, NextSlot DEF Slots
  <2>5. Contents[i + 1] = app_cq_[(start_ + i) % Capacity]
    <3>1. i + 1 \in 1 .. size_ /\ start_ + (i + 1) - 1 = start_ + i
      BY <1>1
    <3> QED
      BY Zenon, <1>2, <3>1
  <2> QED
    BY Zenon, <1>3, <1>6, <2>4, <2>5
<1> QED
  BY <1>3, <1>4, <1>5, <1>6, <1>7

(* Each step of the ring is a step of the queue or changes nothing that a  *)
(* caller of the queue can see.                                            *)
LEMMA FifoStep == TypeOK /\ TypeOK' /\ [Next]_vars => [Fifo!FifoNext]_(Fifo!fifoVars)
<1> SUFFICES ASSUME TypeOK, TypeOK', [Next]_vars
             PROVE  Fifo!FifoNext \/ UNCHANGED <<Contents, pushing, popping, got>>
  BY Zenon DEF Fifo!fifoVars
<1> DEFINE Same == UNCHANGED <<app_cq_, size_, start_>>
<1>0. ASSUME Same PROVE Contents' = Contents
  BY Zenon, <1>0 DEF Contents
<1>1. ASSUME NEW p \in Producers, NEW v \in Values, BeginPush(p, v) PROVE Fifo!FifoNext
  <2>1. Contents' = Contents
    BY Zenon, <1>0, <1>1 DEF BeginPush
  <2>2. Fifo!BeginPush(p, v)
    BY Zenon, <1>1, <2>1 DEF BeginPush, Fifo!BeginPush
  <2> QED
    BY Zenon, <2>2 DEF Fifo!FifoNext
<1>2. ASSUME NEW p \in Producers, Push(p) PROVE Fifo!FifoNext
  <2>1. Contents' = Append(Contents, pushing[p]) /\ Len(Contents) = size_
    BY Zenon, <1>2, PushAppends, ContentsType
  <2>2. Fifo!EndPush(p)
    BY Zenon, <1>2, <2>1 DEF Push, InPush, Fifo!EndPush
  <2> QED
    BY Zenon, <2>2 DEF Fifo!FifoNext
<1>3. ASSUME NEW c \in Consumers, BeginPop(c) PROVE Fifo!FifoNext
  <2>1. Contents' = Contents
    BY Zenon, <1>0, <1>3 DEF BeginPop
  <2>2. Fifo!BeginPop(c)
    BY Zenon, <1>3, <2>1 DEF BeginPop, Fifo!BeginPop
  <2> QED
    BY Zenon, <2>2 DEF Fifo!FifoNext
<1>4. ASSUME NEW c \in Consumers, Pop(c) PROVE Fifo!FifoNext
  <2>1. Contents # <<>> /\ app_cq_[start_] = Head(Contents) /\ Contents' = Tail(Contents)
    BY Zenon, <1>4, PopTakesHead
  <2>2. Fifo!EndPop(c)
    BY Zenon, <1>4, <2>1 DEF Pop, Fifo!EndPop
  <2> QED
    BY Zenon, <2>2 DEF Fifo!FifoNext
<1>5. ASSUME \/ \E p \in Producers : PushWait(p)
             \/ \E c \in Consumers : PopWait(c)
             \/ SpuriousPushWake \/ SpuriousPopWake \/ UNCHANGED vars
      PROVE  UNCHANGED <<Contents, pushing, popping, got>>
  <2>1. Same /\ UNCHANGED <<pushing, popping, got>>
    BY Zenon, <1>5 DEF PushWait, PopWait, SpuriousPushWake, SpuriousPopWake, vars
  <2> QED
    BY Zenon, <1>0, <2>1
<1> QED
  BY Zenon, <1>1, <1>2, <1>3, <1>4, <1>5 DEF Next

(***************************************************************************)
(* The ring implements the queue for every capacity and any threads: the   *)
(* index arithmetic modulo the capacity, the waiting and the wake-ups of   *)
(* Push and Pop (gent_msg.h) deliver every pointer exactly once, in the    *)
(* order of the pushes.                                                    *)
(***************************************************************************)
THEOREM RefinesFifo == Spec => ImplementsFifo
<1>1. Init => Fifo!FifoInit
  <2>1. Init => Contents = <<>>
    BY DEF Init, Contents
  <2> QED
    BY Zenon, <2>1 DEF Init, Fifo!FifoInit
<1> QED
  BY <1>1, FifoStep, TypeCorrect, PTL DEF Spec, ImplementsFifo, Fifo!FifoSpec

(***************************************************************************)
(* The same of the queue as the threads use it, with the notification pipe *)
(* around it: SendThread, SendMasterMsg and the handlers only ever take    *)
(* steps of the ring.                                                      *)
(***************************************************************************)
THEOREM PipeRefinesFifo == PipeSpec => ImplementsFifo
<1>1. PipeInit => Init
  BY Zenon DEF PipeInit
<1>2. ASSUME [PipeNext]_pipeVars PROVE [Next]_vars
  <2>1. ASSUME NEW p \in Producers, NEW v \in Values, BeginSend(p, v) PROVE Next
    BY Zenon, <2>1 DEF BeginSend, Next
  <2>2. ASSUME NEW p \in Producers, SendBlocks(p) \/ SendPush(p) PROVE Next
    BY Zenon, <2>2 DEF SendBlocks, SendPush, Next
  <2>3. ASSUME NEW p \in Producers, WriteByte(p) PROVE UNCHANGED vars
    BY Zenon, <2>3 DEF WriteByte
  <2>4. ASSUME NEW c \in Consumers, HandlerRead(c) \/ HandlerPop(c) PROVE Next
    BY Zenon, <2>4 DEF HandlerRead, HandlerPop, Next
  <2>5. ASSUME SpuriousPushWake PROVE Next
    BY Zenon, <2>5 DEF Next
  <2>6. ASSUME UNCHANGED pipeVars PROVE UNCHANGED vars
    BY Zenon, <2>6 DEF pipeVars
  <2> QED
    BY Zenon, <1>2, <2>1, <2>2, <2>3, <2>4, <2>5, <2>6 DEF PipeNext
<1>3. PipeSpec => Spec
  BY <1>1, <1>2, PTL DEF PipeSpec, Spec
<1> QED
  BY <1>3, RefinesFifo, PTL
=============================================================================
