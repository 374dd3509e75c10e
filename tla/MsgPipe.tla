------------------------------ MODULE MsgPipe ------------------------------
(***************************************************************************)
(* A GentMsg queue together with the pipe that wakes its reader, as used   *)
(* by GentThread: SendThread and SendMasterMsg push the pointer and then   *)
(* write one byte; the reader's libevent handler (GentThread::Handle,      *)
(* GentRepMgr::MasterHandle) runs while the pipe is readable, reads one    *)
(* byte and pops one pointer.                                              *)
(***************************************************************************)
EXTENDS GentMsg

VARIABLES
  pipe,         \* bytes in the notification pipe
  writing       \* producers between their Push and their write()

pipeVars == <<vars, pipe, writing>>

PipeTypeOK ==
  /\ TypeOK
  /\ pipe \in Nat
  /\ writing \in SUBSET Producers

PipeInit == Init /\ pipe = 0 /\ writing = {}
-----------------------------------------------------------------------------
BeginSend(p, v) ==
  /\ p \notin writing
  /\ BeginPush(p, v)
  /\ UNCHANGED <<pipe, writing>>

SendBlocks(p) == PushWait(p) /\ UNCHANGED <<pipe, writing>>

SendPush(p) ==
  /\ Push(p)
  /\ writing' = writing \cup {p}
  /\ UNCHANGED pipe

ForgetByte(p) ==  \* a mutant: the byte is not written
  /\ p \in writing
  /\ writing' = writing \ {p}
  /\ UNCHANGED <<vars, pipe>>

WriteByte(p) ==
  /\ p \in writing
  /\ writing' = writing \ {p}
  /\ pipe' = pipe + 1
  /\ UNCHANGED vars

HandlerRead(c) ==
  /\ pipe > 0
  /\ pipe' = pipe - 1
  /\ BeginPop(c)
  /\ UNCHANGED writing

(* PopWait has no counterpart: HandlerNeverBlocks says that its condition  *)
(* is false whenever a handler reaches it.                                 *)
HandlerPop(c) == Pop(c) /\ UNCHANGED <<pipe, writing>>

PipeNext ==
  \/ \E p \in Producers : \/ \E v \in Values : BeginSend(p, v)
                          \/ SendBlocks(p)
                          \/ SendPush(p)
                          \/ WriteByte(p)
  \/ \E c \in Consumers : HandlerRead(c) \/ HandlerPop(c)
  \/ SpuriousPushWake /\ UNCHANGED <<pipe, writing>>

PipeSpec == PipeInit /\ [][PipeNext]_pipeVars

(* The threads keep running: the operating system schedules them and       *)
(* libevent calls the handler as long as the pipe is readable.             *)
FairPipeSpec ==
  /\ PipeSpec
  /\ \A p \in Producers : WF_pipeVars(SendPush(p)) /\ WF_pipeVars(WriteByte(p))
  /\ \A c \in Consumers : WF_pipeVars(HandlerRead(c)) /\ WF_pipeVars(HandlerPop(c))
-----------------------------------------------------------------------------
(***************************************************************************)
(* The event loop is never put to sleep inside Pop: the byte is written    *)
(* only after the pointer is in the ring, so a handler that got a byte     *)
(* finds a pointer, and a worker keeps serving its other connections.      *)
(***************************************************************************)
HandlerNeverBlocks == size_ >= Cardinality(popping)

(***************************************************************************)
(* Ring and pipe agree: every pointer in the ring is announced by a byte   *)
(* in the pipe, is about to be announced by the producer that stored it,   *)
(* or is about to be taken by the handler that read its byte.              *)
(***************************************************************************)
PipeMatchesRing == size_ = pipe + Cardinality(popping) + Cardinality(writing)

(***************************************************************************)
(* Every pointer in the ring is eventually popped by the handler on the    *)
(* other side, also while other producers wait for its slot: the byte that *)
(* announces it is written and not consumed for another pointer.           *)
(***************************************************************************)
InRing(v) == \E i \in 1 .. size_ : Contents[i] = v
SentIsHandled ==
  \A v \in Values : InRing(v) ~> (\E c \in Consumers : got[c] = v)
=============================================================================
