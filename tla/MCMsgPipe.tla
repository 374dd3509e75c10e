----------------------------- MODULE MCMsgPipe -----------------------------
(* Instance of MsgPipe for TLC. *)
EXTENDS MsgPipe
=============================================================================
