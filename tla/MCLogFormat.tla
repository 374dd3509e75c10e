---------------------------- MODULE MCLogFormat ----------------------------
(* Instance of LogFormat for TLC. *)
EXTENDS LogFormat
=============================================================================
