------------------------------ MODULE MCLevels ------------------------------
(* Instance of Levels for TLC. *)
EXTENDS Levels
=============================================================================
