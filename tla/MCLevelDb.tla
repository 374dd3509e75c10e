----------------------------- MODULE MCLevelDb -----------------------------
(* Instance of LevelDb for TLC. *)
EXTENDS LevelDb, TLC

Symmetry == Permutations(Writers)
=============================================================================
