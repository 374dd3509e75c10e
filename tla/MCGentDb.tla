------------------------------ MODULE MCGentDb ------------------------------
(* The store on small instances.                                           *)
EXTENDS GentDb, TLC

Symmetry == Permutations(Workers) \cup Permutations(Keys)
=============================================================================
