--------------------------- MODULE MCRepRegistry ---------------------------
EXTENDS RepRegistry, TLC

Symmetry == Permutations(Names)
=============================================================================
