------------------------------ MODULE MCVolume ------------------------------
EXTENDS Volume, TLC

MCNameLen == [n \in Names |-> 1]
Symmetry == Permutations(UserNames)
=============================================================================
