----------------------------- MODULE MCUserland ------------------------------
EXTENDS Userland, TLC

CONSTANTS s1, s2, s3, s4, s5

SlotSymmetry == Permutations(Slot)
==============================================================================
