---------------------------- MODULE MCAddressSpace ---------------------------
EXTENDS AddressSpace, TLC

CONSTANTS p1, p2, p3

ProcSymmetry == Permutations(Proc)
==============================================================================
