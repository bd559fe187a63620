---------------------------- MODULE MCSessionLock ----------------------------
EXTENDS SessionLock, TLC
CONSTANTS p1, p2, p3
Symmetry == Permutations(Procs)
=============================================================================
