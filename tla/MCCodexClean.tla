----------------------------- MODULE MCCodexClean -----------------------------
EXTENDS CodexClean, TLC

CONSTANTS p1, p2, a, b, r1, r2

Symmetric == Permutations(Procs) \cup Permutations(Plans) \cup Permutations(Requests)
=============================================================================
