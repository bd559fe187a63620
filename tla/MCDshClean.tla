------------------------------ MODULE MCDshClean ------------------------------
(* Instances of DshClean for TLC: interchangeable operations and plans. *)
EXTENDS DshClean, TLC

CONSTANTS p1, p2, p3, a, b

Symmetric == Permutations(Procs) \cup Permutations(Plans)
=============================================================================
