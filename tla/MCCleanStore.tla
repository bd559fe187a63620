----------------------------- MODULE MCCleanStore -----------------------------
(* Two processes, two tasks and selections that differ in tasks and in order. *)
EXTENDS CleanStore, TLC

CONSTANTS p1, p2, a, b

MCRequests  == {<<a, b>>, <<b, a>>, <<a>>}
MCSymmetry  == Permutations(Procs)
=============================================================================
