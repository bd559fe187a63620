--------------------------------- MODULE Mutex ---------------------------------
(***************************************************************************)
(* What the models of sessions expect of a lock: it is taken when nobody   *)
(* has it, and one process at a time lets go of it, by releasing it or by  *)
(* dying.  A lock that can break keeps this promise until it does, stays   *)
(* broken for good, and does not hand itself to anybody by breaking.       *)
(*                                                                         *)
(* The lock directory, the lock file of the Codex journal and the lock of  *)
(* OpenClaw each implement this with files that are created, judged,       *)
(* renamed and removed by processes that may stop anywhere.                *)
(***************************************************************************)
CONSTANTS Procs,
          Breaks  \* the lock can break

VARIABLES holders, broken

vars == <<holders, broken>>

Init == holders = {} /\ broken = FALSE

Take(p) ==
  /\ broken \/ holders = {}
  /\ holders' = holders \cup {p}
  /\ UNCHANGED broken

LetGo(p) ==
  /\ p \in holders
  /\ holders' = holders \ {p}
  /\ UNCHANGED broken

Break ==
  /\ Breaks
  /\ broken' = TRUE
  /\ UNCHANGED holders

Next == Break \/ \E p \in Procs : Take(p) \/ LetGo(p)

Spec == Init /\ [][Next]_vars
================================================================================
