---------------------------- MODULE CleanContracts ----------------------------
(***************************************************************************)
(* The status vocabulary of the Context Cleaner (contracts.ts).            *)
(***************************************************************************)
Status   == {"analyzed", "approved", "scheduled",
             "applied", "stale", "cancelled", "failed"}
Terminal == {"applied", "stale", "cancelled", "failed"}

Transitions ==
  ({"analyzed"}  \X {"approved", "cancelled", "failed"}) \cup
  ({"approved"}  \X {"scheduled", "stale", "cancelled", "failed"}) \cup
  ({"scheduled"} \X {"applied", "stale", "cancelled", "failed"})

CanTransition(from, to) == from = to \/ <<from, to>> \in Transitions
=============================================================================
