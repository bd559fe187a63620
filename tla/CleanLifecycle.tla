---------------------------- MODULE CleanLifecycle ----------------------------
(***************************************************************************)
(* What a clean plan promises to everybody who looks at it: one status     *)
(* that only moves along the table of contracts.ts, one selection that is  *)
(* chosen by the approval and never changes again, and a plan record       *)
(* ("published") that follows the receipt one status at a time.            *)
(*                                                                         *)
(* CleanStore implements this with three files, a lock and processes that  *)
(* may crash between any two writes.                                       *)
(***************************************************************************)
EXTENDS Sequences, CleanContracts

CONSTANT Tasks      \* ids of the selectable tasks of the plan

VARIABLES status,     \* "none" until the plan is analysed
          selection,  \* task ids the user approved, in the stored order
          published   \* status the plan record shows

vars == <<status, selection, published>>

LifecycleTypeOK ==
  /\ status    \in Status \cup {"none"}
  /\ published \in Status \cup {"none"}
  /\ selection \in Seq(Tasks)

Init == status = "none" /\ selection = <<>> /\ published = "none"

Analyze ==
  /\ status = "none"
  /\ status' = "analyzed" /\ published' = "analyzed"
  /\ UNCHANGED selection

\* The only step that chooses the selection.
Approve ==
  /\ status = "analyzed" /\ published = "analyzed"
  /\ status' = "approved"
  /\ selection' \in Seq(Tasks)
  /\ UNCHANGED published

\* Every other move keeps the selection and starts from a published status.
Advance ==
  /\ published = status
  /\ \E s \in Status \ {status} : CanTransition(status, s) /\ status' = s
  /\ UNCHANGED <<selection, published>>

Publish ==
  /\ published # status
  /\ published' = status
  /\ UNCHANGED <<status, selection>>

Next == Analyze \/ Approve \/ Advance \/ Publish

Spec == Init /\ [][Next]_vars
=============================================================================
