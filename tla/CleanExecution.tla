---------------------------- MODULE CleanExecution ----------------------------
(***************************************************************************)
(* What a host promises when it executes clean plans: the status of a plan *)
(* moves along the table of contracts.ts, nothing is taken out of a        *)
(* context before its plan was published as scheduled, and a plan is       *)
(* reported as applied only for what was taken out.  A plan may end        *)
(* otherwise although it was carried out: cancellation does not wait.      *)
(*                                                                         *)
(* Codex, Claude Code, OpenClaw and the DeepSeek Harness each implement    *)
(* this with requests that interleave, fail and die.                       *)
(***************************************************************************)
EXTENDS CleanContracts

CONSTANTS Plans,
          Durable  \* what was taken out stays out, whatever fails

VARIABLES status,  \* of the shared receipt of each plan
          carried  \* plans whose items were taken out of the context

vars == <<status, carried>>

ExecutionTypeOK == status \in [Plans -> Status] /\ carried \subseteq Plans

Init == status \in [Plans -> {"analyzed", "approved"}] /\ carried = {}

\* Approval, publication and every end but the applied one.
Advance(q) ==
  /\ \E s \in Status \ {"applied"} :
       <<status[q], s>> \in Transitions /\ status' = [status EXCEPT ![q] = s]
  /\ UNCHANGED carried

CarryOut(q) ==
  /\ status[q] \notin {"analyzed", "approved"}
  /\ carried' = carried \cup {q}
  /\ UNCHANGED status

Report(q) ==
  /\ q \in carried
  /\ <<status[q], "applied">> \in Transitions
  /\ status' = [status EXCEPT ![q] = "applied"]
  /\ UNCHANGED carried

\* A copy that was damaged is rebuilt with everything that nobody has reported yet.
Lose ==
  /\ ~Durable
  /\ carried' \in SUBSET carried
  /\ \A q \in carried \ carried' : status[q] # "applied"
  /\ UNCHANGED status

Next == Lose \/ \E q \in Plans : Advance(q) \/ CarryOut(q) \/ Report(q)

Spec == Init /\ [][Next]_vars
===============================================================================
