-------------------------------- MODULE DshClean --------------------------------
(***************************************************************************)
(* Clean plans of one session of the DeepSeek Harness.  A plan is          *)
(* scheduled in two phases: the shared receipt is approved, the host       *)
(* writes its pointer (one per session), and only then is the receipt      *)
(* published as scheduled.  The next agent request claims the pointer,     *)
(* rewrites the surface of the live session, records the receipt and       *)
(* closes the pointer.                                                     *)
(*                                                                         *)
(* A process is one operation in flight: a pre-step of an agent request,   *)
(* an approval or a cancellation.  Operations interleave at every await.   *)
(* An update of the pointer is one step here, since it is a read and a     *)
(* rename under the session's directory lock; so is a receipt transition,  *)
(* by CleanStore's refinement of CleanLifecycle.                           *)
(***************************************************************************)
EXTENDS Naturals, CleanContracts

CONSTANTS Procs,        \* operations in flight
          Plans,        \* clean plans of the session
          None,
          ExternalCli,  \* the product CLI may cancel as well
          MaxRuns,      \* bound: a plan claimed so often is not scheduled again
          MaxFaults     \* bound on crashes, failed writes and lock timeouts

ASSUME DshCleanAssumption ==
  /\ None \notin Plans
  /\ ExternalCli \in BOOLEAN
  /\ MaxRuns \in Nat /\ MaxFaults \in Nat

VARIABLES receipt,   \* status of the shared receipt of each plan
          pointer,   \* the schedule record of the session
          closed,    \* plans whose pointer was terminal once (history)
          runs,      \* claims of each plan so far; the last one is its claim id
          surface,   \* what the session still shows of the selected items
          rewrites,  \* rewrites of the surface for each plan so far (history)
          pc,        \* control point of each operation
          loc,       \* its plan, claim id and the status it is about to write
          faults     \* crashes, failed writes and lock timeouts so far

shared  == <<receipt, pointer, closed>>
session == <<surface, rewrites>>
locals  == <<pc, loc>>
vars    == <<receipt, pointer, closed, runs, surface, rewrites, pc, loc, faults>>

-------------------------------------------------------------------------------
PointerStatus == {"none", "scheduled", "claimed", "terminal"}

\* All items shown; one was taken off by eviction or compaction; only some of the
\* replacements landed; all of them did.
Surfaces == {"whole", "lost", "part", "stub"}

Results == Terminal \cup {"none"}

Pointer == [status : PointerStatus, plan : Plans \cup {None}, claim : Nat, result : Results]
Local   == [plan : Plans \cup {None}, claim : Nat, result : Results]

NoPointer == [status |-> "none", plan |-> None, claim |-> 0, result |-> "none"]
NoLocal   == [plan |-> None, claim |-> 0, result |-> "none"]

Labels == {"idle", "point", "publish", "abort", "cancelLocal", "cancelShared", "check",
           "claim", "prepare", "apply", "record", "finalize", "reconcile", "abandon"}

\* Control points of an execution that has claimed its plan.
Executing == {"prepare", "apply", "record"}

TypeOK ==
  /\ receipt  \in [Plans -> Status]
  /\ pointer  \in Pointer
  /\ closed   \subseteq Plans
  /\ runs     \in [Plans -> Nat]
  /\ surface  \in [Plans -> Surfaces]
  /\ rewrites \in [Plans -> Nat]
  /\ pc       \in [Procs -> Labels]
  /\ loc      \in [Procs -> Local]
  /\ faults   \in 0..MaxFaults

Init ==
  /\ receipt  = [q \in Plans |-> "analyzed"]
  /\ pointer  = NoPointer
  /\ closed   = {}
  /\ runs     = [q \in Plans |-> 0]
  /\ surface  = [q \in Plans |-> "whole"]
  /\ rewrites = [q \in Plans |-> 0]
  /\ pc       = [p \in Procs |-> "idle"]
  /\ loc      = [p \in Procs |-> NoLocal]
  /\ faults   = 0

-------------------------------------------------------------------------------
Goto(p, label, l) ==
  /\ pc'  = [pc  EXCEPT ![p] = label]
  /\ loc' = [loc EXCEPT ![p] = l]

Finish(p) == Goto(p, "idle", NoLocal)

PlanOf(p)    == loc[p].plan
ReceiptOf(p) == receipt[PlanOf(p)]

\* The local state of a process that is about to write status s.
Writing(p, s) == [loc[p] EXCEPT !.result = s]

Points(status, q) == pointer.status = status /\ pointer.plan = q

\* The shared store takes a new receipt if its status is a step forward.
Recordable(q, s) == <<receipt[q], s>> \in Transitions

SetReceipt(q, s) == receipt' = [receipt EXCEPT ![q] = s]

\* A pointer becomes terminal and keeps the identity it had.
ClosePointer(s) ==
  /\ pointer' = [pointer EXCEPT !.status = "terminal", !.result = s]
  /\ closed'  = closed \cup {pointer.plan}

-------------------------------------------------------------------------------
\* approveCleanSelection: approved, or the state an earlier approval has reached.
Approve(p) ==
  /\ pc[p] = "idle"
  /\ \E q \in Plans :
       /\ receipt[q] \in {"analyzed", "approved", "scheduled"}
       /\ IF receipt[q] = "analyzed" THEN SetReceipt(q, "approved") ELSE UNCHANGED receipt
       /\ Goto(p, "point", [NoLocal EXCEPT !.plan = q])
  /\ UNCHANGED <<pointer, closed, runs, session, faults>>

\* Mutant: a claimed record gives way as well.
VacantIfClaimed(q) == pointer.status # "scheduled" /\ pointer.plan # q

\* scheduleDshCleanerPlan.  A terminal record gives way to another plan only.
Vacant(q) == pointer.status = "none" \/ (pointer.status = "terminal" /\ pointer.plan # q)

WritePointer(p) ==
  /\ pc[p] = "point"
  /\ \/ /\ Vacant(PlanOf(p)) /\ runs[PlanOf(p)] < MaxRuns
        /\ pointer' = [NoPointer EXCEPT !.status = "scheduled", !.plan = PlanOf(p)]
     \/ Points("scheduled", PlanOf(p)) /\ UNCHANGED pointer
  /\ Goto(p, "publish", loc[p])
  /\ UNCHANGED <<receipt, closed, runs, session, faults>>

\* Mutant: the approval goes on to publish although the pointer was refused.
PointerRefusedButPublished(p) ==
  /\ pc[p] = "point"
  /\ ~Vacant(PlanOf(p)) /\ ~Points("scheduled", PlanOf(p))
  /\ Goto(p, "publish", loc[p])
  /\ UNCHANGED <<shared, runs, session, faults>>

\* Another plan is scheduled or claimed, or this one is claimed or done.
PointerRefused(p) ==
  /\ pc[p] = "point" /\ ~Points("scheduled", PlanOf(p))
  /\ Vacant(PlanOf(p)) => runs[PlanOf(p)] = MaxRuns
  /\ Finish(p)
  /\ UNCHANGED <<shared, runs, session, faults>>

\* finalizeCleanSchedule.
Publish(p) ==
  /\ pc[p] = "publish"
  /\ \/ /\ ReceiptOf(p) = "approved" /\ SetReceipt(PlanOf(p), "scheduled")
        /\ Finish(p)
     \/ /\ ReceiptOf(p) \in {"scheduled", "applied"} /\ UNCHANGED receipt
        /\ Finish(p)
     \/ /\ ReceiptOf(p) \in Terminal \ {"applied"} /\ UNCHANGED receipt
        /\ Goto(p, "abort", Writing(p, ReceiptOf(p)))
  /\ UNCHANGED <<pointer, closed, runs, session, faults>>

\* abortHostSchedule: the plan ended while it was being scheduled.
Abort(p) ==
  /\ pc[p] = "abort"
  /\ IF Points("scheduled", PlanOf(p)) \/ Points("claimed", PlanOf(p))
     THEN ClosePointer(loc[p].result) ELSE UNCHANGED <<pointer, closed>>
  /\ Finish(p)
  /\ UNCHANGED <<receipt, runs, session, faults>>

-------------------------------------------------------------------------------
\* The native command reads the pointer first; it refuses a plan that is claimed,
\* and any plan while another one is scheduled.
Cancel(p) ==
  /\ pc[p] = "idle"
  /\ \E q \in Plans :
       \/ /\ Points("scheduled", q)
          /\ Goto(p, "cancelLocal", [NoLocal EXCEPT !.plan = q])
       \/ /\ pointer.status # "scheduled" /\ ~Points("claimed", q)
          /\ Goto(p, "cancelShared", [NoLocal EXCEPT !.plan = q])
  /\ UNCHANGED <<shared, runs, session, faults>>

\* cancelDshCleanerSchedule: cancellation and claim compete for the pointer.
CancelLocal(p) ==
  /\ pc[p] = "cancelLocal"
  /\ IF Points("scheduled", PlanOf(p))
     THEN ClosePointer("cancelled") /\ Goto(p, "cancelShared", loc[p])
     ELSE /\ UNCHANGED <<pointer, closed>>
          /\ IF Points("terminal", PlanOf(p)) /\ pointer.result = "cancelled"
             THEN Goto(p, "cancelShared", loc[p]) ELSE Finish(p)
  /\ UNCHANGED <<receipt, runs, session, faults>>

CancelShared(p) ==
  /\ pc[p] = "cancelShared"
  /\ IF Recordable(PlanOf(p), "cancelled")
     THEN SetReceipt(PlanOf(p), "cancelled") ELSE UNCHANGED receipt
  /\ Finish(p)
  /\ UNCHANGED <<pointer, closed, runs, session, faults>>

\* The control service of another process cancels the shared receipt alone.
CancelExternally ==
  /\ ExternalCli
  /\ \E q \in Plans : Recordable(q, "cancelled") /\ SetReceipt(q, "cancelled")
  /\ UNCHANGED <<pointer, closed, runs, session, locals, faults>>

-------------------------------------------------------------------------------
\* Mutant: a claim that was left behind is nobody's business.
PreStepIfScheduled(p) ==
  /\ pc[p] = "idle" /\ pointer.status = "scheduled"
  /\ Goto(p, "check", [NoLocal EXCEPT !.plan = pointer.plan, !.claim = pointer.claim])
  /\ UNCHANGED <<shared, runs, session, faults>>

\* agent/pre-step: the pointer is read once, without the lock.
PreStep(p) ==
  /\ pc[p] = "idle" /\ pointer.status \in {"scheduled", "claimed"}
  /\ Goto(p, IF pointer.status = "scheduled" THEN "check" ELSE "reconcile",
          [NoLocal EXCEPT !.plan = pointer.plan, !.claim = pointer.claim])
  /\ UNCHANGED <<shared, runs, session, faults>>

\* isSharedScheduleReady
Check(p) ==
  /\ pc[p] = "check"
  /\ IF ReceiptOf(p) = "scheduled" THEN Goto(p, "claim", loc[p]) ELSE Finish(p)
  /\ UNCHANGED <<shared, runs, session, faults>>

\* Mutant: a claim that somebody else holds is taken over.
ClaimAgain(p) ==
  /\ pc[p] = "claim" /\ (Points("scheduled", PlanOf(p)) \/ Points("claimed", PlanOf(p)))
  /\ runs' = [runs EXCEPT ![PlanOf(p)] = @ + 1]
  /\ pointer' = [pointer EXCEPT !.status = "claimed", !.claim = runs'[PlanOf(p)]]
  /\ Goto(p, "prepare", [loc[p] EXCEPT !.claim = runs'[PlanOf(p)]])
  /\ UNCHANGED <<receipt, closed, session, faults>>

\* claimDshCleanerSchedule, with a claim id of its own.
Claim(p) ==
  /\ pc[p] = "claim" /\ Points("scheduled", PlanOf(p))
  /\ runs' = [runs EXCEPT ![PlanOf(p)] = @ + 1]
  /\ pointer' = [pointer EXCEPT !.status = "claimed", !.claim = runs'[PlanOf(p)]]
  /\ Goto(p, "prepare", [loc[p] EXCEPT !.claim = runs'[PlanOf(p)]])
  /\ UNCHANGED <<receipt, closed, session, faults>>

NotClaimed(p) ==
  /\ pc[p] = "claim" /\ ~Points("scheduled", PlanOf(p))
  /\ Finish(p)
  /\ UNCHANGED <<shared, runs, session, faults>>

\* prepareScheduledClean: terminal, ready, or a validation that says no.
Prepare(p) ==
  /\ pc[p] = "prepare"
  /\ \/ /\ ReceiptOf(p) \in Terminal
        /\ Goto(p, "finalize", Writing(p, ReceiptOf(p)))
     \/ /\ ReceiptOf(p) = "scheduled" /\ surface[PlanOf(p)] = "whole"
        /\ Goto(p, "apply", loc[p])
     \/ /\ ReceiptOf(p) = "scheduled"
        /\ \E s \in {"stale", "failed"} : Goto(p, "record", Writing(p, s))
  /\ UNCHANGED <<shared, runs, session, faults>>

\* Some selected item is still on the surface and is not a stub of this clean.
HasTargets(q) == surface[q] # "stub"

\* Mutant: a partial transaction counts as committed.
RewriteInPart(p) ==
  /\ pc[p] = "apply" /\ HasTargets(PlanOf(p))
  /\ \E s \in {"stub", "part"} : surface' = [surface EXCEPT ![PlanOf(p)] = s]
  /\ Goto(p, "record", Writing(p, "applied"))
  /\ rewrites' = [rewrites EXCEPT ![PlanOf(p)] = @ + 1]
  /\ UNCHANGED <<shared, runs, faults>>

\* applyEvictionTransaction, one synchronous piece of code: all replacements land,
\* some do, or none does; an item that has left the surface is passed over.
Rewrite(p) ==
  /\ pc[p] = "apply" /\ HasTargets(PlanOf(p))
  /\ \E s \in {"stub", "part"} :
       /\ surface' = [surface EXCEPT ![PlanOf(p)] = s]
       /\ Goto(p, "record", Writing(p, IF s = "stub" THEN "applied" ELSE "failed"))
  /\ rewrites' = [rewrites EXCEPT ![PlanOf(p)] = @ + 1]
  /\ UNCHANGED <<shared, runs, faults>>

Deferred(p) ==
  /\ pc[p] = "apply"
  /\ Goto(p, "record", Writing(p, "stale"))
  /\ UNCHANGED <<shared, runs, session, faults>>

\* Mutant: the pointer reports the result although the receipt was not saved.
UnrecordedAsIs(p) == Goto(p, "finalize", loc[p])

\* What the caller does with a receipt that was not saved: a stale one is left to
\* a later request, the others close the pointer as failed.
Unrecorded(p) ==
  IF loc[p].result = "stale" THEN Finish(p) ELSE Goto(p, "finalize", Writing(p, "failed"))

Record(p) ==
  /\ pc[p] = "record"
  /\ IF Recordable(PlanOf(p), loc[p].result)
     THEN SetReceipt(PlanOf(p), loc[p].result) /\ Goto(p, "finalize", loc[p])
     ELSE UNCHANGED receipt /\ Unrecorded(p)
  /\ UNCHANGED <<pointer, closed, runs, session, faults>>

\* finalizeDshCleanerSchedule with the claim id of the caller.
OwnsPointer(p) == Points("claimed", PlanOf(p)) /\ pointer.claim = loc[p].claim

Finalize(p) ==
  /\ pc[p] = "finalize"
  /\ IF OwnsPointer(p)
     THEN ClosePointer(loc[p].result) ELSE UNCHANGED <<pointer, closed>>
  /\ Finish(p)
  /\ UNCHANGED <<receipt, runs, session, faults>>

\* reconcileClaimedSchedule: a claim somebody else made, or that ended in an
\* exception.  It repeats a terminal receipt ...
Repair(p) ==
  /\ pc[p] = "reconcile" /\ ReceiptOf(p) \in Terminal
  /\ Goto(p, "finalize", Writing(p, ReceiptOf(p)))
  /\ UNCHANGED <<shared, runs, session, faults>>

\* ... gives up a claim that is 30 seconds old, alive or not ...
Expire(p) ==
  /\ pc[p] = "reconcile" /\ ReceiptOf(p) = "scheduled"
  /\ Goto(p, "abandon", Writing(p, "failed"))
  /\ UNCHANGED <<shared, runs, session, faults>>

\* ... and leaves a younger one alone.
Wait(p) ==
  /\ pc[p] = "reconcile" /\ ReceiptOf(p) \notin Terminal
  /\ Finish(p)
  /\ UNCHANGED <<shared, runs, session, faults>>

Abandon(p) ==
  /\ pc[p] = "abandon"
  /\ IF Recordable(PlanOf(p), "failed")
     THEN SetReceipt(PlanOf(p), "failed") /\ Goto(p, "finalize", loc[p])
     ELSE UNCHANGED receipt /\ Finish(p)
  /\ UNCHANGED <<pointer, closed, runs, session, faults>>

-------------------------------------------------------------------------------
\* Automatic eviction or native compaction takes a selected item off the surface.
Drift ==
  /\ \E q \in Plans :
       surface[q] = "whole" /\ surface' = [surface EXCEPT ![q] = "lost"]
  /\ UNCHANGED <<shared, runs, rewrites, locals, faults>>

Fault == faults < MaxFaults /\ faults' = faults + 1

\* A store or the lock is not available.  Preparing without a receipt is skipped,
\* an exception after the claim is reconciled, everything else ends here.
WriteFails(p) ==
  /\ Fault
  /\ \/ pc[p] = "prepare" /\ Goto(p, "finalize", Writing(p, "failed"))
     \/ pc[p] = "record" /\ Unrecorded(p)
     \/ pc[p] \in {"apply", "finalize"} /\ Goto(p, "reconcile", loc[p])
     \/ pc[p] \notin {"idle", "prepare", "record", "apply"} /\ Finish(p)
  /\ UNCHANGED <<shared, runs, session>>

\* The harness dies with everything it was doing; its log is durable.
Crash ==
  /\ Fault
  /\ pc'  = [p \in Procs |-> "idle"]
  /\ loc' = [p \in Procs |-> NoLocal]
  /\ UNCHANGED <<shared, runs, session>>

-------------------------------------------------------------------------------
Scheduling(p)   == WritePointer(p) \/ PointerRefused(p) \/ Publish(p) \/ Abort(p)
Cancelling(p)   == CancelLocal(p) \/ CancelShared(p)
Execution(p)    == Check(p) \/ Claim(p) \/ NotClaimed(p) \/ Prepare(p) \/ Rewrite(p)
                   \/ Deferred(p) \/ Record(p) \/ Finalize(p)
Reconciling(p)  == Repair(p) \/ Wait(p) \/ Abandon(p)

Step(p) ==
  \/ Approve(p) \/ Cancel(p) \/ PreStep(p) \/ Scheduling(p) \/ Cancelling(p)
  \/ Execution(p) \/ Reconciling(p) \/ Expire(p) \/ WriteFails(p)

Next == CancelExternally \/ Drift \/ Crash \/ \E p \in Procs : Step(p)

Spec == Init /\ [][Next]_vars

\* Agent requests keep coming, an operation in flight goes on, and a claim that is
\* looked at again and again is 30 seconds old in the end.
Fairness ==
  \A p \in Procs :
    /\ SF_vars(PreStep(p)) /\ SF_vars(Expire(p))
    /\ WF_vars(Scheduling(p)) /\ WF_vars(Cancelling(p))
    /\ WF_vars(Execution(p)) /\ WF_vars(Reconciling(p))

FairSpec == Spec /\ Fairness

-------------------------------------------------------------------------------
\* Nobody takes the claim from an execution in flight before the receipt is terminal:
\* not an abort, a cancellation, a reconciliation or the next plan of the session.
ClaimIsHeld ==
  \A p \in Procs :
    pc[p] \in Executing => OwnsPointer(p) \/ ReceiptOf(p) \in Terminal

\* However often a plan is scheduled, claimed, abandoned and retried, the surface is
\* rewritten for it at most once.
RewrittenOnce == \A q \in Plans : rewrites[q] <= 1

\* An applied receipt was earned: every replacement landed, in one rewrite.
AppliedIsComplete ==
  \A q \in Plans : receipt[q] = "applied" => surface[q] = "stub" /\ rewrites[q] = 1

\* A pointer that reports a clean or a stale plan repeats the shared receipt.
PointerNeverOverstates ==
  pointer.status = "terminal" /\ pointer.result \in {"applied", "stale"} =>
    receipt[pointer.plan] = pointer.result

\* What two-phase scheduling is for: a scheduled receipt has, or has had, a pointer.
ScheduledHasPointer ==
  \A q \in Plans : receipt[q] = "scheduled" => pointer.plan = q \/ q \in closed

\* To everybody who looks at the receipts and at the surface, the operations of the
\* harness are an execution of plans: a rewrite in part is none.
DshExecution == INSTANCE CleanExecution WITH
  Durable <- TRUE, status <- receipt, carried <- {q \in Plans : surface[q] = "stub"}

DshExecutes == DshExecution!Spec

\* A claim does not outlive its execution for ever, whatever crashed.
ClaimsAreResolved ==
  \A q \in Plans : Points("claimed", q) ~> ~Points("claimed", q)

\* cancel(): no rewrite once the user has seen a cancellation.
CancelledIsNotExecuted ==
  \A q \in Plans : receipt[q] = "cancelled" => rewrites[q] = 0
=============================================================================
