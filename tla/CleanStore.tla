------------------------------ MODULE CleanStore ------------------------------
(***************************************************************************)
(* The shared store of the Context Cleaner and the control plane on top of *)
(* it, for one plan id.  Three files hold the plan record, the receipt and *)
(* a write-ahead intent; a lock file guards them.  Every status change is  *)
(* the transaction  intent -> receipt -> plan -> unlink  (clean-state-     *)
(* coordinator.ts).  The control plane (orchestrator.ts) reads plan and    *)
(* receipt WITHOUT the lock before it asks for a transition, and again     *)
(* after a refused one.                                                    *)
(*                                                                         *)
(* A process is a CLI, an MCP server or a host proxy.  It may crash at any *)
(* step, leaving its lock file behind until that is older than             *)
(* LOCK_STALE_MS, and any write of a transaction may fail.  Files are      *)
(* written by rename, so a write is atomic.  What happens under the lock   *)
(* is split at its writes; the reads in between cannot change (Mutex).     *)
(***************************************************************************)
EXTENDS Naturals, Sequences, CleanContracts

CONSTANTS Procs,     \* processes that share the state directory
          Tasks,     \* selectable tasks of the plan
          Requests,  \* selections a user may submit, as lists of tasks
          Times,     \* clock values; stand for all content but status and selection
          TwoPhase   \* TRUE: composeContextCleanerHostBridge; FALSE: the control
                     \* plane's own executeApprovedClean (the Codex bridge)

ASSUME CleanStoreAssumption ==
  /\ Requests \subseteq Seq(Tasks)
  /\ <<>> \notin Requests
  /\ Times \subseteq Nat
  /\ TwoPhase \in BOOLEAN

VARIABLES plan,     \* status of the plan record, "none" when the file is missing
          receipt,  \* receipt file
          intent,   \* transaction file
          lock,     \* lock file: "free", "held" by a live process, "abandoned"
          pc,       \* control point of each process
          op,       \* operation a process executes
          job,      \* receipt the operation wants to record
          seen,     \* plan status the operation read without the lock
          reply     \* receipt the last finished call returned, NoReceipt if it threw

store  == <<plan, receipt, intent, lock>>
locals == <<pc, op, job, seen, reply>>
vars   == <<plan, receipt, intent, lock, pc, op, job, seen, reply>>

-------------------------------------------------------------------------------
MaybeStatus == Status \cup {"none"}
Receipt     == [status : MaybeStatus, sel : Seq(Tasks), at : Nat]
Intent      == [from : MaybeStatus, receipt : Receipt]
NoReceipt   == [status |-> "none", sel |-> <<>>, at |-> 0]
NoIntent    == [from |-> "none", receipt |-> NoReceipt]

\* The analyzed receipt is a function of the plan (createdAt is part of its id).
AnalyzedReceipt == [status |-> "analyzed", sel |-> <<>>, at |-> 0]

Elements(s)     == {s[i] : i \in 1..Len(s)}
SameTasks(s, t) == Len(s) = Len(t) /\ Elements(s) = Elements(t)

Ops == {"none", "analyze", "approve", "finalize", "cancel", "recover", "record"}

\* Control points inside withContextCleanStoreLock.
Locked == {"planWrite", "planUnlock", "begin", "complete", "savePlan",
           "unlink", "unlockOk", "unlockFail"}
Labels == Locked \cup {"idle", "planLock", "readPlan", "readReceipt", "lock",
                       "rereadPlan", "rereadReceipt"}

TypeOK ==
  /\ plan \in MaybeStatus /\ receipt \in Receipt /\ intent \in Intent
  /\ lock \in {"free", "held", "abandoned"}
  /\ pc    \in [Procs -> Labels]
  /\ op    \in [Procs -> Ops]
  /\ job   \in [Procs -> Receipt]
  /\ seen  \in [Procs -> MaybeStatus]
  /\ reply \in [Procs -> Receipt]

Init ==
  /\ plan = "none" /\ receipt = NoReceipt /\ intent = NoIntent /\ lock = "free"
  /\ pc    = [p \in Procs |-> "idle"]
  /\ op    = [p \in Procs |-> "none"]
  /\ job   = [p \in Procs |-> NoReceipt]
  /\ seen  = [p \in Procs |-> "none"]
  /\ reply = [p \in Procs |-> NoReceipt]

-------------------------------------------------------------------------------
\* Moving one process.
Goto(p, label) ==
  /\ pc' = [pc EXCEPT ![p] = label]
  /\ UNCHANGED <<op, job, seen, reply>>

Start(p, o, label, j) ==
  /\ pc'  = [pc EXCEPT ![p] = label]
  /\ op'  = [op EXCEPT ![p] = o]
  /\ job' = [job EXCEPT ![p] = j]
  /\ seen'  = [seen EXCEPT ![p] = "none"]
  /\ reply' = [reply EXCEPT ![p] = NoReceipt]

Finish(p, r) ==
  /\ pc'  = [pc EXCEPT ![p] = "idle"]
  /\ op'  = [op EXCEPT ![p] = "none"]
  /\ job' = [job EXCEPT ![p] = NoReceipt]
  /\ seen'  = [seen EXCEPT ![p] = "none"]
  /\ reply' = [reply EXCEPT ![p] = r]

Throw(p) == Finish(p, NoReceipt)

\* What approveCleanSelection returned decides whether the schedule follows:
\* the legacy path passes the caller's list on, the two-phase path the stored one.
Approved(p, r) ==
  IF r.status = "approved" \/ (TwoPhase /\ r.status = "scheduled")
  THEN \E t \in IF TwoPhase THEN {r.at} ELSE Times :
         Start(p, "finalize", "readPlan",
               [status |-> "scheduled", at |-> t,
                sel |-> IF TwoPhase THEN r.sel ELSE job[p].sel])
  ELSE Finish(p, r)

Replied(p, r) == IF op[p] = "approve" THEN Approved(p, r) ELSE Finish(p, r)

\* A refused transition: approve and finalize look again, the others throw.
Refused(p) ==
  IF op[p] \in {"approve", "finalize"} THEN Goto(p, "rereadPlan") ELSE Throw(p)

-------------------------------------------------------------------------------
\* Calls.  resolveAnalysisPlanId takes a new id when the plan is terminal.
CallAnalyze(p) ==
  /\ pc[p] = "idle" /\ plan \notin Terminal
  /\ Start(p, "analyze", "planLock", AnalyzedReceipt)
  /\ UNCHANGED store

CallApprove(p) ==
  /\ pc[p] = "idle" /\ plan # "none"
  /\ \E s \in Requests, t \in Times :
       Start(p, "approve", "readPlan", [status |-> "approved", sel |-> s, at |-> t])
  /\ UNCHANGED store

CallCancel(p) ==
  /\ pc[p] = "idle" /\ plan # "none"
  /\ \E t \in Times :
       Start(p, "cancel", "readPlan", [status |-> "cancelled", sel |-> <<>>, at |-> t])
  /\ UNCHANGED store

\* A host request executes the plan: it recovers the store, reads it, and at the
\* end records what came of it (prepareScheduledClean ... recordCleanReceipt).
CallHost(p) ==
  /\ pc[p] = "idle" /\ plan # "none"
  /\ \E s \in {"applied", "stale", "failed"}, t \in Times :
       Start(p, "recover", "lock", [status |-> s, sel |-> <<>>, at |-> t])
  /\ UNCHANGED store

-------------------------------------------------------------------------------
\* The lock file: created with "wx", given up after LOCK_TIMEOUT_MS.
AcquireLock(p) ==
  /\ lock = "free" /\ lock' = "held"
  /\ \/ pc[p] = "planLock" /\ Goto(p, "planWrite")
     \/ pc[p] = "lock"     /\ Goto(p, "begin")
  /\ UNCHANGED <<plan, receipt, intent>>

LockTimeout(p) ==
  /\ lock # "free"
  /\ \/ pc[p] = "planLock" /\ Throw(p)
     \/ pc[p] = "lock"     /\ Refused(p)
  /\ UNCHANGED store

\* After LOCK_STALE_MS somebody unlinks the file of a process that died.
ExpireLock ==
  /\ lock = "abandoned" /\ lock' = "free"
  /\ UNCHANGED <<plan, receipt, intent, locals>>

Unlock(p) ==
  /\ lock' = "free"
  /\ \/ pc[p] = "planUnlock" /\ Goto(p, "lock")
     \/ pc[p] = "unlockFail" /\ Refused(p)
     \/ /\ pc[p] = "unlockOk"
        /\ IF op[p] = "recover"
           THEN Start(p, "record", "readPlan", job[p])
           ELSE Replied(p, job[p])
  /\ UNCHANGED <<plan, receipt, intent>>

\* saveContextCleanPlan: an existing record of this id has the same content.
SavePlanRecord(p) ==
  /\ pc[p] = "planWrite"
  /\ plan' = IF plan = "none" THEN "analyzed" ELSE plan
  /\ Goto(p, "planUnlock")
  /\ UNCHANGED <<receipt, intent, lock>>

-------------------------------------------------------------------------------
\* Unlocked reads, the plan first and the receipt later.
ReadPlan(p) ==
  /\ \/ pc[p] = "readPlan"   /\ pc' = [pc EXCEPT ![p] = "readReceipt"]
     \/ pc[p] = "rereadPlan" /\ pc' = [pc EXCEPT ![p] = "rereadReceipt"]
  /\ seen' = [seen EXCEPT ![p] = plan]
  /\ UNCHANGED <<store, op, job, reply>>

\* The operation goes on to the locked transition with this receipt.
Propose(p, r) ==
  /\ pc'  = [pc EXCEPT ![p] = "lock"]
  /\ job' = [job EXCEPT ![p] = r]
  /\ UNCHANGED <<op, seen, reply>>

SameSelection(p) == SameTasks(receipt.sel, job[p].sel)

\* The plan is in the state the operation would bring it to, or past it.
Replay(p) ==
  /\ pc[p] = "readReceipt" /\ receipt.status # "none"
  /\ \/ seen[p] \in Terminal
     \/ /\ op[p] = "approve"  /\ seen[p] \in {"approved", "scheduled"}
        /\ receipt.status = seen[p] /\ SameSelection(p)
     \/ /\ op[p] = "finalize" /\ seen[p] = "scheduled"
        /\ receipt.status = "scheduled" /\ SameSelection(p)
  /\ Replied(p, receipt)
  /\ UNCHANGED store

DecideApprove(p) ==
  /\ pc[p] = "readReceipt" /\ op[p] = "approve" /\ seen[p] = "analyzed"
  /\ Propose(p, job[p])
  /\ UNCHANGED store

DecideFinalize(p) ==
  /\ pc[p] = "readReceipt" /\ op[p] = "finalize"
  /\ seen[p] = "approved" /\ receipt.status = "approved" /\ SameSelection(p)
  /\ Propose(p, job[p])
  /\ UNCHANGED store

DecideCancel(p) ==
  /\ pc[p] = "readReceipt" /\ op[p] = "cancel" /\ seen[p] \notin Terminal
  /\ Propose(p, [job[p] EXCEPT !.sel = receipt.sel])
  /\ UNCHANGED store

\* prepareScheduledClean found the plan ready, the host is done with its part.
DecideRecord(p) ==
  /\ pc[p] = "readReceipt" /\ op[p] = "record"
  /\ seen[p] = "scheduled" /\ receipt.status = "scheduled"
  /\ Propose(p, [job[p] EXCEPT !.sel = receipt.sel])
  /\ UNCHANGED store

\* Anything else is a conflict the caller sees as an error.
DecideConflict(p) ==
  /\ pc[p] = "readReceipt"
  /\ IF seen[p] \in Terminal THEN receipt.status = "none"
     ELSE \/ op[p] = "approve"  /\ seen[p] # "analyzed"
             /\ ~(receipt.status = seen[p] /\ SameSelection(p))
          \/ op[p] = "finalize"
             /\ ~(seen[p] \in {"approved", "scheduled"}
                    /\ receipt.status = seen[p] /\ SameSelection(p))
          \/ op[p] = "record"
             /\ ~(seen[p] = "scheduled" /\ receipt.status = "scheduled")
  /\ Throw(p)
  /\ UNCHANGED store

\* After a refused transition a winner's terminal receipt is replayed.
Reread(p) ==
  /\ pc[p] = "rereadReceipt"
  /\ IF \/ seen[p] \in Terminal /\ receipt.status # "none"
        \/ /\ op[p] = "finalize" /\ seen[p] = "scheduled"
           /\ receipt.status = "scheduled" /\ SameSelection(p)
     THEN Replied(p, receipt)
     ELSE Throw(p)
  /\ UNCHANGED store

-------------------------------------------------------------------------------
\* transitionContextCleanStateUnlocked: no transaction is pending, write one.
WriteIntent(p) ==
  /\ pc[p] = "begin" /\ op[p] # "recover" /\ intent = NoIntent
  /\ plan # "none" /\ CanTransition(plan, job[p].status)
  /\ intent' = [from |-> plan, receipt |-> job[p]]
  /\ Goto(p, "complete")
  /\ UNCHANGED <<plan, receipt, lock>>

\* Mutant: whatever is pending is completed and reported as the caller's own.
AdoptAnyIntent(p) ==
  /\ pc[p] = "begin" /\ intent # NoIntent
  /\ Goto(p, "complete")
  /\ UNCHANGED store

\* The same receipt is pending, or the caller came to recover: complete it.
AdoptIntent(p) ==
  /\ pc[p] = "begin" /\ intent # NoIntent
  /\ op[p] = "recover" \/ intent.receipt = job[p]
  /\ Goto(p, "complete")
  /\ UNCHANGED store

NothingToRecover(p) ==
  /\ pc[p] = "begin" /\ op[p] = "recover" /\ intent = NoIntent
  /\ Goto(p, "unlockOk")
  /\ UNCHANGED store

RefuseTransition(p) ==
  /\ pc[p] = "begin" /\ op[p] # "recover"
  /\ IF intent = NoIntent
     THEN plan = "none" \/ ~CanTransition(plan, job[p].status)
     ELSE intent.receipt # job[p]
  /\ Goto(p, "unlockFail")
  /\ UNCHANGED store

\* Mutant: a receipt that is already on disk counts as a conflict, same or not.
IntentObsoleteIfReceiptSaved ==
  LET r == intent.receipt IN
  \/ plan \notin {intent.from, r.status}
  \/ ~CanTransition(intent.from, r.status)
  \/ receipt.status = r.status

\* completeIntent: the intent no longer fits the plan or the receipt.
IntentObsolete ==
  LET r == intent.receipt IN
  \/ plan \notin {intent.from, r.status}
  \/ ~CanTransition(intent.from, r.status)
  \/ receipt.status = r.status /\ receipt # r

\* Mutant: the transaction file is marked instead of removed.
AbortIntentByMark(p) ==
  /\ pc[p] = "complete" /\ IntentObsolete
  /\ intent' = [intent EXCEPT !.from = "aborted"]
  /\ Goto(p, "unlockFail")
  /\ UNCHANGED <<plan, receipt, lock>>

AbortIntent(p) ==
  /\ pc[p] = "complete" /\ IntentObsolete
  /\ intent' = NoIntent
  /\ Goto(p, "unlockFail")
  /\ UNCHANGED <<plan, receipt, lock>>

\* Mutant: the selection may change with any transition.
ReceiptAcceptedAnySelection(r) ==
  /\ CanTransition(plan, r.status)
  /\ receipt.status # "none" => CanTransition(receipt.status, r.status)
  /\ Elements(r.sel) \subseteq Tasks

\* saveContextCleanReceiptUnlocked accepts r as the next receipt.
ReceiptAccepted(r) ==
  /\ CanTransition(plan, r.status)
  /\ receipt.status # "none" =>
       /\ CanTransition(receipt.status, r.status)
       /\ \/ receipt.status = "analyzed" /\ r.status = "approved"
          \/ receipt.sel = r.sel
  /\ r.status = "analyzed" => r.sel = <<>>
  /\ Elements(r.sel) \subseteq Tasks

SaveReceipt(p) ==
  /\ pc[p] = "complete" /\ ~IntentObsolete
  /\ receipt.status = intent.receipt.status \/ ReceiptAccepted(intent.receipt)
  /\ receipt' = intent.receipt
  /\ Goto(p, "savePlan")
  /\ UNCHANGED <<plan, intent, lock>>

\* A receipt the store rejects leaves the transaction file where it is.
ReceiptRejected(p) ==
  /\ pc[p] = "complete" /\ ~IntentObsolete
  /\ receipt.status # intent.receipt.status /\ ~ReceiptAccepted(intent.receipt)
  /\ Goto(p, "unlockFail")
  /\ UNCHANGED store

SavePlan(p) ==
  /\ pc[p] = "savePlan"
  /\ CanTransition(plan, intent.receipt.status)
  /\ plan' = intent.receipt.status
  /\ Goto(p, "unlink")
  /\ UNCHANGED <<receipt, intent, lock>>

UnlinkIntent(p) ==
  /\ pc[p] = "unlink"
  /\ intent' = NoIntent
  /\ Goto(p, "unlockOk")
  /\ UNCHANGED <<plan, receipt, lock>>

\* A write or unlink fails: the call is bypassed and the files stay as they are.
WriteFails(p) ==
  /\ pc[p] \in {"planWrite", "begin", "complete", "savePlan", "unlink"}
  /\ Goto(p, "unlockFail")
  /\ UNCHANGED store

\* The process dies; whatever it wrote stays, a lock file it held too.
Crash(p) ==
  /\ pc[p] # "idle"
  /\ lock' = IF pc[p] \in Locked THEN "abandoned" ELSE lock
  /\ Throw(p)
  /\ UNCHANGED <<plan, receipt, intent>>

-------------------------------------------------------------------------------
Call(p)     == CallAnalyze(p) \/ CallApprove(p) \/ CallCancel(p) \/ CallHost(p)
Locking(p)  == AcquireLock(p) \/ LockTimeout(p) \/ Unlock(p)
Deciding(p) == \/ ReadPlan(p) \/ Replay(p) \/ DecideApprove(p) \/ DecideFinalize(p)
               \/ DecideCancel(p) \/ DecideRecord(p) \/ DecideConflict(p) \/ Reread(p)
Writing(p)  == \/ SavePlanRecord(p) \/ WriteIntent(p) \/ AdoptIntent(p)
               \/ NothingToRecover(p) \/ RefuseTransition(p) \/ AbortIntent(p)
               \/ SaveReceipt(p) \/ ReceiptRejected(p) \/ SavePlan(p) \/ UnlinkIntent(p)

Step(p) == Locking(p) \/ Deciding(p) \/ Writing(p)

Next ==
  \/ \E p \in Procs : Call(p) \/ Step(p) \/ WriteFails(p) \/ Crash(p)
  \/ ExpireLock

Spec == Init /\ [][Next]_vars

-------------------------------------------------------------------------------
\* The receipt is ahead of the plan record by at most one transition, and then
\* the transaction file says which one, so that recovery can finish it: no crash,
\* failed write or lost race leaves plan and receipt apart without a log.
ReceiptAheadIsLogged ==
  \/ receipt.status = plan
  \/ receipt = NoReceipt /\ plan = "analyzed"
  \/ /\ intent.receipt = receipt /\ intent.from = plan
     /\ <<plan, receipt.status>> \in Transitions

\* What a finished call told its caller stays true: a terminal receipt is the one
\* on disk for ever (a replayed cancellation included), and an approval or a
\* schedule that was acknowledged is never stored with other tasks.
Durable(r) ==
  /\ r.status \in Terminal => receipt = r /\ plan = r.status
  /\ r.status \in {"approved", "scheduled"} =>
       receipt.sel = r.sel /\ receipt.status \notin {"none", "analyzed"}

RepliesAreDurable == \A p \in Procs : Durable(reply[p])

\* The store implements the lifecycle: the receipt is the status, the plan record
\* what is published of it.
LifecycleStatus == IF receipt.status = "none" THEN plan ELSE receipt.status

Lifecycle == INSTANCE CleanLifecycle WITH
  status <- LifecycleStatus, selection <- receipt.sel, published <- plan

ImplementsLifecycle == Lifecycle!Spec

\* A transaction file never bricks the plan: what is pending can be completed, or
\* the next recovery throws it away.
PendingIntentNeverBricks ==
  intent # NoIntent =>
    \/ IntentObsolete
    \/ receipt.status = intent.receipt.status
    \/ ReceiptAccepted(intent.receipt)
=============================================================================
