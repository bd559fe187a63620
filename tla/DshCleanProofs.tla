----------------------------- MODULE DshCleanProofs -----------------------------
(***************************************************************************)
(* The claim protocol of the DeepSeek Harness is safe for every number of  *)
(* operations, plans, claims and faults.  The argument: a claim id is used *)
(* by one execution only, a claimed pointer is closed by that execution or *)
(* by somebody who has seen a terminal receipt, and an execution prepares  *)
(* a rewrite only while the receipt is scheduled.  To the users it is      *)
(* therefore an execution of plans in the sense of CleanExecution.         *)
(*                                                                         *)
(* The eviction cycle the harness shares with OpenCode and pi takes only   *)
(* finished turns and never shows again what it took, for every number of  *)
(* turns, tasks and faults.  The argument: turns keep their numbers until  *)
(* the host moves them, so the registry's owners of a number are what      *)
(* estimates said of the turn; stubs are only ever added to.               *)
(***************************************************************************)
EXTENDS DshClean, CanonicalEviction, TLAPS

\* An operation in flight knows its plan and a claim id that was given out.
LocOK ==
  \A p \in Procs :
    pc[p] # "idle" => PlanOf(p) \in Plans /\ loc[p].claim <= runs[PlanOf(p)]

\* The pointer names a plan, a claim that was given out, and is closed when terminal.
PointerOK ==
  IF pointer.status = "none" THEN pointer.plan = None
  ELSE /\ pointer.plan \in Plans /\ pointer.claim <= runs[pointer.plan]
       /\ pointer.status = "terminal" => pointer.plan \in closed

\* What an operation is about to write is true of the receipt and of the surface.
Announces(p) ==
  /\ pc[p] = "record" =>
       /\ loc[p].result \in {"applied", "stale", "failed"}
       /\ loc[p].result = "applied" =>
            surface[PlanOf(p)] = "stub" /\ rewrites[PlanOf(p)] = 1
  /\ pc[p] = "abort" => loc[p].result \in Terminal /\ ReceiptOf(p) = loc[p].result
  /\ pc[p] = "finalize" =>
       /\ loc[p].result \in Terminal
       /\ loc[p].result = "failed" \/ ReceiptOf(p) = loc[p].result
  /\ pc[p] = "abandon" => loc[p].result = "failed"
  /\ pc[p] = "publish" => pointer.plan = PlanOf(p) \/ PlanOf(p) \in closed

ProcsOK == \A p \in Procs : Announces(p)

\* An execution, or one that closes its pointer without a receipt.
Executor(p) ==
  pc[p] \in Executing \/ (pc[p] = "finalize" /\ ReceiptOf(p) \notin Terminal)

\* Executions of one plan have different claim ids ...
SoleClaim ==
  \A p, o \in Procs :
    /\ p # o /\ Executor(p) /\ Executor(o) /\ PlanOf(p) = PlanOf(o)
    => loc[p].claim # loc[o].claim

\* ... and only one of them is past its preparation, before any rewrite.
SoleRewriter ==
  \A p \in Procs : pc[p] = "apply" =>
    /\ rewrites[PlanOf(p)] = 0
    /\ \A o \in Procs : p # o /\ pc[o] = "apply" => PlanOf(o) # PlanOf(p)

Untouched == \A q \in Plans : surface[q] \in {"whole", "lost"} => rewrites[q] = 0

IInv == /\ TypeOK /\ LocOK /\ PointerOK /\ ProcsOK /\ Untouched
        /\ SoleClaim /\ SoleRewriter
        /\ ClaimIsHeld /\ RewrittenOnce /\ AppliedIsComplete
        /\ PointerNeverOverstates /\ ScheduledHasPointer

-------------------------------------------------------------------------------
LEMMA Fields ==
  ASSUME TypeOK
  PROVE  /\ \A p \in Procs : /\ loc[p] \in Local
                             /\ loc[p].plan \in Plans \cup {None}
                             /\ loc[p].claim \in Nat
                             /\ loc[p].result \in Results
         /\ \A q \in Plans : /\ receipt[q] \in Status /\ runs[q] \in Nat
                             /\ rewrites[q] \in Nat /\ surface[q] \in Surfaces
         /\ pointer.status \in PointerStatus /\ pointer.plan \in Plans \cup {None}
         /\ pointer.claim \in Nat /\ pointer.result \in Results
BY DEF TypeOK, Local, Pointer

LEMMA Statuses == Terminal \subseteq Status /\ Terminal \subseteq Results
                  /\ "none" \in Results /\ "scheduled" \notin Terminal
BY DEF Status, Terminal, Results

LEMMA InitIInv == Init => IInv
<1> SUFFICES ASSUME Init PROVE IInv
  OBVIOUS
<1> USE DEF Init
<1>1. TypeOK
  BY DshCleanAssumption DEF TypeOK, Pointer, Local, NoPointer, NoLocal, Status, PointerStatus,
     Results, Surfaces, Labels
<1>2. LocOK /\ PointerOK /\ ProcsOK /\ Untouched
  BY DEF LocOK, PointerOK, ProcsOK, Announces, Untouched, NoPointer
<1>3. SoleClaim /\ SoleRewriter /\ ClaimIsHeld
  BY DEF SoleClaim, SoleRewriter, ClaimIsHeld, Executor, Executing
<1>4. RewrittenOnce /\ AppliedIsComplete /\ PointerNeverOverstates /\ ScheduledHasPointer
  BY DEF RewrittenOnce, AppliedIsComplete, PointerNeverOverstates, ScheduledHasPointer, NoPointer
<1> QED
  BY <1>1, <1>2, <1>3, <1>4 DEF IInv

-------------------------------------------------------------------------------
LEMMA StepTyped == TypeOK /\ LocOK /\ [Next]_vars => TypeOK'
<1> SUFFICES ASSUME TypeOK, LocOK, [Next]_vars PROVE TypeOK'
  OBVIOUS
<1> USE Fields, Statuses DEF TypeOK, LocOK, Goto, Finish, PlanOf, ReceiptOf, Writing, SetReceipt, Labels
<1> USE DEF shared, session, locals, ClosePointer
<1>0. NoLocal \in Local /\ \A q \in Plans : [NoLocal EXCEPT !.plan = q] \in Local
  BY Statuses DEF NoLocal, Local
<1>1. ASSUME NEW p \in Procs, NEW s \in Results PROVE [loc[p] EXCEPT !.result = s] \in Local
  BY DEF Local
<1>2. ASSUME NEW s \in Results
      PROVE [pointer EXCEPT !.status = "terminal", !.result = s] \in Pointer
  BY DEF Pointer, PointerStatus
<1>3. CASE CancelExternally \/ Drift \/ Crash
  <2>1. CASE CancelExternally
    BY <2>1 DEF CancelExternally, Status
  <2>2. CASE Drift
    BY <2>2 DEF Drift, Surfaces
  <2>3. CASE Crash
    <3>1. faults' \in 0..MaxFaults
      BY <2>3, DshCleanAssumption DEF Crash, Fault
    <3> QED
      BY <2>3, <3>1, <1>0 DEF Crash
  <2> QED
    BY <1>3, <2>1, <2>2, <2>3
<1>4. ASSUME NEW p \in Procs, Approve(p) \/ Cancel(p) \/ PreStep(p) PROVE TypeOK'
  <2>1. CASE Approve(p)
    BY <2>1, <1>0 DEF Approve, Status
  <2>2. CASE Cancel(p)
    BY <2>2, <1>0 DEF Cancel
  <2>3. CASE PreStep(p)
    <3>1. [NoLocal EXCEPT !.plan = pointer.plan, !.claim = pointer.claim] \in Local
      BY DEF NoLocal, Local
    <3> QED
      BY <2>3, <3>1 DEF PreStep
  <2> QED
    BY <1>4, <2>1, <2>2, <2>3
<1>5. ASSUME NEW p \in Procs, Scheduling(p) \/ Cancelling(p) PROVE TypeOK'
  <2>1. CASE WritePointer(p)
    <3>1. [NoPointer EXCEPT !.status = "scheduled", !.plan = PlanOf(p)] \in Pointer
      BY DEF NoPointer, Pointer, PointerStatus
    <3> QED
      BY <2>1, <3>1 DEF WritePointer
  <2>2. CASE PointerRefused(p)
    BY <2>2, <1>0 DEF PointerRefused
  <2>3. CASE Publish(p)
    <3>1. PlanOf(p) \in Plans
      BY <2>3 DEF Publish
    <3>2. [loc[p] EXCEPT !.result = ReceiptOf(p)] \in Local \/ ReceiptOf(p) \notin Terminal
      BY <1>1
    <3> QED
      BY <2>3, <3>1, <3>2, <1>0 DEF Publish, Status
  <2>4. CASE Abort(p)
    <3>1. PlanOf(p) \in Plans /\ pointer' \in Pointer
      BY <2>4, <1>2 DEF Abort
    <3> QED
      BY <2>4, <1>0, <3>1 DEF Abort, Points
  <2>5. CASE CancelLocal(p)
    BY <2>5, <1>0, <1>2 DEF CancelLocal, Points, Terminal
  <2>6. CASE CancelShared(p)
    BY <2>6, <1>0 DEF CancelShared, Status
  <2> QED
    BY <1>5, <2>1, <2>2, <2>3, <2>4, <2>5, <2>6 DEF Scheduling, Cancelling
<1>6. ASSUME NEW p \in Procs, Execution(p) PROVE TypeOK'
  <2>1. CASE Check(p) \/ NotClaimed(p)
    BY <2>1, <1>0 DEF Check, NotClaimed
  <2>2. CASE Claim(p)
    <3>1. PlanOf(p) \in Plans /\ runs' \in [Plans -> Nat] /\ runs'[PlanOf(p)] \in Nat
      BY <2>2 DEF Claim
    <3>2. [loc[p] EXCEPT !.claim = runs'[PlanOf(p)]] \in Local
      BY <3>1 DEF Local
    <3>3. pointer' \in Pointer
      BY <2>2, <3>1 DEF Claim, Pointer, PointerStatus
    <3> QED
      BY <2>2, <3>1, <3>2, <3>3 DEF Claim
  <2>3. CASE Prepare(p)
    BY <2>3, <1>1, <1>0 DEF Prepare, Terminal
  <2>4. CASE Rewrite(p)
    BY <2>4, <1>1 DEF Rewrite, Surfaces, Terminal
  <2>5. CASE Deferred(p)
    BY <2>5, <1>1 DEF Deferred, Terminal
  <2>6. CASE Record(p)
    <3>1. "failed" \in Results /\ loc[p].result \in Status \cup {"none"}
      BY DEF Results, Terminal, Status
    <3>2. Recordable(PlanOf(p), loc[p].result) => loc[p].result \in Status
      BY DEF Recordable, Transitions, Status
    <3> QED
      BY <2>6, <3>1, <3>2, <1>0, <1>1 DEF Record, Unrecorded
  <2>7. CASE Finalize(p)
    <3>1. PlanOf(p) \in Plans /\ pointer' \in Pointer
      BY <2>7, <1>2 DEF Finalize
    <3> QED
      BY <2>7, <1>0, <3>1 DEF Finalize, OwnsPointer, Points
  <2> QED
    BY <1>6, <2>1, <2>2, <2>3, <2>4, <2>5, <2>6, <2>7 DEF Execution
<1>7. ASSUME NEW p \in Procs, Reconciling(p) \/ Expire(p) PROVE TypeOK'
  <2>1. CASE Repair(p)
    BY <2>1, <1>1 DEF Repair
  <2>2. CASE Wait(p)
    BY <2>2, <1>0 DEF Wait
  <2>3. CASE Abandon(p)
    BY <2>3, <1>0 DEF Abandon, Status
  <2>4. CASE Expire(p)
    BY <2>4, <1>1 DEF Expire, Terminal
  <2> QED
    BY <1>7, <2>1, <2>2, <2>3, <2>4 DEF Reconciling
<1>8. ASSUME NEW p \in Procs, WriteFails(p) PROVE TypeOK'
  <2>1. faults' \in 0..MaxFaults
    BY <1>8, DshCleanAssumption DEF WriteFails, Fault
  <2>2. "failed" \in Results
    BY DEF Results, Terminal
  <2> QED
    BY <1>8, <2>1, <2>2, <1>0, <1>1 DEF WriteFails, Unrecorded
<1>9. CASE UNCHANGED vars
  BY <1>9 DEF vars
<1> QED
  BY <1>3, <1>4, <1>5, <1>6, <1>7, <1>8, <1>9 DEF Next, Step

-------------------------------------------------------------------------------
\* A step of one operation moves that operation alone.
LEMMA OthersStay ==
  ASSUME TypeOK, NEW p \in Procs, Step(p)
  PROVE  \A o \in Procs : o # p => pc'[o] = pc[o] /\ loc'[o] = loc[o]
<1> USE DEF TypeOK, Goto, Finish
<1>1. CASE Approve(p) \/ Cancel(p) \/ PreStep(p)
  BY <1>1 DEF Approve, Cancel, PreStep
<1>2. CASE Scheduling(p)
  BY <1>2 DEF Scheduling, WritePointer, PointerRefused, Publish, Abort
<1>3. CASE Cancelling(p)
  BY <1>3 DEF Cancelling, CancelLocal, CancelShared
<1>4. CASE Execution(p)
  BY <1>4 DEF Execution, Check, Claim, NotClaimed, Prepare, Rewrite, Deferred, Record,
     Unrecorded, Finalize
<1>5. CASE Reconciling(p) \/ Expire(p)
  BY <1>5 DEF Reconciling, Expire, Repair, Wait, Abandon
<1>6. CASE WriteFails(p)
  BY <1>6 DEF WriteFails, Unrecorded
<1> QED
  BY <1>1, <1>2, <1>3, <1>4, <1>5, <1>6 DEF Step

\* Who writes the pointer, the receipts, the session and the claim ids.
LEMMA Writers ==
  ASSUME [Next]_vars
  PROVE  /\ \/ UNCHANGED <<pointer, closed>>
            \/ \E p \in Procs : \/ WritePointer(p) \/ Claim(p) \/ Abort(p)
                                \/ CancelLocal(p) \/ Finalize(p)
         /\ \/ UNCHANGED receipt
            \/ CancelExternally
            \/ \E p \in Procs : \/ Approve(p) \/ Publish(p) \/ CancelShared(p)
                                \/ Record(p) \/ Abandon(p)
         /\ UNCHANGED session \/ Drift \/ \E p \in Procs : Rewrite(p)
         /\ UNCHANGED runs \/ \E p \in Procs : Claim(p)
<1> USE DEF shared, session, locals, vars
<1>1. CASE CancelExternally \/ Drift \/ Crash \/ UNCHANGED vars
  BY <1>1 DEF CancelExternally, Drift, Crash
<1>2. ASSUME NEW p \in Procs, Step(p)
      PROVE  /\ UNCHANGED <<pointer, closed>> \/ WritePointer(p) \/ Claim(p) \/ Abort(p)
                \/ CancelLocal(p) \/ Finalize(p)
             /\ UNCHANGED receipt \/ Approve(p) \/ Publish(p) \/ CancelShared(p)
                \/ Record(p) \/ Abandon(p)
             /\ UNCHANGED session \/ Rewrite(p)
             /\ UNCHANGED runs \/ Claim(p)
  <2>1. CASE Approve(p) \/ Cancel(p) \/ PreStep(p)
    BY <2>1 DEF Approve, Cancel, PreStep
  <2>2. CASE Scheduling(p) \/ Cancelling(p)
    BY <2>2 DEF Scheduling, WritePointer, PointerRefused, Publish, Abort, Cancelling,
       CancelLocal, CancelShared
  <2>3. CASE Execution(p)
    BY <2>3 DEF Execution, Check, Claim, NotClaimed, Prepare, Rewrite, Deferred, Record,
       Finalize
  <2>4. CASE Reconciling(p) \/ Expire(p) \/ WriteFails(p)
    BY <2>4 DEF Reconciling, Repair, Wait, Abandon, Expire, WriteFails
  <2> QED
    BY <1>2, <2>1, <2>2, <2>3, <2>4 DEF Step
<1> QED
  BY <1>1, <1>2 DEF Next

\* A terminal receipt stays, a closed pointer stays known, claim ids only grow.
LEMMA History ==
  ASSUME TypeOK, LocOK, [Next]_vars
  PROVE  /\ \A q \in Plans : receipt[q] \in Terminal => receipt'[q] = receipt[q]
         /\ closed \subseteq closed'
         /\ \A q \in Plans : runs[q] <= runs'[q]
<1> USE Fields DEF TypeOK, LocOK, SetReceipt, ReceiptOf, PlanOf, shared, session, locals,
    Terminal, Goto, Finish
<1>0. \A q \in Plans : runs[q] <= runs[q]
  OBVIOUS
<1>1. CASE CancelExternally \/ Drift \/ Crash \/ UNCHANGED vars
  <2>1. CASE CancelExternally
    BY <1>0, <2>1 DEF CancelExternally, Recordable, Transitions
  <2>2. CASE Drift \/ Crash \/ UNCHANGED vars
    BY <1>0, <2>2 DEF Drift, Crash, vars
  <2> QED
    BY <1>1, <2>1, <2>2
<1>2. ASSUME NEW p \in Procs, Approve(p) \/ Cancel(p) \/ PreStep(p) \/ Scheduling(p)
      PROVE  /\ \A q \in Plans : receipt[q] \in Terminal => receipt'[q] = receipt[q]
             /\ closed \subseteq closed' /\ runs' = runs
  BY <1>2 DEF Approve, Cancel, PreStep, Scheduling, WritePointer, PointerRefused, Publish,
     Abort, ClosePointer
<1>3. ASSUME NEW p \in Procs, Cancelling(p) \/ Reconciling(p) \/ Expire(p) \/ WriteFails(p)
      PROVE  /\ \A q \in Plans : receipt[q] \in Terminal => receipt'[q] = receipt[q]
             /\ closed \subseteq closed' /\ runs' = runs
  BY <1>3 DEF Cancelling, CancelLocal, CancelShared, ClosePointer, Reconciling, Repair, Wait,
     Abandon, Expire, WriteFails, Recordable, Transitions
<1>4. ASSUME NEW p \in Procs, Execution(p)
      PROVE  /\ \A q \in Plans : receipt[q] \in Terminal => receipt'[q] = receipt[q]
             /\ closed \subseteq closed' /\ \A q \in Plans : runs[q] <= runs'[q]
  <2>1. CASE Claim(p)
    BY <2>1 DEF Claim
  <2>2. CASE Record(p)
    BY <2>2 DEF Record, Recordable, Transitions
  <2>3. CASE Check(p) \/ NotClaimed(p) \/ Prepare(p) \/ Rewrite(p) \/ Deferred(p) \/ Finalize(p)
    BY <2>3 DEF Check, NotClaimed, Prepare, Rewrite, Deferred, Finalize, ClosePointer
  <2> QED
    BY <1>4, <2>1, <2>2, <2>3 DEF Execution
<1>5. CASE \E p \in Procs : Step(p)
  BY <1>0, <1>2, <1>3, <1>4, <1>5 DEF Step
<1> QED
  BY <1>1, <1>5 DEF Next
-------------------------------------------------------------------------------
LEMMA StepLocOK == TypeOK /\ LocOK /\ PointerOK /\ [Next]_vars => LocOK'
<1> SUFFICES ASSUME TypeOK, LocOK, PointerOK, [Next]_vars PROVE LocOK'
  OBVIOUS
<1> USE DEF PlanOf, Goto, Finish, Writing
<1>1. \A q \in Plans : runs[q] \in Nat /\ runs'[q] \in Nat /\ runs[q] <= runs'[q]
  BY StepTyped, History DEF TypeOK
<1>2. ASSUME NEW o \in Procs, pc[o] # "idle", UNCHANGED <<pc[o], loc[o]>>
      PROVE  loc'[o].plan \in Plans /\ loc'[o].claim <= runs'[loc'[o].plan]
  BY <1>1, <1>2, Fields DEF LocOK
<1>3. CASE CancelExternally \/ Drift \/ UNCHANGED vars
  BY <1>2, <1>3 DEF CancelExternally, Drift, locals, vars, LocOK
<1>4. CASE Crash
  BY <1>4 DEF Crash, LocOK
<1>5. ASSUME NEW p \in Procs, Step(p)
      PROVE  pc'[p] # "idle" => loc'[p].plan \in Plans /\ loc'[p].claim <= runs'[loc'[p].plan]
  <2> USE Fields DEF TypeOK
  <2>1. CASE Approve(p) \/ Cancel(p)
    BY <2>1, <1>1 DEF Approve, Cancel, NoLocal
  <2>2. CASE PreStep(p)
    BY <2>2, <1>1 DEF PreStep, PointerOK, NoLocal
  <2>3. CASE Claim(p)
    <3>1. PlanOf(p) \in Plans /\ loc'[p].plan = PlanOf(p)
      BY <2>3 DEF Claim, LocOK, Local
    <3>2. loc'[p].claim = runs'[PlanOf(p)]
      BY <2>3 DEF Claim, Local
    <3> QED
      BY <1>1, <3>1, <3>2
  <2>4. CASE Scheduling(p) \/ Cancelling(p) \/ Reconciling(p) \/ Expire(p)
    <3>1. pc[p] # "idle" /\ (pc'[p] # "idle" =>
            loc'[p].plan = loc[p].plan /\ loc'[p].claim = loc[p].claim)
      BY <2>4 DEF Scheduling, WritePointer, PointerRefused, Publish, Abort, Cancelling,
         CancelLocal, CancelShared, Reconciling, Repair, Wait, Abandon, Expire, Local
    <3> QED
      BY <1>1, <3>1 DEF LocOK
  <2>5. CASE (Execution(p) /\ ~Claim(p)) \/ WriteFails(p)
    <3>1. pc[p] # "idle" /\ (pc'[p] # "idle" =>
            loc'[p].plan = loc[p].plan /\ loc'[p].claim = loc[p].claim)
      BY <2>5 DEF Execution, Check, NotClaimed, Prepare, Rewrite, Deferred, Record, Finalize,
         Unrecorded, WriteFails, Local
    <3> QED
      BY <1>1, <3>1 DEF LocOK
  <2> QED
    BY <1>5, <2>1, <2>2, <2>3, <2>4, <2>5 DEF Step
<1>6. ASSUME NEW p \in Procs, Step(p) PROVE LocOK'
  BY <1>2, <1>5, <1>6, OthersStay DEF LocOK
<1> QED
  BY <1>3, <1>4, <1>6 DEF Next

LEMMA StepPointerOK == TypeOK /\ LocOK /\ PointerOK /\ [Next]_vars => PointerOK'
<1> SUFFICES ASSUME TypeOK, LocOK, PointerOK, [Next]_vars PROVE PointerOK'
  OBVIOUS
<1> USE DEF PlanOf
<1>1. \A q \in Plans : runs[q] \in Nat /\ runs'[q] \in Nat /\ runs[q] <= runs'[q]
  BY StepTyped, History DEF TypeOK
<1>2. CASE UNCHANGED pointer
  BY <1>1, <1>2, History, Fields DEF PointerOK
<1>3. ASSUME NEW s \in Results, ClosePointer(s), pointer.status # "none" PROVE PointerOK'
  <2>1. /\ pointer'.status = "terminal" /\ pointer'.plan = pointer.plan
        /\ pointer'.claim = pointer.claim /\ pointer.plan \in closed'
    BY <1>3, Fields DEF ClosePointer, TypeOK, Pointer
  <2> QED
    BY <1>1, <1>3, <2>1, Fields DEF PointerOK
<1>4. ASSUME NEW p \in Procs, WritePointer(p) PROVE PointerOK'
  <2>1. CASE UNCHANGED pointer
    BY <1>2, <2>1
  <2>2. CASE pointer' = [NoPointer EXCEPT !.status = "scheduled", !.plan = PlanOf(p)]
    BY <1>1, <1>4, <2>2 DEF WritePointer, NoPointer, PointerOK, LocOK
  <2> QED
    BY <1>4, <2>1, <2>2 DEF WritePointer
<1>5. ASSUME NEW p \in Procs, Claim(p) PROVE PointerOK'
  <2>1. pointer'.plan = PlanOf(p) /\ pointer'.claim = runs'[PlanOf(p)]
    BY <1>5, Fields DEF Claim, Points, TypeOK, Pointer
  <2>2. pointer'.status = "claimed" /\ PlanOf(p) \in Plans
    BY <1>5, Fields DEF Claim, TypeOK, Pointer, LocOK
  <2> QED
    BY <1>1, <2>1, <2>2 DEF PointerOK
<1>6. ASSUME NEW p \in Procs, Abort(p) \/ CancelLocal(p) \/ Finalize(p) PROVE PointerOK'
  <2>1. pointer' = pointer \/ (\E s \in Results : ClosePointer(s) /\ pointer.status # "none")
    BY <1>6, Fields, Statuses DEF Abort, CancelLocal, Finalize, OwnsPointer, Points, Terminal
  <2> QED
    BY <1>2, <1>3, <2>1
<1> QED
  BY <1>2, <1>4, <1>5, <1>6, Writers
\* A plan that has, or has had, the pointer keeps that.
LEMMA KnownPointerStays ==
  ASSUME TypeOK, LocOK, PointerOK, [Next]_vars, NEW q \in Plans,
         pointer.plan = q \/ q \in closed
  PROVE  pointer'.plan = q \/ q \in closed'
<1> USE DEF TypeOK
<1>1. CASE UNCHANGED <<pointer, closed>>
  BY <1>1
<1>2. ASSUME NEW p \in Procs, WritePointer(p) PROVE pointer'.plan = q \/ q \in closed'
  <2>1. CASE UNCHANGED pointer
    BY <1>2, <2>1 DEF WritePointer
  <2>2. CASE Vacant(PlanOf(p))
    BY <1>2, <2>2, DshCleanAssumption DEF WritePointer, Vacant, PointerOK
  <2> QED
    BY <1>2, <2>1, <2>2 DEF WritePointer
<1>3. ASSUME NEW p \in Procs, Claim(p) \/ Abort(p) \/ CancelLocal(p) \/ Finalize(p)
      PROVE  pointer'.plan = pointer.plan
  BY <1>3, Fields DEF Claim, Abort, CancelLocal, Finalize, ClosePointer, Pointer
<1> QED
  BY <1>1, <1>2, <1>3, Writers, History

\* A surface that shows every replacement stays so, and is not rewritten again.
LEMMA SessionSteps ==
  ASSUME TypeOK, LocOK, SoleRewriter, Untouched, [Next]_vars
  PROVE  /\ \A q \in Plans : surface[q] = "stub" =>
              surface'[q] = "stub" /\ rewrites'[q] = rewrites[q]
         /\ \A q \in Plans : rewrites'[q] = rewrites[q] \/ rewrites'[q] = 1
         /\ Untouched'
<1> USE Fields DEF TypeOK, Untouched
<1>1. CASE UNCHANGED session
  BY <1>1 DEF session
<1>2. CASE Drift
  BY <1>2 DEF Drift
<1>3. ASSUME NEW p \in Procs, Rewrite(p)
      PROVE  /\ \A q \in Plans : surface[q] = "stub" =>
                  surface'[q] = "stub" /\ rewrites'[q] = rewrites[q]
             /\ \A q \in Plans : rewrites'[q] = rewrites[q] \/ rewrites'[q] = 1
             /\ Untouched'
  <2>1. PlanOf(p) \in Plans /\ rewrites[PlanOf(p)] = 0 /\ surface[PlanOf(p)] # "stub"
    BY <1>3 DEF Rewrite, LocOK, SoleRewriter, HasTargets
  <2> QED
    BY <1>3, <2>1 DEF Rewrite
<1> QED
  BY <1>1, <1>2, <1>3, Writers

LEMMA StepProcsOK == IInv /\ [Next]_vars => ProcsOK'
<1> SUFFICES ASSUME IInv, [Next]_vars PROVE ProcsOK'
  OBVIOUS
<1> USE DEF IInv, PlanOf, ReceiptOf
<1>1. ASSUME NEW o \in Procs, UNCHANGED <<pc[o], loc[o]>> PROVE Announces(o)'
  <2>1. pc[o] # "idle" => PlanOf(o) \in Plans
    BY DEF LocOK
  <2>2. Announces(o)
    BY DEF ProcsOK
  <2> QED
    BY <1>1, <2>1, <2>2, History, SessionSteps, KnownPointerStays DEF Announces
<1>2. CASE CancelExternally \/ Drift \/ UNCHANGED vars
  BY <1>1, <1>2 DEF CancelExternally, Drift, locals, vars, ProcsOK
<1>3. CASE Crash
  BY <1>3 DEF Crash, ProcsOK, Announces
<1>4. ASSUME NEW p \in Procs, Step(p) PROVE Announces(p)'
  <2> USE Fields, Statuses DEF TypeOK, Goto, Finish, Writing, Local
  <2>1. CASE Approve(p) \/ Cancel(p) \/ PreStep(p) \/ Cancelling(p)
    BY <2>1 DEF Approve, Cancel, PreStep, Cancelling, CancelLocal, CancelShared, Announces
  <2>2. CASE WritePointer(p)
    BY <2>2, Fields DEF WritePointer, Announces, Points, LocOK, Vacant, NoPointer
  <2>3. CASE PointerRefused(p) \/ Publish(p) \/ Abort(p)
    BY <2>3 DEF PointerRefused, Publish, Abort, Announces
  <2>4. CASE Check(p) \/ Claim(p) \/ NotClaimed(p) \/ Finalize(p) \/ Deferred(p)
    BY <2>4 DEF Check, Claim, NotClaimed, Finalize, Deferred, Announces
  <2>5. CASE Prepare(p)
    <3>1. PlanOf(p) \in Plans /\ UNCHANGED receipt
      BY <2>5 DEF Prepare, LocOK, shared
    <3>2. CASE ReceiptOf(p) \in Terminal /\ pc' = [pc EXCEPT ![p] = "finalize"]
               /\ loc' = [loc EXCEPT ![p] = Writing(p, ReceiptOf(p))]
      BY <3>1, <3>2 DEF Announces
    <3>3. CASE pc' = [pc EXCEPT ![p] = "apply"]
      BY <3>3 DEF Announces
    <3>4. CASE pc' = [pc EXCEPT ![p] = "record"]
               /\ \E s \in {"stale", "failed"} : loc' = [loc EXCEPT ![p] = Writing(p, s)]
      BY <3>4 DEF Announces
    <3> QED
      BY <2>5, <3>2, <3>3, <3>4 DEF Prepare
  <2>6. CASE Rewrite(p)
    <3>1. PlanOf(p) \in Plans /\ rewrites[PlanOf(p)] = 0
      BY <2>6 DEF Rewrite, LocOK, SoleRewriter
    <3> QED
      BY <2>6, <3>1 DEF Rewrite, Announces
  <2>7. CASE Record(p)
    <3>1. PlanOf(p) \in Plans /\ loc[p].result \in {"applied", "stale", "failed"}
      BY <2>7 DEF Record, LocOK, ProcsOK, Announces
    <3> QED
      BY <2>7, <3>1 DEF Record, Unrecorded, SetReceipt, Announces, Terminal
  <2>8. CASE Repair(p) \/ Wait(p) \/ Expire(p)
    <3>1. PlanOf(p) \in Plans /\ UNCHANGED receipt
      BY <2>8 DEF Repair, Wait, Expire, LocOK, shared
    <3>2. CASE Repair(p)
      BY <3>1, <3>2 DEF Repair, Announces
    <3>3. CASE Wait(p) \/ Expire(p)
      BY <3>1, <3>3 DEF Wait, Expire, Announces
    <3> QED
      BY <2>8, <3>2, <3>3
  <2>9. CASE Abandon(p)
    <3>1. PlanOf(p) \in Plans /\ loc[p].result = "failed"
      BY <2>9 DEF Abandon, LocOK, ProcsOK, Announces
    <3> QED
      BY <2>9, <3>1 DEF Abandon, SetReceipt, Announces, Terminal
  <2>10. CASE WriteFails(p)
    BY <2>10 DEF WriteFails, Unrecorded, Announces, Terminal
  <2> QED
    BY <1>4, <2>1, <2>2, <2>3, <2>4, <2>5, <2>6, <2>7, <2>8, <2>9, <2>10
    DEF Step, Scheduling, Execution, Reconciling
<1>5. ASSUME NEW p \in Procs, Step(p) PROVE ProcsOK'
  BY <1>1, <1>4, <1>5, OthersStay DEF ProcsOK
<1> QED
  BY <1>2, <1>3, <1>5 DEF Next
-------------------------------------------------------------------------------
\* Who becomes an executor: one that makes a claim.  An executor keeps its claim.
LEMMA ExecutorSteps ==
  ASSUME IInv, [Next]_vars, NEW p \in Procs, Executor(p)'
  PROVE  \/ /\ Executor(p) /\ loc'[p].plan = loc[p].plan /\ loc'[p].claim = loc[p].claim
            /\ pc'[p] \in Executing => pc[p] \in Executing
         \/ Claim(p)
<1> USE Fields, Statuses
    DEF IInv, TypeOK, Executor, Executing, PlanOf, ReceiptOf, Goto, Finish, Writing, Local
<1>1. ASSUME UNCHANGED <<pc[p], loc[p]>> PROVE Executor(p)
  <2>1. pc[p] # "idle" => PlanOf(p) \in Plans
    BY DEF LocOK
  <2> QED
    BY <1>1, <2>1, History
<1>2. CASE CancelExternally \/ Drift \/ UNCHANGED vars
  BY <1>1, <1>2 DEF CancelExternally, Drift, locals, vars
<1>3. CASE Crash
  BY <1>3 DEF Crash
<1>4. ASSUME Step(p)
      PROVE  \/ /\ Executor(p) /\ loc'[p].plan = loc[p].plan
                /\ loc'[p].claim = loc[p].claim
                /\ pc'[p] \in Executing => pc[p] \in Executing
             \/ Claim(p)
  <2>1. CASE Approve(p) \/ Cancel(p) \/ PreStep(p)
    BY <2>1 DEF Approve, Cancel, PreStep
  <2>2. CASE Scheduling(p) \/ Cancelling(p)
    BY <2>2 DEF Scheduling, WritePointer, PointerRefused, Publish, Abort, Cancelling,
       CancelLocal, CancelShared
  <2>3. CASE Check(p) \/ NotClaimed(p) \/ Finalize(p) \/ Wait(p) \/ Expire(p)
    BY <2>3 DEF Check, NotClaimed, Finalize, Wait, Expire
  <2>4. CASE Prepare(p) \/ Rewrite(p) \/ Deferred(p)
    BY <2>4 DEF Prepare, Rewrite, Deferred
  <2>5. CASE Record(p)
    BY <2>5 DEF Record, Unrecorded
  <2>6. CASE Repair(p)
    <3>1. ReceiptOf(p) \in Terminal /\ UNCHANGED receipt /\ loc'[p].plan = PlanOf(p)
      BY <2>6 DEF Repair, shared
    <3> QED
      BY <2>6, <3>1 DEF Repair
  <2>7. CASE Abandon(p)
    <3>1. PlanOf(p) \in Plans /\ pc'[p] = "finalize"
      BY <2>7 DEF Abandon, LocOK
    <3>2. loc'[p].plan = PlanOf(p) /\ receipt'[PlanOf(p)] = "failed"
      BY <2>7, <3>1 DEF Abandon, SetReceipt
    <3> QED
      BY <3>1, <3>2 DEF Terminal
  <2>8. CASE WriteFails(p)
    BY <2>8 DEF WriteFails, Unrecorded
  <2> QED
    BY <1>4, <2>1, <2>2, <2>3, <2>4, <2>5, <2>6, <2>7, <2>8 DEF Step, Execution, Reconciling
<1>5. ASSUME NEW o \in Procs, Step(o), o # p PROVE UNCHANGED <<pc[p], loc[p]>>
  BY <1>5, OthersStay
<1> QED
  BY <1>1, <1>2, <1>3, <1>4, <1>5 DEF Next

LEMMA StepSoleClaim == IInv /\ [Next]_vars => SoleClaim'
<1> SUFFICES ASSUME IInv, [Next]_vars,
                    NEW p \in Procs, NEW o \in Procs, p # o,
                    Executor(p)', Executor(o)', loc'[p].plan = loc'[o].plan
             PROVE  loc'[p].claim # loc'[o].claim
  BY DEF SoleClaim, PlanOf
<1> USE Fields DEF IInv, PlanOf
\* A new claim id is greater than all that were given out.
<1>1. ASSUME NEW x \in Procs, NEW y \in Procs, x # y, Claim(x), Executor(y),
             loc'[x].plan = loc'[y].plan
      PROVE  loc'[x].claim # loc'[y].claim
  <2>1. loc'[y] = loc[y] /\ loc[y].plan \in Plans /\ loc[y].claim <= runs[loc[y].plan]
    BY <1>1, OthersStay DEF Step, Execution, LocOK, Executor, Executing
  <2>2. loc'[x].plan = loc[x].plan /\ loc[x].plan \in Plans
    BY <1>1 DEF Claim, Goto, TypeOK, Local, LocOK
  <2>3. loc'[x].claim = runs[loc[x].plan] + 1
    BY <1>1, <2>2 DEF Claim, Goto, TypeOK, Local
  <2> QED
    BY <1>1, <2>1, <2>2, <2>3
<1>2. ASSUME Claim(p), Claim(o) PROVE FALSE
  BY <1>2, OthersStay DEF Claim, Step, Execution, Goto, TypeOK
<1>3. CASE Claim(p)
  BY <1>1, <1>2, <1>3, ExecutorSteps
<1>4. CASE Claim(o)
  BY <1>1, <1>2, <1>4, ExecutorSteps
<1>5. CASE ~Claim(p) /\ ~Claim(o)
  BY <1>5, ExecutorSteps DEF SoleClaim
<1> QED
  BY <1>3, <1>4, <1>5

LEMMA StepClaimIsHeld == IInv /\ [Next]_vars => ClaimIsHeld'
<1> SUFFICES ASSUME IInv, [Next]_vars, NEW o \in Procs, pc'[o] \in Executing,
                    receipt'[loc'[o].plan] \notin Terminal
             PROVE  OwnsPointer(o)'
  BY DEF ClaimIsHeld, PlanOf, ReceiptOf
<1> USE Fields DEF IInv, PlanOf, ReceiptOf, Points
<1>1. CASE Claim(o)
  BY <1>1 DEF Claim, OwnsPointer, Goto, TypeOK, Pointer, Local, LocOK
<1>2. CASE /\ Executor(o) /\ loc'[o].plan = loc[o].plan /\ loc'[o].claim = loc[o].claim
           /\ pc[o] \in Executing
  <2>1. loc[o].plan \in Plans /\ receipt[loc[o].plan] \notin Terminal
    BY <1>2, History DEF LocOK, Executor, Executing
  <2>2. pc[o] \in Executing
    BY <1>2
  <2>3. OwnsPointer(o)
    BY <2>1, <2>2 DEF ClaimIsHeld
  <2>4. CASE UNCHANGED pointer
    BY <1>2, <2>3, <2>4 DEF OwnsPointer
  <2>5. ASSUME NEW p \in Procs, WritePointer(p) PROVE UNCHANGED pointer
    BY <2>3, <2>5 DEF WritePointer, Vacant, OwnsPointer
  <2>6. ASSUME NEW p \in Procs, Claim(p) \/ CancelLocal(p) PROVE UNCHANGED pointer
    BY <2>3, <2>6 DEF Claim, CancelLocal, OwnsPointer
  <2>7. ASSUME NEW p \in Procs, Abort(p) PROVE UNCHANGED pointer
    BY <2>1, <2>3, <2>7 DEF Abort, OwnsPointer, ProcsOK, Announces
  <2>8. ASSUME NEW p \in Procs, Finalize(p) PROVE UNCHANGED pointer
    <3>1. CASE OwnsPointer(p)
      <4>1. p # o /\ PlanOf(p) = PlanOf(o) /\ loc[p].claim = loc[o].claim
        BY <2>2, <2>3, <2>8, <3>1 DEF OwnsPointer, Finalize, Executing
      <4>2. Executor(p) /\ Executor(o)
        BY <1>2, <2>1, <2>8, <4>1 DEF Finalize, Executor
      <4> QED
        BY <4>1, <4>2 DEF SoleClaim
    <3> QED
      BY <2>8, <3>1 DEF Finalize
  <2> QED
    BY <2>4, <2>5, <2>6, <2>7, <2>8, Writers
<1> QED
  BY <1>1, <1>2, ExecutorSteps DEF Executor

LEMMA StepSoleRewriter == IInv /\ [Next]_vars => SoleRewriter'
<1> SUFFICES ASSUME IInv, [Next]_vars PROVE SoleRewriter'
  OBVIOUS
<1> USE Fields DEF IInv, PlanOf, ReceiptOf
\* Whoever is ready to rewrite was so before, or has just prepared.
<1>1. ASSUME NEW p \in Procs, pc'[p] = "apply"
      PROVE  \/ pc[p] = "apply" /\ loc'[p] = loc[p]
             \/ /\ Prepare(p) /\ loc'[p] = loc[p] /\ pc[p] = "prepare"
                /\ receipt[loc[p].plan] = "scheduled" /\ surface[loc[p].plan] = "whole"
  <2> USE DEF TypeOK, Goto, Finish
  <2>1. CASE CancelExternally \/ Drift \/ Crash \/ UNCHANGED vars
    BY <1>1, <2>1 DEF CancelExternally, Drift, Crash, locals, vars
  <2>2. ASSUME NEW o \in Procs, Step(o), o # p PROVE pc[p] = "apply" /\ loc'[p] = loc[p]
    BY <1>1, <2>2, OthersStay
  <2>3. CASE Prepare(p)
    BY <1>1, <2>3 DEF Prepare
  <2>4. CASE Step(p) /\ ~Prepare(p)
    <3>1. CASE Approve(p) \/ Cancel(p) \/ PreStep(p) \/ Scheduling(p) \/ Cancelling(p)
      BY <1>1, <3>1 DEF Approve, Cancel, PreStep, Scheduling, WritePointer, PointerRefused,
         Publish, Abort, Cancelling, CancelLocal, CancelShared
    <3>2. CASE Execution(p)
      BY <1>1, <2>4, <3>2 DEF Execution, Check, Claim, NotClaimed, Rewrite, Deferred, Record,
         Unrecorded, Finalize
    <3>3. CASE Reconciling(p) \/ Expire(p) \/ WriteFails(p)
      BY <1>1, <3>3 DEF Reconciling, Repair, Wait, Abandon, Expire, WriteFails, Unrecorded
    <3> QED
      BY <2>4, <3>1, <3>2, <3>3 DEF Step
  <2> QED
    BY <2>1, <2>2, <2>3, <2>4 DEF Next
\* The plan it is about to rewrite for has not been rewritten.
<1>2. ASSUME NEW p \in Procs, pc'[p] = "apply"
      PROVE  loc'[p] = loc[p] /\ loc[p].plan \in Plans /\ rewrites[loc[p].plan] = 0
  BY <1>1, <1>2, Statuses DEF LocOK, SoleRewriter, Untouched
\* Two of them for one plan would both own the pointer, with one claim id.
<1>3. ASSUME NEW p \in Procs, NEW o \in Procs, p # o, Prepare(p), pc[p] = "prepare",
             receipt[loc[p].plan] = "scheduled", pc[o] \in {"prepare", "apply"}
      PROVE  loc[o].plan # loc[p].plan
  <2> SUFFICES ASSUME loc[o].plan = loc[p].plan PROVE FALSE
    OBVIOUS
  <2>1. OwnsPointer(p) /\ OwnsPointer(o)
    BY <1>3, Statuses DEF ClaimIsHeld, Executing
  <2>2. Executor(p) /\ Executor(o)
    BY <1>3 DEF Executor, Executing
  <2> QED
    BY <1>3, <2>1, <2>2 DEF SoleClaim, OwnsPointer
<1>4. ASSUME NEW p \in Procs, NEW o \in Procs, p # o, pc'[p] = "apply", pc'[o] = "apply"
      PROVE  loc'[o].plan # loc'[p].plan
  <2>1. CASE pc[p] = "apply" /\ pc[o] = "apply"
    BY <1>2, <1>4, <2>1 DEF SoleRewriter
  <2>2. CASE pc[p] = "prepare" /\ pc[o] \in {"prepare", "apply"}
    BY <1>1, <1>2, <1>3, <1>4, <2>2
  <2>3. CASE pc[o] = "prepare" /\ pc[p] \in {"prepare", "apply"}
    BY <1>1, <1>2, <1>3, <1>4, <2>3
  <2> QED
    BY <1>1, <1>4, <2>1, <2>2, <2>3
\* The rewrite of another operation is for another plan.
<1>5. ASSUME NEW p \in Procs, pc'[p] = "apply" PROVE rewrites'[loc'[p].plan] = 0
  <2>1. CASE UNCHANGED rewrites
    BY <1>2, <1>5, <2>1
  <2>2. ASSUME NEW o \in Procs, Rewrite(o) PROVE rewrites'[loc'[p].plan] = 0
    <3>1. pc[o] = "apply" /\ pc'[o] = "record"
      BY <2>2 DEF Rewrite, Goto, TypeOK
    <3>2. pc[p] = "apply"
      BY <1>1, <1>5, <3>1, <2>2, OthersStay DEF Prepare, Goto, TypeOK, Step, Execution
    <3>3. loc[o].plan # loc[p].plan
      BY <1>5, <3>1, <3>2 DEF SoleRewriter
    <3> QED
      BY <1>2, <1>5, <2>2, <3>3 DEF Rewrite, TypeOK
  <2> QED
    BY <2>1, <2>2, Writers DEF Drift, session
<1> QED
  BY <1>4, <1>5 DEF SoleRewriter

LEMMA StepRewrittenOnce == IInv /\ [Next]_vars => RewrittenOnce'
BY SessionSteps, Fields DEF IInv, RewrittenOnce

\* Who makes a receipt scheduled or applied.
LEMMA ReceiptSteps ==
  ASSUME IInv, [Next]_vars, NEW q \in Plans, receipt'[q] # receipt[q]
  PROVE  /\ receipt'[q] = "scheduled" => pointer.plan = q \/ q \in closed
         /\ receipt'[q] = "applied" => surface[q] = "stub" /\ rewrites[q] = 1
<1> USE Fields DEF IInv, TypeOK, PlanOf, ReceiptOf, SetReceipt
<1>1. CASE CancelExternally
  BY <1>1 DEF CancelExternally
<1>2. ASSUME NEW p \in Procs, Approve(p) \/ CancelShared(p) \/ Abandon(p)
      PROVE  receipt'[q] \in {"approved", "cancelled", "failed"}
  BY <1>2 DEF Approve, CancelShared, Abandon
<1>3. ASSUME NEW p \in Procs, Publish(p)
      PROVE  receipt'[q] = "scheduled" /\ (pointer.plan = q \/ q \in closed)
  <2>1. receipt' = [receipt EXCEPT ![PlanOf(p)] = "scheduled"] /\ q = PlanOf(p)
    BY <1>3 DEF Publish
  <2>2. pc[p] = "publish"
    BY <1>3 DEF Publish
  <2> QED
    BY <2>1, <2>2 DEF ProcsOK, Announces
<1>4. ASSUME NEW p \in Procs, Record(p)
      PROVE  /\ receipt'[q] # "scheduled"
             /\ receipt'[q] = "applied" => surface[q] = "stub" /\ rewrites[q] = 1
  <2>1. receipt' = [receipt EXCEPT ![PlanOf(p)] = loc[p].result] /\ q = PlanOf(p)
    BY <1>4 DEF Record
  <2>2. pc[p] = "record"
    BY <1>4 DEF Record
  <2> QED
    BY <2>1, <2>2 DEF ProcsOK, Announces
<1> QED
  BY <1>1, <1>2, <1>3, <1>4, Writers

LEMMA StepReceipts == IInv /\ [Next]_vars => AppliedIsComplete' /\ ScheduledHasPointer'
<1> SUFFICES ASSUME IInv, [Next]_vars PROVE AppliedIsComplete' /\ ScheduledHasPointer'
  OBVIOUS
<1> USE DEF IInv
<1>1. ASSUME NEW q \in Plans, receipt'[q] = "applied"
      PROVE  surface'[q] = "stub" /\ rewrites'[q] = 1
  BY <1>1, ReceiptSteps, SessionSteps DEF AppliedIsComplete
<1>2. ASSUME NEW q \in Plans, receipt'[q] = "scheduled" PROVE pointer'.plan = q \/ q \in closed'
  BY <1>2, ReceiptSteps, KnownPointerStays DEF ScheduledHasPointer
<1> QED
  BY <1>1, <1>2 DEF AppliedIsComplete, ScheduledHasPointer

LEMMA StepPointerNeverOverstates == IInv /\ [Next]_vars => PointerNeverOverstates'
<1> SUFFICES ASSUME IInv, [Next]_vars,
                    pointer'.status = "terminal", pointer'.result \in {"applied", "stale"}
             PROVE  receipt'[pointer'.plan] = pointer'.result
  BY DEF PointerNeverOverstates
<1> USE Fields, Statuses DEF IInv, TypeOK, PlanOf, ReceiptOf, Pointer, Points
<1>1. CASE UNCHANGED pointer
  <2>1. pointer.plan \in Plans /\ receipt[pointer.plan] \in {"applied", "stale"}
    BY <1>1 DEF PointerOK, PointerNeverOverstates
  <2> QED
    BY <1>1, <2>1, History DEF PointerNeverOverstates, Terminal
<1>2. ASSUME NEW p \in Procs, WritePointer(p) \/ Claim(p), ~UNCHANGED pointer
      PROVE  pointer'.status # "terminal"
  BY <1>2 DEF WritePointer, Claim, NoPointer
<1>3. ASSUME NEW p \in Procs, CancelLocal(p), ~UNCHANGED pointer
      PROVE  pointer'.result = "cancelled"
  BY <1>3 DEF CancelLocal, ClosePointer
<1>4. ASSUME NEW p \in Procs, Abort(p) \/ Finalize(p), ~UNCHANGED pointer
      PROVE  receipt'[pointer'.plan] = pointer'.result \/ pointer'.result = "failed"
  <2>1. pointer'.plan = PlanOf(p) /\ pointer'.result = loc[p].result
    BY <1>4 DEF Abort, Finalize, ClosePointer, OwnsPointer
  <2>2. UNCHANGED receipt /\ pc[p] \in {"abort", "finalize"}
    BY <1>4 DEF Abort, Finalize
  <2> QED
    BY <2>1, <2>2 DEF ProcsOK, Announces
<1> QED
  BY <1>1, <1>2, <1>3, <1>4, Writers

-------------------------------------------------------------------------------
\* Type correctness and the whole inductive invariant, for every instance.
THEOREM DshInvariance == Spec => []IInv
<1>1. IInv /\ [Next]_vars => IInv'
  BY StepTyped, StepLocOK, StepPointerOK, StepProcsOK, SessionSteps, StepSoleClaim,
     StepSoleRewriter, StepClaimIsHeld, StepRewrittenOnce, StepReceipts,
     StepPointerNeverOverstates DEF IInv
<1> QED
  BY InitIInv, <1>1, PTL DEF Spec

\* Nobody takes the claim from an execution before the receipt is terminal
\* (finalizeDshCleanerSchedule, reconcileClaimedSchedule, abortHostSchedule).
THEOREM ClaimsAreHeld == Spec => []ClaimIsHeld
<1>1. IInv => ClaimIsHeld
  BY DEF IInv
<1> QED
  BY <1>1, DshInvariance, PTL

\* The surface is rewritten at most once for a plan (applyScheduledDshClean).
THEOREM SurfaceRewrittenOnce == Spec => []RewrittenOnce
<1>1. IInv => RewrittenOnce
  BY DEF IInv
<1> QED
  BY <1>1, DshInvariance, PTL

\* An applied receipt stands for one complete rewrite (recordTerminal).
THEOREM AppliedIsEarned == Spec => []AppliedIsComplete
<1>1. IInv => AppliedIsComplete
  BY DEF IInv
<1> QED
  BY <1>1, DshInvariance, PTL

\* A published schedule has, or has had, its pointer (scheduleDshCleanerPlan before
\* finalizeCleanSchedule).
THEOREM ScheduledWasPointed == Spec => []ScheduledHasPointer
<1>1. IInv => ScheduledHasPointer
  BY DEF IInv
<1> QED
  BY <1>1, DshInvariance, PTL

\* A pointer reports an applied or stale plan only with that receipt.
THEOREM PointersAreBacked == Spec => []PointerNeverOverstates
<1>1. IInv => PointerNeverOverstates
  BY DEF IInv
<1> QED
  BY <1>1, DshInvariance, PTL

\* Receipts, pointers, claims and surfaces are always of their types (scheduler.ts),
\* for any operations and plans.
THEOREM DshTypeCorrect == Spec => []TypeOK
<1>1. IInv => TypeOK
  BY DEF IInv
<1> QED
  BY <1>1, DshInvariance, PTL

-------------------------------------------------------------------------------
(* The clean execution of the harness is one of CleanExecution.            *)

\* A rewrite on its way belongs to a plan that was published.
Published ==
  \A p \in Procs : pc[p] = "apply" => ReceiptOf(p) \notin {"analyzed", "approved"}

\* What a step writes into the shared receipt of a plan.
Written(q, s) ==
  /\ <<receipt[q], s>> \in Transitions
  /\ receipt' = [receipt EXCEPT ![q] = s]
  /\ s = "applied" => surface[q] = "stub"
  /\ UNCHANGED session

\* Every write of a receipt is a step of the shared table.
LEMMA ReceiptWritten ==
  ASSUME IInv, [Next]_vars, receipt' # receipt
  PROVE  \E q \in Plans : \E s \in Status : Written(q, s)
<1> USE Fields DEF IInv, TypeOK, PlanOf, ReceiptOf, SetReceipt, Written
<1>1. CASE CancelExternally
  BY <1>1 DEF CancelExternally, Recordable, Status
<1>2. ASSUME NEW p \in Procs, Approve(p) PROVE \E q \in Plans : \E s \in Status : Written(q, s)
  BY <1>2 DEF Approve, Transitions, Status
<1>3. ASSUME NEW p \in Procs, Publish(p) PROVE \E q \in Plans : \E s \in Status : Written(q, s)
  BY <1>3 DEF Publish, Transitions, Status, LocOK
<1>4. ASSUME NEW p \in Procs, CancelShared(p) \/ Abandon(p)
      PROVE  \E q \in Plans : \E s \in Status : Written(q, s)
  BY <1>4 DEF CancelShared, Abandon, Recordable, Status, LocOK
<1>5. ASSUME NEW p \in Procs, Record(p) PROVE \E q \in Plans : \E s \in Status : Written(q, s)
  <2>1. /\ receipt' = [receipt EXCEPT ![PlanOf(p)] = loc[p].result]
        /\ <<receipt[PlanOf(p)], loc[p].result>> \in Transitions
        /\ pc[p] = "record" /\ UNCHANGED session
    BY <1>5 DEF Record, Recordable
  <2>2. PlanOf(p) \in Plans /\ loc[p].result \in Status
    BY <2>1 DEF LocOK, ProcsOK, Announces, Status
  <2>3. loc[p].result = "applied" => surface[PlanOf(p)] = "stub"
    BY <2>1 DEF ProcsOK, Announces
  <2> QED
    BY <2>1, <2>2, <2>3
<1> QED
  BY <1>1, <1>2, <1>3, <1>4, <1>5, Writers

\* Only a plan that was published is prepared for a rewrite, and it stays published.
LEMMA StepPublished == IInv /\ Published /\ [Next]_vars => Published'
<1> SUFFICES ASSUME IInv, Published, [Next]_vars, NEW p \in Procs, pc'[p] = "apply"
             PROVE  receipt'[loc'[p].plan] \notin {"analyzed", "approved"}
  BY DEF Published, ReceiptOf, PlanOf
<1> USE Fields DEF IInv, TypeOK
<1>1. ASSUME NEW q \in Plans, receipt[q] \notin {"analyzed", "approved"}
      PROVE  receipt'[q] \notin {"analyzed", "approved"}
  <2>1. CASE receipt' = receipt
    BY <1>1, <2>1
  <2>2. CASE receipt' # receipt
    <3>1. PICK r \in Plans : \E s \in Status : Written(r, s)
      BY <2>2, ReceiptWritten
    <3>2. PICK s \in Status : Written(r, s)
      BY <3>1
    <3> QED
      BY <1>1, <3>2 DEF Written, Transitions
  <2> QED
    BY <2>1, <2>2
<1>2. CASE pc[p] = "apply" /\ loc'[p].plan = loc[p].plan
  BY <1>1, <1>2 DEF Published, LocOK, ReceiptOf, PlanOf
<1>3. CASE Prepare(p)
  <2>1. receipt[loc[p].plan] = "scheduled" /\ loc'[p].plan = loc[p].plan /\ UNCHANGED receipt
    BY <1>3 DEF Prepare, Goto, ReceiptOf, PlanOf, shared
  <2> QED
    BY <2>1
<1>4. ~Prepare(p) => pc[p] = "apply" /\ loc'[p].plan = loc[p].plan
  <2>1. CASE CancelExternally \/ Drift \/ Crash \/ UNCHANGED vars
    BY <2>1 DEF CancelExternally, Drift, Crash, locals, vars
  <2>2. ASSUME NEW o \in Procs, Step(o), o # p
        PROVE  pc'[p] = pc[p] /\ loc'[p] = loc[p]
    BY <2>2, OthersStay
  <2>3. CASE Step(p) /\ ~Prepare(p)
    <3> USE DEF Goto, Finish
    <3>1. ~Approve(p) /\ ~Cancel(p) /\ ~PreStep(p) /\ ~Expire(p)
      BY DEF Approve, Cancel, PreStep, Expire
    <3>2. ~Scheduling(p) /\ ~Cancelling(p)
      BY DEF Scheduling, WritePointer, PointerRefused, Publish, Abort, Cancelling,
         CancelLocal, CancelShared
    <3>3. ~Reconciling(p) /\ ~WriteFails(p)
      BY DEF Reconciling, Repair, Wait, Abandon, WriteFails, Unrecorded
    <3>4. ~(Execution(p) /\ ~Prepare(p))
      BY DEF Execution, Check, NotClaimed, Claim, Rewrite, Deferred, Record, Finalize, Unrecorded
    <3> QED
      BY <2>3, <3>1, <3>2, <3>3, <3>4 DEF Step
  <2> QED
    BY <2>1, <2>2, <2>3 DEF Next
<1> QED
  BY <1>2, <1>3, <1>4

\* Only a rewrite in full takes a plan's items out of the surface.
LEMMA StubbedStep ==
  ASSUME IInv, Published, [Next]_vars,
         {q \in Plans : surface'[q] = "stub"} # {q \in Plans : surface[q] = "stub"}
  PROVE  \E q \in Plans : DshExecution!CarryOut(q)
<1> USE Fields DEF IInv, TypeOK
<1>1. ~Drift
  BY DEF Drift
<1>2. PICK p \in Procs : Rewrite(p)
  BY <1>1, Writers DEF session
<1>3. PICK q \in Plans : q = PlanOf(p)
  BY <1>2 DEF Rewrite, LocOK
<1>4. PICK s \in {"stub", "part"} : surface' = [surface EXCEPT ![q] = s]
  BY <1>2, <1>3 DEF Rewrite
<1>5. surface[q] # "stub"
  BY <1>2, <1>3 DEF Rewrite, HasTargets
<1>6. s = "stub"
  BY <1>4, <1>5
<1>7. {r \in Plans : surface'[r] = "stub"} = {r \in Plans : surface[r] = "stub"} \cup {q}
  BY <1>4, <1>6
<1>8. receipt[q] \notin {"analyzed", "approved"} /\ UNCHANGED receipt
  BY <1>2, <1>3 DEF Rewrite, Published, ReceiptOf, shared
<1> QED
  BY <1>7, <1>8 DEF DshExecution!CarryOut

\* A step of the harness is one of the execution, or changes nothing of it.
LEMMA StepExecutes ==
  IInv /\ Published /\ [Next]_vars => [DshExecution!Next]_(DshExecution!vars)
<1> SUFFICES ASSUME IInv, Published, [Next]_vars,
                    receipt' # receipt \/ {q \in Plans : surface'[q] = "stub"}
                                            # {q \in Plans : surface[q] = "stub"}
             PROVE  DshExecution!Next
  BY DEF DshExecution!vars
<1>1. CASE {q \in Plans : surface'[q] = "stub"} # {q \in Plans : surface[q] = "stub"}
  BY <1>1, StubbedStep DEF DshExecution!Next
<1>2. CASE receipt' # receipt
  <2>1. PICK q \in Plans : \E s \in Status : Written(q, s)
    BY <1>2, ReceiptWritten
  <2>2. PICK s \in Status : Written(q, s)
    BY <2>1
  <2>3. DshExecution!Advance(q) \/ DshExecution!Report(q)
    BY <2>2 DEF Written, session, DshExecution!Advance, DshExecution!Report,
       DshExecution!Status, DshExecution!Transitions, Status, Transitions
  <2> QED
    BY <2>3 DEF DshExecution!Next
<1> QED
  BY <1>1, <1>2

\* The harness executes plans as CleanExecution promises, for any number of operations,
\* plans, claims and faults.
THEOREM DshRefinement == Spec => DshExecutes
<1>1. Init => Published /\ DshExecution!Init
  <2>1. Init => Published
    BY DEF Init, Published
  <2>2. Init => {q \in Plans : surface[q] = "stub"} = {}
    BY DEF Init
  <2>3. Init => receipt \in [Plans -> {"analyzed", "approved"}]
    BY DEF Init
  <2> QED
    BY <2>1, <2>2, <2>3 DEF DshExecution!Init
<1> QED
  BY <1>1, DshInvariance, StepPublished, StepExecutes, PTL
  DEF Spec, DshExecutes, DshExecution!Spec

-------------------------------------------------------------------------------
(* The canonical cycle of this host, OpenCode and pi ***********************)

\* Until the host has moved its turns a turn keeps the number it was given, and
\* the registry gives a number the tasks estimates gave to the turn.
NumbersHold ==
  /\ Len(canSurface) <= canMade
  /\ ~canMoved =>
       /\ Renumbers =>
            Len(canSurface) = canMade /\ \A i \in 1..Len(canSurface) : canSurface[i] = i
       /\ canRegistry.owners = canTruth

\* Stubs that were shown are kept, and a request that could read the overlay
\* holds all of it.
StubsHold ==
  /\ canHost # "pi" => canDrafts = {}
  /\ (canHost = "opencode" /\ ~canUnread) =>
       canOverlay = (IF canPc = "idle" THEN {} ELSE canStubs)
  /\ ~canUnread => canSent \subseteq canStubs

\* The inductive invariant of the cycle.
CanonicalInv == CanonicalTypeOK /\ NumbersHold /\ StubsHold

\* A session begins with nothing replaced and nothing estimated.
LEMMA CanonicalInitInv == CanonicalInit => CanonicalInv
<1> SUFFICES ASSUME CanonicalInit PROVE CanonicalInv
  OBVIOUS
<1>1. canRegistry \in [mark : 0..CanMaxTurns, owners : [CanTurns -> SUBSET CanTasks],
                       done : SUBSET CanTasks]
  BY CanonicalAssumption DEF CanonicalInit
<1>2. CanonicalTypeOK
  <2>1. canSurface \in Seq(CanTurns) /\ canMade \in 0..CanMaxTurns /\ canFaults \in 0..CanMaxFaults
    BY CanonicalAssumption DEF CanonicalInit
  <2>2. canTruth \in [CanTurns -> SUBSET CanTasks] /\ canTo \in 0..CanMaxTurns
    BY CanonicalAssumption DEF CanonicalInit
  <2> QED
    BY <1>1, <2>1, <2>2 DEF CanonicalInit, CanonicalTypeOK
<1>3. NumbersHold /\ StubsHold
  BY DEF CanonicalInit, NumbersHold, StubsHold
<1> QED
  BY <1>2, <1>3 DEF CanonicalInv

\* Turns and their numbers stay in their ranges.
LEMMA SurfaceFacts ==
  ASSUME CanonicalTypeOK, NumbersHold
  PROVE  /\ LastNumber \in 0..CanMaxTurns
         /\ DOMAIN canSurface = 1..Len(canSurface) /\ Len(canSurface) \in Nat
         /\ \A i \in 1..Len(canSurface) : canSurface[i] \in CanTurns
         /\ CanShown \subseteq CanTurns /\ ToEvict \subseteq CanTurns
<1>1. canSurface \in Seq(CanTurns) /\ canMade \in 0..CanMaxTurns
  BY DEF CanonicalTypeOK
<1>2. DOMAIN canSurface = 1..Len(canSurface) /\ Len(canSurface) \in Nat
  BY <1>1
<1>3. \A i \in 1..Len(canSurface) : canSurface[i] \in CanTurns
  BY <1>1
<1>4. CanShown \subseteq CanTurns /\ ToEvict \subseteq CanTurns
  BY <1>2, <1>3 DEF CanShown, ToEvict
<1>5. LastNumber \in 0..CanMaxTurns
  <2>1. CASE canSurface = <<>>
    BY <2>1, CanonicalAssumption DEF LastNumber
  <2>2. CASE canSurface # <<>>
    <3>1. Len(canSurface) \in 1..Len(canSurface) /\ LastNumber = NumberAt(Len(canSurface))
      BY <1>1, <2>2 DEF LastNumber
    <3>2. canSurface[Len(canSurface)] \in CanTurns
      BY <3>1, <1>3
    <3> QED
      BY <3>1, <3>2, <1>1, CanonicalAssumption DEF NumberAt, NumbersHold, CanTurns
  <2> QED
    BY <2>1, <2>2
<1> QED
  BY <1>2, <1>3, <1>4, <1>5

\* Every step of the host and of a cycle keeps the invariant.
LEMMA CanonicalStepInv == CanonicalInv /\ [CanonicalNext]_canVars => CanonicalInv'
<1> SUFFICES ASSUME CanonicalInv, [CanonicalNext]_canVars PROVE CanonicalInv'
  OBVIOUS
<1> USE CanonicalAssumption
<1>0. /\ CanonicalTypeOK /\ NumbersHold /\ StubsHold
  BY DEF CanonicalInv
<1>s. /\ LastNumber \in 0..CanMaxTurns
      /\ DOMAIN canSurface = 1..Len(canSurface) /\ Len(canSurface) \in Nat
      /\ \A i \in 1..Len(canSurface) : canSurface[i] \in CanTurns
      /\ CanShown \subseteq CanTurns /\ ToEvict \subseteq CanTurns
  BY <1>0, SurfaceFacts
<1>1. CASE UNCHANGED canVars
  BY <1>0, <1>1 DEF CanonicalInv, CanonicalTypeOK, NumbersHold, StubsHold, Renumbers,
    canVars, canSession, canCycle, canHistory
<1>2. CASE CanonicalPrompt
  <2>1. /\ canSurface' = Append(canSurface, canMade + 1) /\ canMade' = canMade + 1
        /\ canMade + 1 \in CanTurns /\ canMade < CanMaxTurns
    BY <1>0, <1>2 DEF CanonicalPrompt, CanonicalTypeOK, CanTurns
  <2>2. /\ canSurface' \in Seq(CanTurns) /\ Len(canSurface') = Len(canSurface) + 1
        /\ \A i \in 1..(Len(canSurface) + 1) :
             canSurface'[i] = IF i <= Len(canSurface) THEN canSurface[i] ELSE canMade + 1
    BY <2>1, <1>0, <1>s DEF CanonicalTypeOK
  <2>3. UNCHANGED <<canHost, canMoved, canStubs, canRegistry, canCycle, canHistory, canFaults>>
    BY <1>2 DEF CanonicalPrompt
  <2>4. CanonicalTypeOK'
    BY <2>1, <2>2, <2>3, <1>0 DEF CanonicalTypeOK, canCycle, canHistory
  <2>5. NumbersHold'
    <3>1. Len(canSurface) <= canMade /\ canMade \in Nat
      BY <1>0 DEF NumbersHold, CanonicalTypeOK
    <3>2. ASSUME ~canMoved', Renumbers'
          PROVE Len(canSurface') = canMade' /\ \A i \in 1..Len(canSurface') : canSurface'[i] = i
      <4>1. ~canMoved /\ Renumbers
        BY <3>2, <2>3 DEF Renumbers
      <4>2. Len(canSurface) = canMade /\ \A i \in 1..Len(canSurface) : canSurface[i] = i
        BY <4>1, <1>0 DEF NumbersHold
      <4> QED
        BY <4>2, <3>1, <2>1, <2>2, <1>s
    <3>3. ASSUME ~canMoved' PROVE canRegistry'.owners = canTruth'
      BY <3>3, <2>3, <1>0 DEF NumbersHold, canHistory
    <3> QED
      BY <3>1, <3>2, <3>3, <2>1, <2>2, <1>s DEF NumbersHold
  <2>6. StubsHold'
    BY <2>3, <1>0 DEF StubsHold, canCycle, canHistory
  <2> QED
    BY <2>4, <2>5, <2>6 DEF CanonicalInv
<1>3. CASE CanonicalCompact
  <2>1. PICK k \in 1..(Len(canSurface) - 1) :
          canSurface' = SubSeq(canSurface, k + 1, Len(canSurface))
    BY <1>3 DEF CanonicalCompact
  <2>2. canSurface' \in Seq(CanTurns) /\ Len(canSurface') = Len(canSurface) - k
    BY <2>1, <1>0, <1>s DEF CanonicalTypeOK
  <2>3. UNCHANGED <<canHost, canMade, canStubs, canRegistry, canCycle, canHistory, canFaults>>
        /\ canMoved' = (canMoved \/ Renumbers)
    BY <1>3 DEF CanonicalCompact
  <2>4. CanonicalTypeOK'
    BY <2>2, <2>3, <1>0 DEF CanonicalTypeOK, canCycle, canHistory, Renumbers
  <2>5. NumbersHold'
    <3>1. Len(canSurface) <= canMade /\ canMade \in Nat
      BY <1>0 DEF NumbersHold, CanonicalTypeOK
    <3>2. Len(canSurface') <= canMade'
      BY <3>1, <2>1, <2>2, <2>3, <1>s
    <3>3. ASSUME ~canMoved' PROVE ~canMoved /\ ~Renumbers'
      BY <3>3, <2>3 DEF Renumbers
    <3>4. ASSUME ~canMoved' PROVE canRegistry'.owners = canTruth'
      BY <3>3, <3>4, <2>3, <1>0 DEF NumbersHold, canHistory
    <3> QED
      BY <3>2, <3>3, <3>4 DEF NumbersHold
  <2>6. StubsHold'
    BY <2>3, <1>0 DEF StubsHold, canCycle, canHistory
  <2> QED
    BY <2>4, <2>5, <2>6 DEF CanonicalInv
<1>4. CASE CanonicalBranch
  <2>1. PICK k \in 1..(Len(canSurface) - 1) : canSurface' = SubSeq(canSurface, 1, k)
    BY <1>4 DEF CanonicalBranch
  <2>2. canSurface' \in Seq(CanTurns) /\ Len(canSurface') = k
    BY <2>1, <1>0, <1>s DEF CanonicalTypeOK
  <2>3. /\ UNCHANGED <<canHost, canMade, canRegistry, canCycle, canTruth, canUnread, canFaults>>
        /\ canMoved' = TRUE /\ canStubs' \subseteq canStubs /\ canSent' = canSent \cap canStubs'
        /\ canHost = "pi"
    BY <1>4 DEF CanonicalBranch
  <2>4. CanonicalTypeOK'
    BY <2>2, <2>3, <1>0 DEF CanonicalTypeOK, canCycle
  <2>5. NumbersHold'
    <3>1. Len(canSurface) <= canMade /\ canMade \in Nat
      BY <1>0 DEF NumbersHold, CanonicalTypeOK
    <3>2. Len(canSurface') <= canMade'
      BY <3>1, <2>1, <2>2, <2>3, <1>s
    <3> QED
      BY <3>2, <2>3 DEF NumbersHold
  <2>6. StubsHold'
    BY <2>3, <1>0 DEF StubsHold, canCycle
  <2> QED
    BY <2>4, <2>5, <2>6 DEF CanonicalInv
<1>5. CASE CanonicalBegin
  <2>1. CanonicalTypeOK'
    <3>1. canTo' \in 0..CanMaxTurns /\ canPc' \in {"decide", "estimate"}
      BY <1>5, <1>s DEF CanonicalBegin
    <3>2. /\ canOverlay' \subseteq CanTurns /\ canUnread' \in BOOLEAN
          /\ canFaults' \in 0..CanMaxFaults
      <4>1. CASE canOverlay' = canStubs /\ UNCHANGED <<canUnread, canFaults>>
        BY <4>1, <1>0 DEF CanonicalTypeOK
      <4>2. CASE /\ canFaults < CanMaxFaults
                 /\ canOverlay' = {} /\ canUnread' = TRUE /\ canFaults' = canFaults + 1
        BY <4>2, <1>0 DEF CanonicalTypeOK
      <4> QED
        BY <4>1, <4>2, <1>5 DEF CanonicalBegin
    <3>3. UNCHANGED <<canSession, canStubs, canRegistry, canDrafts, canTruth, canSent>>
      BY <1>5 DEF CanonicalBegin
    <3> QED
      BY <3>1, <3>2, <3>3, <1>0 DEF CanonicalTypeOK, canSession
  <2>2. NumbersHold'
    BY <1>5, <1>0 DEF CanonicalBegin, NumbersHold, Renumbers, canSession
  <2>3. StubsHold'
    BY <1>5, <1>0 DEF CanonicalBegin, StubsHold, CanonicalTypeOK, canSession
  <2> QED
    BY <2>1, <2>2, <2>3 DEF CanonicalInv
<1>6. CASE CanonicalEstimated
  <2>1. PICK told \in SUBSET CanTasks :
        \E finished \in SUBSET told, given \in [Covered -> SUBSET told] :
          /\ canRegistry' =
               [canRegistry EXCEPT
                  !.owners = [n \in CanTurns |->
                    @[n] \cup UNION {given[i] : i \in {j \in Covered : NumberAt(j) = n}}],
                  !.done = (@ \ told) \cup finished]
          /\ canTruth' =
               [t \in CanTurns |->
                  canTruth[t] \cup UNION {given[i] : i \in {j \in Covered : canSurface[j] = t}}]
    BY <1>6 DEF CanonicalEstimated
  <2>2. PICK finished \in SUBSET told, given \in [Covered -> SUBSET told] :
          /\ canRegistry' =
               [canRegistry EXCEPT
                  !.owners = [n \in CanTurns |->
                    @[n] \cup UNION {given[i] : i \in {j \in Covered : NumberAt(j) = n}}],
                  !.done = (@ \ told) \cup finished]
          /\ canTruth' =
               [t \in CanTurns |->
                  canTruth[t] \cup UNION {given[i] : i \in {j \in Covered : canSurface[j] = t}}]
    BY <2>1
  <2> DEFINE Owners == [n \in CanTurns |->
                    canRegistry.owners[n] \cup UNION {given[i] : i \in {j \in Covered : NumberAt(j) = n}}]
             Truth == [t \in CanTurns |->
                  canTruth[t] \cup UNION {given[i] : i \in {j \in Covered : canSurface[j] = t}}]
  <2>3. canRegistry' = [mark |-> canRegistry.mark, owners |-> Owners,
                        done |-> (canRegistry.done \ told) \cup finished]
        /\ canTruth' = Truth
    BY <2>2, <1>0 DEF CanonicalTypeOK
  <2>4. \A n \in CanTurns :
          UNION {given[i] : i \in {j \in Covered : NumberAt(j) = n}} \subseteq CanTasks
    BY <2>1, <2>2
  <2>5. \A n \in CanTurns :
          UNION {given[i] : i \in {j \in Covered : canSurface[j] = n}} \subseteq CanTasks
    BY <2>1, <2>2
  <2>6. Owners \in [CanTurns -> SUBSET CanTasks] /\ Truth \in [CanTurns -> SUBSET CanTasks]
    BY <2>4, <2>5, <1>0 DEF CanonicalTypeOK
  <2>7. /\ UNCHANGED <<canSession, canStubs, canOverlay, canTo, canDrafts, canSent, canUnread, canFaults>>
        /\ canPc = "estimate" /\ canPc' = "decide"
    BY <1>6 DEF CanonicalEstimated
  <2>8. CanonicalTypeOK'
    <3> HIDE DEF Owners, Truth
    <3>1. canRegistry' \in [mark : 0..CanMaxTurns, owners : [CanTurns -> SUBSET CanTasks],
                            done : SUBSET CanTasks]
      <4>1. canRegistry.mark \in 0..CanMaxTurns /\ canRegistry.done \subseteq CanTasks
        BY <1>0 DEF CanonicalTypeOK
      <4>2. (canRegistry.done \ told) \cup finished \subseteq CanTasks
        BY <4>1, <2>1, <2>2
      <4> QED
        BY <4>1, <4>2, <2>3, <2>6
    <3> QED
      BY <3>1, <2>3, <2>6, <2>7, <1>0 DEF CanonicalTypeOK, canSession
  <2>9. NumbersHold'
    <3>1. ASSUME ~canMoved PROVE \A i \in Covered : NumberAt(i) = canSurface[i]
      BY <3>1, <1>0, <1>s DEF NumbersHold, NumberAt, Covered
    <3>2. ASSUME ~canMoved PROVE Owners = Truth
      <4>1. canRegistry.owners = canTruth
        BY <3>2, <1>0 DEF NumbersHold
      <4>2. ASSUME NEW n \in CanTurns
            PROVE {j \in Covered : NumberAt(j) = n} = {j \in Covered : canSurface[j] = n}
        BY <3>1, <3>2
      <4>3. ASSUME NEW n \in CanTurns PROVE Owners[n] = Truth[n]
        BY <4>1, <4>2
      <4> QED
        BY <4>3
    <3> HIDE DEF Owners, Truth
    <3> QED
      BY <3>2, <2>3, <2>7, <1>0 DEF NumbersHold, Renumbers, canSession
  <2>10. StubsHold'
    BY <2>7, <1>0 DEF StubsHold, canSession
  <2> QED
    BY <2>8, <2>9, <2>10 DEF CanonicalInv
<1>7. CASE CanonicalFails
  BY <1>7, <1>0 DEF CanonicalFails, CanonicalInv, CanonicalTypeOK, NumbersHold, StubsHold,
    Renumbers, canSession, canHistory
<1>8. CASE CanonicalKeeps
  BY <1>8, <1>0 DEF CanonicalKeeps, CanonicalInv, CanonicalTypeOK, NumbersHold, StubsHold,
    Renumbers, canSession, canHistory
<1>9. CASE CanonicalApplies
  <2>1. UNCHANGED <<canSession, canRegistry, canTo, canHistory>> /\ canPc = "decide"
    BY <1>9 DEF CanonicalApplies
  <2>2. NumbersHold'
    BY <2>1, <1>0 DEF NumbersHold, Renumbers, canSession, canHistory
  <2>3. CASE OverlaySaved
    BY <2>1, <2>2, <2>3, <1>0, <1>s DEF OverlaySaved, CanonicalInv, CanonicalTypeOK, StubsHold,
      canSession, canHistory
  <2>4. CASE DraftsBuilt
    BY <2>1, <2>2, <2>4, <1>0, <1>s DEF DraftsBuilt, CanonicalInv, CanonicalTypeOK, StubsHold,
      canSession, canHistory
  <2>5. CASE EventsAppended
    BY <2>1, <2>2, <2>5, <1>0, <1>s DEF EventsAppended, CanonicalInv, CanonicalTypeOK, StubsHold,
      canSession, canHistory
  <2> QED
    BY <1>9, <2>3, <2>4, <2>5 DEF CanonicalApplies
<1>10. CASE CanonicalAdvances
  <2>1. /\ UNCHANGED <<canSession, canStubs, canOverlay, canTo, canDrafts, canHistory>>
        /\ canPc = "advance" /\ canPc' = "send"
        /\ canFaults' \in 0..CanMaxFaults
    BY <1>10, <1>0 DEF CanonicalAdvances, CanonicalTypeOK
  <2>2. /\ canRegistry' \in [mark : 0..CanMaxTurns, owners : [CanTurns -> SUBSET CanTasks],
                             done : SUBSET CanTasks]
        /\ canRegistry'.owners = canRegistry.owners
    BY <1>10, <1>0 DEF CanonicalAdvances, CanonicalTypeOK
  <2>3. CanonicalTypeOK'
    BY <2>1, <2>2, <1>0 DEF CanonicalTypeOK, canSession, canHistory
  <2>4. NumbersHold' /\ StubsHold'
    BY <2>1, <2>2, <1>0 DEF NumbersHold, StubsHold, Renumbers, canSession, canHistory
  <2> QED
    BY <2>3, <2>4 DEF CanonicalInv
<1>11. CASE CanonicalSend
  <2>1. /\ UNCHANGED <<canSession, canRegistry, canTruth, canUnread, canFaults>>
        /\ canPc = "send" /\ canPc' = "idle" /\ canDrafts' = {} /\ canOverlay' = {} /\ canTo' = 0
        /\ canStubs' = canStubs \cup canDrafts
        /\ canSent' = canSent \cup (CanShown \cap (CanVisible \cup canDrafts))
    BY <1>11 DEF CanonicalSend
  <2>2. CanonicalTypeOK'
    BY <2>1, <1>0, <1>s DEF CanonicalTypeOK, canSession
  <2>3. NumbersHold'
    BY <2>1, <1>0 DEF NumbersHold, Renumbers, canSession
  <2>4. StubsHold'
    BY <2>1, <1>0 DEF StubsHold, CanVisible, canSession
  <2> QED
    BY <2>2, <2>3, <2>4 DEF CanonicalInv
<1>12. CASE CanonicalDies
  BY <1>12, <1>0 DEF CanonicalDies, CanonicalInv, CanonicalTypeOK, NumbersHold, StubsHold,
    Renumbers, canSession, canHistory
<1> QED
  BY <1>1, <1>2, <1>3, <1>4, <1>5, <1>6, <1>7, <1>8, <1>9, <1>10, <1>11, <1>12
    DEF CanonicalNext

\* The invariant holds in every state of a session.
THEOREM CanonicalInvariance == CanonicalSpec => []CanonicalInv
  BY CanonicalInitInv, CanonicalStepInv, PTL DEF CanonicalSpec

\* runCanonicalEvictionCycle: what a cycle is about to take away belongs to that
\* very turn's tasks and they are finished, while turns keep their numbers.
THEOREM EvictedWasFinished == CanonicalSpec => []EvictsFinishedTurns
<1>1. CanonicalInv => EvictsFinishedTurns
  <2> SUFFICES ASSUME CanonicalInv, ~canMoved, NEW t \in ToEvict
               PROVE canTruth[t] # {} /\ canTruth[t] \subseteq canRegistry.done
    BY DEF EvictsFinishedTurns
  <2>1. /\ NumbersHold
        /\ DOMAIN canSurface = 1..Len(canSurface)
    BY SurfaceFacts DEF CanonicalInv
  <2>2. PICK j \in DOMAIN canSurface : t = canSurface[j] /\ Completed(NumberAt(j))
    BY DEF ToEvict
  <2>3. NumberAt(j) = t /\ canRegistry.owners = canTruth
    BY <2>1, <2>2 DEF NumbersHold, NumberAt
  <2> QED
    BY <2>2, <2>3 DEF Completed
<1> QED
  BY <1>1, CanonicalInvariance, PTL

\* Overlay, edits and events: a turn shown as a stub stays one, while the overlay
\* can be read.
THEOREM StubsAreStable == CanonicalSpec => []EvictionsStay
<1>1. CanonicalInv => EvictionsStay
  BY DEF CanonicalInv, StubsHold, EvictionsStay, CanVisible
<1> QED
  BY <1>1, CanonicalInvariance, PTL

\* Registry, overlay and watermark stay in their ranges.
THEOREM CanonicalTypeCorrect == CanonicalSpec => []CanonicalTypeOK
<1>1. CanonicalInv => CanonicalTypeOK
  BY DEF CanonicalInv
<1> QED
  BY <1>1, CanonicalInvariance, PTL
=============================================================================
