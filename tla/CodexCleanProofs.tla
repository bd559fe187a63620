---------------------------- MODULE CodexCleanProofs ----------------------------
(***************************************************************************)
(* The four stores of a Codex clean agree, for every number of processes,  *)
(* plans, requests and faults.  The argument: only the holder of the       *)
(* session lock moves a pending epoch or a schedule record, committed      *)
(* epochs and terminal receipts never change, and what a process carries   *)
(* from one lock to the next is one of those two.  What the provider       *)
(* accepts and the receipts say is an execution in the sense of            *)
(* CleanExecution.                                                         *)
(***************************************************************************)
EXTENDS CodexClean, TLAPS

\* A process at a control point of Holding holds the lock.
HolderOK == \A p \in Procs : pc[p] \in Holding => lock = p

\* A process that serves a request knows its content, and later its plan.
LocOK ==
  \A p \in Procs :
    /\ pc[p] \notin {"idle", "point"} => loc[p].epoch \in Requests
    /\ pc[p] \notin {"idle", "recover", "read"} => loc[p].plan \in Plans

\* What stays true of a request that is upstream: nobody else touches its epoch,
\* its schedule record, or commits another epoch of its plan.
InFlight(p) ==
  pc[p] = "inflight" =>
    /\ epochs[loc[p].epoch] = EpochOf(p, "pending")
    /\ pointer[loc[p].plan].status = "scheduled"
    /\ \A e \in Requests : ~(epochs[e].status = "committed" /\ epochs[e].plan = loc[p].plan)

\* What a process knows of a committed epoch or a terminal receipt, on its way to
\* record it in the next store.
Carries(p) ==
  /\ pc[p] \in {"record", "finalize"} =>
       epochs[loc[p].epoch].status = "committed" /\ epochs[loc[p].epoch].plan = loc[p].plan
  /\ pc[p] = "settle" =>
       receipt[loc[p].plan] = "applied" /\ executedBy[loc[p].plan] = loc[p].epoch
  /\ pc[p] = "mirror" =>
       loc[p].seen \in {"stale", "cancelled"} /\ receipt[loc[p].plan] = loc[p].seen

ProcsOK == \A p \in Procs : InFlight(p) /\ Carries(p)

IInv == /\ TypeOK /\ LocOK /\ HolderOK /\ ProcsOK
        /\ OneCommitPerPlan /\ AppliedHasEvidence /\ ScheduleFollowsReceipts

-------------------------------------------------------------------------------
LEMMA NoLocalTyped == NoLocal \in Local
BY DEF NoLocal, Local, PointerStatus, Revisions

LEMMA Fields ==
  ASSUME TypeOK
  PROVE  /\ \A p \in Procs : /\ loc[p] \in Local
                             /\ loc[p].epoch \in Requests \cup {None}
                             /\ loc[p].plan \in Plans \cup {None}
                             /\ loc[p].seen \in PointerStatus
                             /\ loc[p].rev \in Revisions
         /\ \A q \in Plans : pointer[q].status \in PointerStatus
BY DEF TypeOK, Local, Pointer

\* One field of what a process knows changes.
LEMMA LocalChanges ==
  ASSUME NEW l \in Local
  PROVE  /\ \A e \in Requests : [l EXCEPT !.epoch = e] \in Local
         /\ \A s \in PointerStatus : [l EXCEPT !.seen = s] \in Local
         /\ \A q \in Plans, s \in PointerStatus :
              [l EXCEPT !.plan = q, !.seen = s] \in Local
         /\ \A r \in Revisions : [l EXCEPT !.rev = r] \in Local
BY DEF Local

LEMMA InitIInv == Init => IInv
<1> SUFFICES ASSUME Init PROVE IInv
  OBVIOUS
<1> USE DEF Init
<1>1. TypeOK
  BY NoLocalTyped, CodexCleanAssumption DEF TypeOK, Pointer, Epoch, ReceiptStatus, Status,
     PointerStatus, EpochStatus, Revisions, Labels, Holding
<1>2. LocOK /\ HolderOK
  BY DEF LocOK, HolderOK, Holding
<1>3. ProcsOK
  BY DEF ProcsOK, InFlight, Carries
<1>4. OneCommitPerPlan /\ AppliedHasEvidence /\ ScheduleFollowsReceipts
  BY DEF OneCommitPerPlan, AppliedHasEvidence, ScheduleFollowsReceipts
<1> QED
  BY <1>1, <1>2, <1>3, <1>4 DEF IInv

-------------------------------------------------------------------------------
LEMMA StepTyped == TypeOK /\ LocOK /\ [Next]_vars => TypeOK'
<1> SUFFICES ASSUME TypeOK, LocOK, [Next]_vars PROVE TypeOK'
  OBVIOUS
<1> USE NoLocalTyped DEF TypeOK, LocOK, Goto, Finish, Release, Lock
<1> USE DEF receipts, pointers, locals, Labels, Holding
<1>1. CASE Cancel
  BY <1>1 DEF Cancel, SetReceipt, ReceiptStatus, Status
<1>2. ASSUME NEW p \in Procs, User(p) PROVE TypeOK'
  <2>1. CASE Schedule(p)
    BY <2>1 DEF Schedule, SetReceipt, ReceiptStatus, Status, Local, NoLocal
  <2>2. CASE WritePointer(p) \/ PointerRefused(p)
    BY <2>2 DEF WritePointer, PointerRefused, Append, Pointer, PointerStatus
  <2> QED
    BY <1>2, <2>1, <2>2 DEF User
<1>3. ASSUME NEW p \in Procs, Begin(p) \/ Prepare(p) \/ EnterPrepare(p) PROVE TypeOK'
  <2>1. CASE Begin(p)
    BY <2>1 DEF Begin, Local, NoLocal
  <2>2. CASE FailPending(p)
    <3>1. epochs' \in [Requests -> Epoch]
      BY <2>2 DEF FailPending, Epoch, EpochStatus
    <3> QED
      BY <2>2, <3>1 DEF FailPending
  <2>3. CASE NoRecovery(p) \/ NotReserved(p) \/ LeavePrepare(p)
    BY <2>3 DEF NoRecovery, NotReserved, LeavePrepare
  <2>4. CASE ReadSchedule(p)
    <3>1. PICK q \in Plans :
            Goto(p, "prepare", [loc[p] EXCEPT !.plan = q, !.seen = pointer[q].status])
      BY <2>4 DEF ReadSchedule
    <3>2. [loc[p] EXCEPT !.plan = q, !.seen = pointer[q].status] \in Local
      BY Fields, LocalChanges
    <3> QED
      BY <2>4, <3>1, <3>2 DEF ReadSchedule
  <2>5. CASE EnterPrepare(p)
    <3>1. PICK q \in Plans :
            Goto(p, "lookup", [loc[p] EXCEPT !.plan = q, !.seen = pointer[q].status])
      BY <2>5 DEF EnterPrepare
    <3>2. [loc[p] EXCEPT !.plan = q, !.seen = pointer[q].status] \in Local
      BY Fields, LocalChanges
    <3> QED
      BY <2>5, <3>1, <3>2 DEF EnterPrepare
  <2> QED
    BY <1>3, <2>1, <2>2, <2>3, <2>4, <2>5 DEF Prepare
<1>4. ASSUME NEW p \in Procs, Recover(p) PROVE TypeOK'
  <2>1. CASE FoundTerminal(p)
    BY <2>1 DEF FoundTerminal, Local, PointerStatus
  <2>2. CASE FoundEpoch(p) \/ FoundApplied(p)
    <3>1. PICK e \in Requests, l \in {"record", "settle"} :
            Goto(p, l, [loc[p] EXCEPT !.epoch = e])
      BY <2>2 DEF FoundEpoch, FoundApplied, Evidence, CommittedFor
    <3>2. [loc[p] EXCEPT !.epoch = e] \in Local
      BY Fields, LocalChanges
    <3> QED
      BY <2>2, <3>1, <3>2 DEF FoundEpoch, FoundApplied
  <2>3. CASE FoundNothing(p) \/ Reserved(p) \/ RecordRefused(p)
    BY <2>3 DEF FoundNothing, Reserved, RecordRefused
  <2>4. CASE RecordApplied(p)
    BY <2>4 DEF RecordApplied, Apply, SetReceipt, ReceiptStatus, Status
  <2> QED
    BY <1>4, <2>1, <2>2, <2>3, <2>4 DEF Recover
<1>5. ASSUME NEW p \in Procs, Plan(p) PROVE TypeOK'
  <2>1. CASE Prepared(p)
    BY <2>1 DEF Prepared, Valid, Views, Local, Revisions
  <2>2. CASE FoundStale(p)
    BY <2>2 DEF FoundStale
  <2>3. CASE RecordStale(p)
    <3>1. "stale" \in PointerStatus /\ "stale" \in ReceiptStatus
      BY DEF PointerStatus, ReceiptStatus, Status
    <3>2. receipt' \in [Plans -> ReceiptStatus]
      BY <2>3, <3>1 DEF RecordStale, SetReceipt
    <3>3. [loc[p] EXCEPT !.seen = "stale"] \in Local
      BY <3>1, Fields, LocalChanges
    <3> QED
      BY <2>3, <3>2, <3>3 DEF RecordStale
  <2> QED
    BY <1>5, <2>1, <2>2, <2>3 DEF Plan
<1>6. ASSUME NEW p \in Procs, Mirror(p) \/ Settle(p) \/ NotSettled(p) PROVE TypeOK'
  <2>1. CASE Mirror(p)
    <3>1. [status |-> loc[p].seen, epoch |-> None] \in Pointer
      BY Fields DEF Pointer
    <3> QED
      BY <2>1, <3>1 DEF Mirror, Append
  <2>2. CASE Settle(p)
    <3>1. [status |-> "committed", epoch |-> loc[p].epoch] \in Pointer
      BY Fields DEF Pointer, PointerStatus
    <3> QED
      BY <2>2, <3>1 DEF Settle, Append
  <2>3. CASE NotSettled(p)
    BY <2>3 DEF NotSettled
  <2> QED
    BY <1>6, <2>1, <2>2, <2>3
<1>7. ASSUME NEW p \in Procs, Execute(p) PROVE TypeOK'
  <2>1. CASE StartEpoch(p)
    BY <2>1 DEF StartEpoch, Guarded, EpochOf, Epoch, EpochStatus, Local
  <2>2. CASE EpochTaken(p) \/ CloseEpoch(p)
    BY <2>2 DEF EpochTaken, CloseEpoch, Guarded, Epoch, EpochStatus
  <2>3. CASE SnapshotChanged(p) \/ Bypass(p)
    BY <2>3 DEF SnapshotChanged, Bypass, Guarded
  <2>4. CASE CommitEpoch(p)
    BY <2>4 DEF CommitEpoch, Epoch, EpochStatus
  <2> QED
    BY <1>7, <2>1, <2>2, <2>3, <2>4 DEF Execute
<1>8. ASSUME NEW p \in Procs, WriteFails(p) \/ Crash(p) PROVE TypeOK'
  <2>1. faults' \in 0..MaxFaults
    BY <1>8, CodexCleanAssumption DEF WriteFails, Crash, Fault
  <2>2. CASE WriteFails(p)
    BY <2>1, <2>2 DEF WriteFails
  <2>3. CASE Crash(p)
    BY <2>1, <2>3 DEF Crash
  <2> QED
    BY <1>8, <2>2, <2>3
<1>9. CASE UNCHANGED vars
  BY <1>9 DEF vars
<1> QED
  BY <1>1, <1>2, <1>3, <1>4, <1>5, <1>6, <1>7, <1>8, <1>9 DEF Next, Step

-------------------------------------------------------------------------------
(***************************************************************************)
(* What one step does to each store, whoever takes it.                     *)
(***************************************************************************)
LEMMA OthersStay ==
  ASSUME TypeOK, NEW p \in Procs, Step(p), NEW o \in Procs, o # p
  PROVE  pc'[o] = pc[o] /\ loc'[o] = loc[o]
<1> USE DEF TypeOK, Goto, Finish
<1>1. CASE User(p) \/ Begin(p) \/ Prepare(p) \/ EnterPrepare(p)
  BY <1>1 DEF User, Begin, Prepare, Schedule, WritePointer, PointerRefused, FailPending,
     NoRecovery, ReadSchedule, NotReserved, EnterPrepare, LeavePrepare
<1>2. CASE Recover(p) \/ Plan(p) \/ Mirror(p) \/ Settle(p) \/ NotSettled(p)
  BY <1>2 DEF Recover, Plan, FoundTerminal, FoundEpoch, FoundApplied, FoundNothing,
     Reserved, RecordApplied, RecordRefused, Prepared, FoundStale, RecordStale, Mirror,
     Settle, NotSettled
<1>3. CASE Execute(p) \/ WriteFails(p) \/ Crash(p)
  BY <1>3 DEF Execute, StartEpoch, EpochTaken, SnapshotChanged, Bypass, CommitEpoch,
     CloseEpoch, WriteFails, Crash
<1> QED
  BY <1>1, <1>2, <1>3 DEF Step

\* An epoch changes under the lock, and only before it is decided.
EpochMoves(p, e) ==
  epochs'[e] = epochs[e]
    \/ /\ epochs[e].status \in {"none", "pending"}
       /\ lock = None \/ pc[p] = "inflight"
       /\ epochs'[e].status = "committed" =>
            /\ pc[p] = "inflight" /\ e = loc[p].epoch
            /\ epochs[e].status = "pending" /\ epochs'[e].plan = epochs[e].plan

LEMMA EpochStep ==
  ASSUME TypeOK, LocOK, NEW p \in Procs, Step(p), NEW e \in Requests
  PROVE  EpochMoves(p, e)
<1> USE DEF TypeOK, LocOK, EpochMoves
<1>1. CASE FailPending(p)
  BY <1>1 DEF FailPending, Pending, Epoch
<1>2. CASE StartEpoch(p) \/ EpochTaken(p)
  BY <1>2 DEF StartEpoch, EpochTaken, Guarded, EpochOf, Pending, Epoch
<1>3. CASE CommitEpoch(p) \/ CloseEpoch(p)
  BY <1>3 DEF CommitEpoch, CloseEpoch, Pending, Epoch
<1>4. CASE UNCHANGED epochs
  BY <1>4
<1>5. \/ FailPending(p) \/ StartEpoch(p) \/ EpochTaken(p) \/ CommitEpoch(p)
      \/ CloseEpoch(p) \/ UNCHANGED epochs
  BY DEF Step, User, Begin, Prepare, Schedule, WritePointer, PointerRefused, NoRecovery,
     ReadSchedule, NotReserved, EnterPrepare, LeavePrepare, Recover, Plan, FoundTerminal,
     FoundEpoch, FoundApplied, FoundNothing, Reserved, RecordApplied, RecordRefused,
     Prepared, FoundStale, RecordStale, Mirror, Settle, NotSettled, Execute,
     SnapshotChanged, Bypass, WriteFails, Crash
<1> QED
  BY <1>1, <1>2, <1>3, <1>4, <1>5

\* The schedule changes while nobody holds the lock, by a process that is about to.
PointerMoves(p) ==
  \/ UNCHANGED pointer
  \/ WritePointer(p) \/ Mirror(p) \/ Settle(p)

LEMMA PointerStep ==
  ASSUME NEW p \in Procs, Step(p)
  PROVE  PointerMoves(p)
BY DEF PointerMoves, pointers, Step, User, Begin, Prepare, Schedule, PointerRefused,
   FailPending, NoRecovery, ReadSchedule, NotReserved, EnterPrepare, LeavePrepare, Recover,
   Plan, FoundTerminal, FoundEpoch, FoundApplied, FoundNothing, Reserved, RecordApplied,
   RecordRefused, Prepared, FoundStale, RecordStale, NotSettled, Execute, StartEpoch,
   EpochTaken, CommitEpoch, CloseEpoch, SnapshotChanged, Bypass, WriteFails, Crash

\* A terminal receipt stays, and becomes applied only with an epoch a process carries.
ReceiptMoves(p, q) ==
  /\ receipt[q] \in Terminal => receipt'[q] = receipt[q] /\ executedBy'[q] = executedBy[q]
  /\ receipt'[q] = "applied" =>
       \/ receipt[q] = "applied" /\ executedBy'[q] = executedBy[q]
       \/ /\ pc[p] \in {"record", "finalize"}
          /\ q = loc[p].plan /\ executedBy'[q] = loc[p].epoch

LEMMA ReceiptStep ==
  ASSUME TypeOK, NEW p \in Procs, Step(p), NEW q \in Plans
  PROVE  ReceiptMoves(p, q)
<1> USE DEF TypeOK, ReceiptMoves, Terminal
<1>1. CASE Schedule(p)
  BY <1>1 DEF Schedule, SetReceipt
<1>2. CASE RecordApplied(p)
  BY <1>2 DEF RecordApplied, Acceptable, Apply, SetReceipt
<1>3. CASE RecordStale(p)
  BY <1>3 DEF RecordStale, SetReceipt
<1>4. CASE UNCHANGED receipts
  BY <1>4 DEF receipts
<1>5. Schedule(p) \/ RecordApplied(p) \/ RecordStale(p) \/ UNCHANGED receipts
  BY DEF receipts, Step, User, Begin, Prepare, WritePointer, PointerRefused, FailPending,
     NoRecovery, ReadSchedule, NotReserved, EnterPrepare, LeavePrepare, Recover, Plan,
     FoundTerminal, FoundEpoch, FoundApplied, FoundNothing, Reserved, RecordRefused,
     Prepared, FoundStale, Mirror, Settle, NotSettled, Execute, StartEpoch, EpochTaken,
     CommitEpoch, CloseEpoch, SnapshotChanged, Bypass, WriteFails, Crash
<1> QED
  BY <1>1, <1>2, <1>3, <1>4, <1>5

-------------------------------------------------------------------------------
(***************************************************************************)
(* The process that takes the step: its lock and what it knows.            *)
(***************************************************************************)
LEMMA StepLock ==
  ASSUME TypeOK, LocOK, HolderOK, NEW p \in Procs, Step(p)
  PROVE  LocOK' /\ HolderOK'
<1> USE DEF TypeOK, Goto, Finish, Release, Lock
<1>1. lock' = lock \/ lock \in {None, p}
  BY DEF Step, User, Begin, Prepare, Schedule, WritePointer, PointerRefused, FailPending,
     NoRecovery, ReadSchedule, NotReserved, EnterPrepare, LeavePrepare, Recover, Plan,
     FoundTerminal, FoundEpoch, FoundApplied, FoundNothing, Reserved, RecordApplied,
     RecordRefused, Prepared, FoundStale, RecordStale, Mirror, Settle, NotSettled, Execute,
     StartEpoch, EpochTaken, CommitEpoch, CloseEpoch, SnapshotChanged, Bypass, Guarded,
     WriteFails, Crash
<1>2. /\ pc'[p] \in Holding => lock' = p
      /\ pc'[p] \notin {"idle", "point"} => loc'[p].epoch \in Requests
      /\ pc'[p] \notin {"idle", "recover", "read"} => loc'[p].plan \in Plans
  <2> USE DEF LocOK, HolderOK, Holding
  <2>1. CASE User(p) \/ Begin(p) \/ Prepare(p) \/ EnterPrepare(p)
    <3>1. CASE User(p) \/ Begin(p)
      BY <3>1 DEF User, Begin, Schedule, WritePointer, PointerRefused, NoLocal
    <3>2. CASE ReadSchedule(p) \/ EnterPrepare(p)
      <4>1. PICK q \in Plans, l \in {"prepare", "lookup"} :
              Goto(p, l, [loc[p] EXCEPT !.plan = q, !.seen = pointer[q].status])
        BY <3>2 DEF ReadSchedule, EnterPrepare
      <4>2. pc'[p] = l /\ loc'[p].plan = q /\ loc'[p].epoch = loc[p].epoch
        BY <4>1 DEF Local
      <4> QED
        BY <3>2, <4>1, <4>2 DEF ReadSchedule, EnterPrepare
    <3>3. CASE FailPending(p) \/ NoRecovery(p) \/ NotReserved(p) \/ LeavePrepare(p)
      BY <3>3 DEF FailPending, NoRecovery, NotReserved, LeavePrepare
    <3> QED
      BY <2>1, <3>1, <3>2, <3>3 DEF Prepare
  <2>2. CASE Recover(p)
    BY <2>2 DEF Recover, FoundTerminal, FoundEpoch, FoundApplied, FoundNothing, Reserved,
       RecordApplied, RecordRefused, Evidence, CommittedFor, Local, NoLocal
  <2>3. CASE Plan(p) \/ Mirror(p) \/ Settle(p) \/ NotSettled(p)
    BY <2>3 DEF Plan, Prepared, FoundStale, RecordStale, Mirror, Settle, NotSettled, Local,
       NoLocal
  <2>4. CASE Execute(p) \/ WriteFails(p) \/ Crash(p)
    BY <2>4 DEF Execute, StartEpoch, EpochTaken, SnapshotChanged, Bypass, CommitEpoch,
       CloseEpoch, Guarded, WriteFails, Crash, Local, NoLocal
  <2> QED
    BY <2>1, <2>2, <2>3, <2>4 DEF Step
<1>3. ASSUME NEW o \in Procs, o # p
      PROVE  /\ pc'[o] \in Holding => lock' = o
             /\ pc'[o] \notin {"idle", "point"} => loc'[o].epoch \in Requests
             /\ pc'[o] \notin {"idle", "recover", "read"} => loc'[o].plan \in Plans
  <2>1. pc'[o] = pc[o] /\ loc'[o] = loc[o]
    BY <1>3, OthersStay
  <2>2. o # None
    BY CodexCleanAssumption
  <2> QED
    BY <1>1, <1>3, <2>1, <2>2 DEF LocOK, HolderOK
<1> QED
  BY <1>2, <1>3 DEF LocOK, HolderOK

\* What the process that takes the step carries on.
LEMMA OwnStep ==
  ASSUME TypeOK, LocOK, HolderOK, ProcsOK, NEW p \in Procs, Step(p)
  PROVE  InFlight(p)' /\ Carries(p)'
<1> USE DEF TypeOK, Goto, Finish, InFlight, Carries, EpochOf
<1>1. CASE User(p) \/ Begin(p) \/ Prepare(p) \/ EnterPrepare(p)
  BY <1>1 DEF User, Begin, Prepare, Schedule, WritePointer, PointerRefused, FailPending,
     NoRecovery, ReadSchedule, NotReserved, EnterPrepare, LeavePrepare
<1>2. CASE Recover(p)
  <2>1. CASE FoundTerminal(p)
    BY <2>1 DEF FoundTerminal, receipts, LocOK, Local
  <2>2. CASE FoundEpoch(p)
    BY <2>2 DEF FoundEpoch, Evidence, CommittedFor, LocOK, Local
  <2>3. CASE FoundApplied(p)
    BY <2>3 DEF FoundApplied, receipts, LocOK, Local
  <2>4. CASE RecordApplied(p)
    BY <2>4 DEF RecordApplied, Apply, SetReceipt, LocOK, Local
  <2>5. CASE FoundNothing(p) \/ Reserved(p) \/ RecordRefused(p)
    BY <2>5 DEF FoundNothing, Reserved, RecordRefused
  <2> QED
    BY <1>2, <2>1, <2>2, <2>3, <2>4, <2>5 DEF Recover
<1>3. CASE Plan(p) \/ Mirror(p) \/ Settle(p) \/ NotSettled(p)
  <2>1. CASE RecordStale(p)
    BY <2>1 DEF RecordStale, SetReceipt, LocOK, Local
  <2>2. CASE Prepared(p) \/ FoundStale(p) \/ Mirror(p) \/ Settle(p) \/ NotSettled(p)
    BY <2>2 DEF Prepared, FoundStale, Mirror, Settle, NotSettled
  <2> QED
    BY <1>3, <2>1, <2>2 DEF Plan
<1>4. CASE Execute(p) \/ WriteFails(p) \/ Crash(p)
  <2>1. CASE StartEpoch(p)
    BY <2>1 DEF StartEpoch, Guarded, CommittedFor, pointers, LocOK, Local
  <2>2. CASE CommitEpoch(p)
    BY <2>2 DEF CommitEpoch, ProcsOK, LocOK, Epoch
  <2>3. CASE EpochTaken(p) \/ SnapshotChanged(p) \/ Bypass(p) \/ CloseEpoch(p)
             \/ WriteFails(p) \/ Crash(p)
    BY <2>3 DEF EpochTaken, SnapshotChanged, Bypass, CloseEpoch, WriteFails, Crash
  <2> QED
    BY <1>4, <2>1, <2>2, <2>3 DEF Execute
<1> QED
  BY <1>1, <1>2, <1>3, <1>4 DEF Step

\* A process that does not move keeps what it carries: the mover neither holds the
\* lock of a request upstream, nor can undo a commit or a terminal receipt.
LEMMA OthersStep ==
  ASSUME TypeOK, LocOK, HolderOK, ProcsOK, NEW p \in Procs, Step(p),
         NEW o \in Procs, o # p
  PROVE  InFlight(o)' /\ Carries(o)'
<1>1. pc'[o] = pc[o] /\ loc'[o] = loc[o]
  BY OthersStay
<1>2. InFlight(o) /\ Carries(o)
  BY DEF ProcsOK
<1>3. InFlight(o)'
  <2> SUFFICES ASSUME pc[o] = "inflight" PROVE InFlight(o)'
    BY <1>1 DEF InFlight
  <2>1. lock = o /\ o # None /\ pc[p] # "inflight"
    BY CodexCleanAssumption DEF HolderOK, Holding
  <2>2. \A e \in Requests : epochs'[e] = epochs[e]
    BY <2>1, EpochStep DEF EpochMoves
  <2>3. UNCHANGED pointer
    BY <2>1, PointerStep DEF PointerMoves, WritePointer, Mirror, Settle
  <2>4. loc[o].epoch \in Requests
    BY DEF LocOK
  <2> QED
    BY <1>1, <1>2, <2>2, <2>3, <2>4 DEF InFlight, EpochOf
<1>4. Carries(o)'
  <2>1. CASE pc[o] \in {"record", "finalize"}
    <3>1. loc[o].epoch \in Requests
      BY <2>1 DEF LocOK
    <3>2. epochs'[loc[o].epoch] = epochs[loc[o].epoch]
      BY <1>2, <2>1, <3>1, EpochStep DEF EpochMoves, Carries
    <3> QED
      BY <1>1, <1>2, <2>1, <3>2 DEF Carries
  <2>2. CASE pc[o] \in {"settle", "mirror"}
    <3>1. loc[o].plan \in Plans
      BY <2>2 DEF LocOK
    <3>2. ReceiptMoves(p, loc[o].plan)
      BY <3>1, ReceiptStep
    <3> QED
      BY <1>1, <1>2, <2>2, <3>2 DEF Carries, ReceiptMoves, Terminal
  <2>3. CASE pc[o] \notin {"record", "finalize", "settle", "mirror"}
    BY <1>1, <2>3 DEF Carries
  <2> QED
    BY <2>1, <2>2, <2>3
<1> QED
  BY <1>3, <1>4

-------------------------------------------------------------------------------
(***************************************************************************)
(* The properties, each from what one step does.                           *)
(***************************************************************************)
LEMMA StepOneCommit ==
  ASSUME TypeOK, LocOK, ProcsOK, OneCommitPerPlan, NEW p \in Procs, Step(p)
  PROVE  OneCommitPerPlan'
<1> SUFFICES ASSUME NEW e \in Requests, NEW f \in Requests,
                    epochs'[e].status = "committed", epochs'[f].status = "committed",
                    epochs'[e].plan = epochs'[f].plan
             PROVE  e = f
  BY DEF OneCommitPerPlan
<1>1. EpochMoves(p, e) /\ EpochMoves(p, f)
  BY EpochStep
<1>2. CASE epochs'[e] = epochs[e] /\ epochs'[f] = epochs[f]
  BY <1>2 DEF OneCommitPerPlan
<1>3. CASE pc[p] = "inflight"
  <2>1. InFlight(p)
    BY DEF ProcsOK
  <2>2. epochs[loc[p].epoch].plan = loc[p].plan
    BY <1>3, <2>1 DEF InFlight, EpochOf
  <2>3. \A g \in Requests :
          ~(epochs[g].status = "committed" /\ epochs[g].plan = loc[p].plan)
    BY <1>3, <2>1 DEF InFlight
  <2> QED
    BY <1>1, <2>2, <2>3 DEF EpochMoves, OneCommitPerPlan
<1> QED
  BY <1>1, <1>2, <1>3 DEF EpochMoves

LEMMA StepEvidence ==
  ASSUME TypeOK, LocOK, ProcsOK, AppliedHasEvidence, NEW p \in Procs, Step(p)
  PROVE  AppliedHasEvidence'
<1> SUFFICES ASSUME NEW q \in Plans, receipt'[q] = "applied"
             PROVE  /\ executedBy'[q] \in Requests
                    /\ epochs'[executedBy'[q]].status = "committed"
                    /\ epochs'[executedBy'[q]].plan = q
  BY DEF AppliedHasEvidence
<1>1. /\ executedBy'[q] \in Requests
      /\ epochs[executedBy'[q]].status = "committed" /\ epochs[executedBy'[q]].plan = q
  BY ReceiptStep DEF ReceiptMoves, AppliedHasEvidence, ProcsOK, Carries, LocOK
<1>2. epochs'[executedBy'[q]] = epochs[executedBy'[q]]
  BY <1>1, EpochStep DEF EpochMoves
<1> QED
  BY <1>1, <1>2

LEMMA StepSchedule ==
  ASSUME TypeOK, LocOK, ProcsOK, AppliedHasEvidence, ScheduleFollowsReceipts,
         NEW p \in Procs, Step(p)
  PROVE  ScheduleFollowsReceipts'
<1>1. \A q \in Plans : ReceiptMoves(p, q)
  BY ReceiptStep
<1>2. CASE UNCHANGED pointer
  BY <1>1, <1>2 DEF ReceiptMoves, ScheduleFollowsReceipts, Terminal
<1>3. CASE WritePointer(p)
  <2>1. UNCHANGED receipts /\ loc[p].plan \in Plans
    BY <1>3 DEF WritePointer, LocOK
  <2> QED
    BY <1>3, <2>1 DEF WritePointer, Append, receipts, ScheduleFollowsReceipts, TypeOK
<1>4. CASE Mirror(p)
  <2>1. /\ UNCHANGED receipts /\ loc[p].plan \in Plans
        /\ loc[p].seen \in {"stale", "cancelled"} /\ receipt[loc[p].plan] = loc[p].seen
    BY <1>4 DEF Mirror, LocOK, ProcsOK, Carries
  <2> QED
    BY <1>4, <2>1 DEF Mirror, Append, receipts, ScheduleFollowsReceipts, TypeOK
<1>5. CASE Settle(p)
  <2>1. /\ UNCHANGED receipts /\ loc[p].plan \in Plans
        /\ receipt[loc[p].plan] = "applied" /\ executedBy[loc[p].plan] = loc[p].epoch
    BY <1>5 DEF Settle, LocOK, ProcsOK, Carries
  <2> QED
    BY <1>5, <2>1 DEF Settle, Append, receipts, ScheduleFollowsReceipts, TypeOK
<1> QED
  BY <1>2, <1>3, <1>4, <1>5, PointerStep DEF PointerMoves

\* A cancellation changes one receipt that is not terminal yet.
LEMMA StepCancel ==
  ASSUME IInv, Cancel
  PROVE  /\ LocOK' /\ HolderOK' /\ ProcsOK'
         /\ OneCommitPerPlan' /\ AppliedHasEvidence' /\ ScheduleFollowsReceipts'
<1> USE DEF IInv, Cancel, SetReceipt, locals, pointers, TypeOK
<1>1. \A q \in Plans : receipt'[q] = receipt[q]
        \/ (receipt[q] \in {"approved", "scheduled"} /\ receipt'[q] = "cancelled")
  OBVIOUS
<1>2. UNCHANGED <<executedBy, pointer, epochs, lock, pc, loc>>
  OBVIOUS
<1>3. LocOK' /\ HolderOK' /\ OneCommitPerPlan'
  BY <1>2 DEF LocOK, HolderOK, OneCommitPerPlan
<1>4. ASSUME NEW p \in Procs PROVE InFlight(p)' /\ Carries(p)'
  <2>1. InFlight(p) /\ Carries(p)
    BY DEF ProcsOK
  <2>2. InFlight(p)'
    BY <1>2, <2>1 DEF InFlight, EpochOf
  <2>3. Carries(p)'
    BY <1>1, <1>2, <2>1 DEF Carries, LocOK
  <2> QED
    BY <2>2, <2>3
<1>5. AppliedHasEvidence' /\ ScheduleFollowsReceipts'
  BY <1>1, <1>2 DEF AppliedHasEvidence, ScheduleFollowsReceipts
<1> QED
  BY <1>3, <1>4, <1>5 DEF ProcsOK

LEMMA StepIInv == IInv /\ [Next]_vars => IInv'
<1> SUFFICES ASSUME IInv, [Next]_vars PROVE IInv'
  OBVIOUS
<1>1. TypeOK'
  BY StepTyped DEF IInv
<1>2. CASE Cancel
  BY <1>1, <1>2, StepCancel DEF IInv
<1>3. ASSUME NEW p \in Procs, Step(p) PROVE IInv'
  <2> USE DEF IInv
  <2>1. LocOK' /\ HolderOK'
    BY <1>3, StepLock
  <2>2. ProcsOK'
    BY <1>3, OwnStep, OthersStep DEF ProcsOK
  <2>3. OneCommitPerPlan' /\ AppliedHasEvidence' /\ ScheduleFollowsReceipts'
    BY <1>3, StepOneCommit, StepEvidence, StepSchedule
  <2> QED
    BY <1>1, <2>1, <2>2, <2>3
<1>4. CASE UNCHANGED vars
  BY <1>4 DEF vars, IInv, TypeOK, LocOK, HolderOK, ProcsOK, InFlight, Carries, EpochOf,
     OneCommitPerPlan, AppliedHasEvidence, ScheduleFollowsReceipts
<1> QED
  BY <1>2, <1>3, <1>4 DEF Next

-------------------------------------------------------------------------------
\* The inductive invariant: types, the lock, and what each process carries.
THEOREM CodexInvariance == Spec => []IInv
BY InitIInv, StepIInv, PTL DEF Spec

\* A request that is upstream owns its epoch and its schedule record until it is
\* decided, whatever other processes recover, retry or schedule.
THEOREM RequestsOwnTheirEpochs == Spec => []InFlightOwnsEpoch
<1>1. IInv => InFlightOwnsEpoch
  BY DEF IInv, ProcsOK, InFlight, HolderOK, Holding, InFlightOwnsEpoch
<1> QED
  BY <1>1, CodexInvariance, PTL

\* A plan is executed at most once: no two accepted rewrites carry its removal.
THEOREM PlansExecuteOnce == Spec => []OneCommitPerPlan
<1>1. IInv => OneCommitPerPlan
  BY DEF IInv
<1> QED
  BY <1>1, CodexInvariance, PTL

\* The four stores agree: an applied receipt names a committed epoch of its plan,
\* and a closed schedule record says what the receipt says.
THEOREM StoresAgree == Spec => [](AppliedHasEvidence /\ ScheduleFollowsReceipts)
<1>1. IInv => AppliedHasEvidence /\ ScheduleFollowsReceipts
  BY DEF IInv
<1> QED
  BY <1>1, CodexInvariance, PTL

\* Receipts, schedule journal, epochs and control points are always of their types
\* (the records of schedule.ts and rebase-epoch.ts), for any processes and plans.
THEOREM CodexTypeCorrect == Spec => []TypeOK
<1>1. IInv => TypeOK
  BY DEF IInv
<1> QED
  BY <1>1, CodexInvariance, PTL

\* The schedule journal never runs ahead of the shared receipts it was written for
\* (recordScheduledCodexCleanPlan, settleSchedule).
THEOREM ScheduleIsBacked == Spec => []ScheduleFollowsReceipts
<1>1. IInv => ScheduleFollowsReceipts
  BY DEF IInv
<1> QED
  BY <1>1, CodexInvariance, PTL

-------------------------------------------------------------------------------
(***************************************************************************)
(* The proxy's execution of clean plans is one of CleanExecution.          *)
(***************************************************************************)
\* A request that is upstream carries a plan that was published.
Published == \A p \in Procs : pc[p] = "inflight" => receipt[loc[p].plan] # "approved"

\* What a step writes into the shared receipt of a plan.
Written(q, s) ==
  /\ <<receipt[q], s>> \in Transitions
  /\ receipt' = [receipt EXCEPT ![q] = s]
  /\ s = "applied" => CommittedFor(q) # {}
  /\ UNCHANGED epochs

\* Every write of a receipt is a step of the shared table.
LEMMA ReceiptWritten ==
  ASSUME IInv, Next, receipt' # receipt
  PROVE  \E q \in Plans, s \in Status : Written(q, s)
<1> USE DEF IInv, TypeOK, ReceiptStatus, SetReceipt, Written, Transitions
<1>1. CASE Cancel
  BY <1>1 DEF Cancel, Status
<1>2. ASSUME NEW p \in Procs, Schedule(p) PROVE \E q \in Plans, s \in Status : Written(q, s)
  <2>1. PICK q \in Plans : /\ receipt[q] \in {"approved", "scheduled"} /\ UNCHANGED epochs
                           /\ receipt' = [receipt EXCEPT ![q] = "scheduled"]
    BY <1>2 DEF Schedule
  <2>2. receipt[q] = "approved"
    BY <2>1
  <2> QED
    BY <2>1, <2>2 DEF Status
<1>3. ASSUME NEW p \in Procs, RecordApplied(p)
      PROVE  \E q \in Plans, s \in Status : Written(q, s)
  <2>1. /\ pc[p] \in {"record", "finalize"} /\ UNCHANGED epochs
        /\ receipt' = [receipt EXCEPT ![loc[p].plan] = "applied"]
        /\ receipt[loc[p].plan] \in {"scheduled", "applied"}
    BY <1>3 DEF RecordApplied, Apply, Acceptable
  <2>2. /\ loc[p].plan \in Plans /\ loc[p].epoch \in Requests
        /\ epochs[loc[p].epoch].status = "committed" /\ epochs[loc[p].epoch].plan = loc[p].plan
    BY <2>1 DEF LocOK, ProcsOK, Carries
  <2>3. loc[p].epoch \in CommittedFor(loc[p].plan)
    BY <2>2 DEF CommittedFor
  <2>4. receipt[loc[p].plan] = "scheduled"
    BY <2>1, <2>2
  <2> QED
    BY <2>1, <2>2, <2>3, <2>4 DEF Status
<1>4. ASSUME NEW p \in Procs, RecordStale(p)
      PROVE  \E q \in Plans, s \in Status : Written(q, s)
  BY <1>4 DEF RecordStale, LocOK, Status
<1>5. ASSUME NEW p \in Procs, Step(p) PROVE Schedule(p) \/ RecordApplied(p) \/ RecordStale(p)
  BY <1>5 DEF receipts, Step, User, Begin, Prepare, WritePointer, PointerRefused, FailPending,
     NoRecovery, ReadSchedule, NotReserved, EnterPrepare, LeavePrepare, Recover, Plan,
     FoundTerminal, FoundEpoch, FoundApplied, FoundNothing, Reserved, RecordRefused,
     Prepared, FoundStale, Mirror, Settle, NotSettled, Execute, StartEpoch, EpochTaken,
     CommitEpoch, CloseEpoch, SnapshotChanged, Bypass, WriteFails, Crash
<1> QED
  BY <1>1, <1>2, <1>3, <1>4, <1>5 DEF Next

\* Only a plan that was published goes upstream, and it stays published.
LEMMA StepPublished == IInv /\ Published /\ [Next]_vars => Published'
<1> SUFFICES ASSUME IInv, Published, [Next]_vars, NEW p \in Procs, pc'[p] = "inflight"
             PROVE  receipt'[loc'[p].plan] # "approved"
  BY DEF Published
<1> USE DEF IInv, TypeOK
<1>1. ASSUME NEW q \in Plans, receipt[q] # "approved" PROVE receipt'[q] # "approved"
  <2>1. CASE receipt' = receipt
    BY <1>1, <2>1
  <2>2. CASE receipt' # receipt
    <3>1. PICK r \in Plans, s \in Status : Written(r, s)
      BY <2>2, ReceiptWritten DEF vars
    <3> QED
      BY <1>1, <3>1 DEF Written, Transitions, ReceiptStatus
  <2> QED
    BY <2>1, <2>2
<1>2. CASE pc[p] = "inflight" /\ loc'[p] = loc[p]
  BY <1>1, <1>2 DEF Published, LocOK
<1>3. CASE StartEpoch(p)
  <2>1. receipt[loc[p].plan] = "scheduled" /\ loc'[p] = loc[p] /\ UNCHANGED receipt
    BY <1>3 DEF StartEpoch, Guarded, Goto, receipts
  <2> QED
    BY <2>1
<1>4. ~StartEpoch(p) => pc[p] = "inflight" /\ loc'[p] = loc[p]
  <2>1. CASE Cancel \/ UNCHANGED vars
    BY <2>1 DEF Cancel, locals, vars
  <2>2. ASSUME NEW o \in Procs, Step(o), o # p PROVE pc'[p] = pc[p] /\ loc'[p] = loc[p]
    BY <2>2, OthersStay
  <2>3. CASE Step(p) /\ ~StartEpoch(p)
    <3> USE DEF Goto, Finish
    <3>1. ~User(p) /\ ~Begin(p) /\ ~Prepare(p) /\ ~EnterPrepare(p)
      BY DEF User, Begin, Prepare, Schedule, WritePointer, PointerRefused, FailPending,
         NoRecovery, ReadSchedule, NotReserved, EnterPrepare, LeavePrepare
    <3>2. ~Recover(p) /\ ~Plan(p)
      BY DEF Recover, Plan, FoundTerminal, FoundEpoch, FoundApplied, FoundNothing,
         Reserved, RecordApplied, RecordRefused, Prepared, FoundStale, RecordStale
    <3>3. ~Mirror(p) /\ ~Settle(p) /\ ~NotSettled(p)
      BY DEF Mirror, Settle, NotSettled
    <3>4. ~(Execute(p) /\ ~StartEpoch(p)) /\ ~WriteFails(p) /\ ~Crash(p)
      BY DEF Execute, EpochTaken, SnapshotChanged, Bypass, CommitEpoch, CloseEpoch,
         WriteFails, Crash
    <3> QED
      BY <2>3, <3>1, <3>2, <3>3, <3>4 DEF Step
  <2> QED
    BY <2>1, <2>2, <2>3 DEF Next
<1> QED
  BY <1>2, <1>3, <1>4

\* What the provider accepted is the rewrite of a published plan, and it stays accepted.
LEMMA CommittedStep ==
  ASSUME IInv, Published, Next,
         {q \in Plans : CommittedFor(q)' # {}} # {q \in Plans : CommittedFor(q) # {}}
  PROVE  \E q \in Plans : CodexExecution!CarryOut(q)
<1> USE DEF IInv, TypeOK
<1>1. ~Cancel
  BY DEF Cancel, CommittedFor
<1>2. PICK p \in Procs : Step(p)
  BY <1>1 DEF Next
<1>3. \A e \in Requests : EpochMoves(p, e)
  BY <1>2, EpochStep
<1>4. \A q \in Plans : CommittedFor(q) \subseteq CommittedFor(q)'
  BY <1>3 DEF EpochMoves, CommittedFor
<1>5. PICK q \in Plans : CommittedFor(q)' # CommittedFor(q)
  OBVIOUS
<1>6. PICK e \in CommittedFor(q)' : e \notin CommittedFor(q)
  BY <1>4, <1>5
<1>7. /\ e \in Requests /\ pc[p] = "inflight" /\ e = loc[p].epoch
      /\ epochs[e].status = "pending" /\ epochs[e].plan = q
      /\ epochs'[e].status = "committed"
  BY <1>3, <1>6 DEF EpochMoves, CommittedFor
<1>8. q = loc[p].plan /\ receipt[q] \notin {"analyzed", "approved"}
  <2>1. epochs[e] = EpochOf(p, "pending") /\ receipt[loc[p].plan] # "approved"
    BY <1>7 DEF ProcsOK, InFlight, Published
  <2>2. q = loc[p].plan
    BY <1>7, <2>1 DEF EpochOf
  <2>3. receipt[q] # "analyzed"
    BY DEF ReceiptStatus
  <2> QED
    BY <2>1, <2>2, <2>3
<1>9. \A r \in Plans : r # q => CommittedFor(r)' = CommittedFor(r)
  <2> SUFFICES ASSUME NEW r \in Plans, r # q, NEW f \in CommittedFor(r)', f \notin CommittedFor(r)
               PROVE  FALSE
    BY <1>4
  <2>1. f \in Requests /\ f = loc[p].epoch /\ epochs[f].plan = r
    BY <1>3 DEF EpochMoves, CommittedFor
  <2> QED
    BY <1>7, <2>1
<1>10. {r \in Plans : CommittedFor(r)' # {}} = {r \in Plans : CommittedFor(r) # {}} \cup {q}
  BY <1>6, <1>9
<1>11. UNCHANGED receipt
  <2>1. epochs' # epochs
    BY <1>7
  <2>2. ASSUME receipt' # receipt PROVE FALSE
    <3>1. PICK r \in Plans, s \in Status : Written(r, s)
      BY <2>2, ReceiptWritten
    <3> QED
      BY <2>1, <3>1 DEF Written
  <2> QED
    BY <2>2
<1> QED
  BY <1>8, <1>10, <1>11 DEF CodexExecution!CarryOut

\* A step of the proxy or of a user is one of the execution, or changes nothing of it.
LEMMA StepExecutes ==
  IInv /\ Published /\ [Next]_vars => [CodexExecution!Next]_(CodexExecution!vars)
<1> SUFFICES ASSUME IInv, Published, Next,
                    receipt' # receipt \/ {q \in Plans : CommittedFor(q)' # {}}
                                            # {q \in Plans : CommittedFor(q) # {}}
             PROVE  CodexExecution!Next
  BY DEF CodexExecution!vars, vars, CommittedFor
<1>1. CASE {q \in Plans : CommittedFor(q)' # {}} # {q \in Plans : CommittedFor(q) # {}}
  BY <1>1, CommittedStep DEF CodexExecution!Next
<1>2. CASE receipt' # receipt
  <2>1. PICK q \in Plans, s \in Status : Written(q, s)
    BY <1>2, ReceiptWritten
  <2>2. CodexExecution!Advance(q) \/ CodexExecution!Report(q)
    BY <2>1 DEF Written, CommittedFor, CodexExecution!Advance, CodexExecution!Report,
       CodexExecution!Status, CodexExecution!Transitions, Status, Transitions
  <2> QED
    BY <2>2 DEF CodexExecution!Next
<1> QED
  BY <1>1, <1>2

\* The proxy executes plans as CleanExecution promises, for any number of processes,
\* plans, requests and faults.
THEOREM CodexRefinement == Spec => CodexExecutes
<1>1. Init => Published /\ CodexExecution!Init
  <2>1. Init => Published
    BY DEF Init, Published
  <2>2. Init => {q \in Plans : CommittedFor(q) # {}} = {}
    BY DEF Init, CommittedFor
  <2>3. Init => receipt \in [Plans -> {"analyzed", "approved"}]
    BY DEF Init
  <2> QED
    BY <2>1, <2>2, <2>3 DEF CodexExecution!Init
<1> QED
  BY <1>1, CodexInvariance, StepPublished, StepExecutes, PTL
  DEF Spec, CodexExecutes, CodexExecution!Spec
=============================================================================
