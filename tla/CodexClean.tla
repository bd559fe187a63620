------------------------------- MODULE CodexClean -------------------------------
(***************************************************************************)
(* How the Codex proxy executes clean plans of one session.  Four durable  *)
(* stores must agree: the shared receipts (features/cleaner), the schedule *)
(* journal that points the host at a plan, the journal of rebase epochs    *)
(* that says which rewritten request the provider accepted, and the        *)
(* session lock.                                                           *)
(*                                                                         *)
(* A process is a proxy that serves one request at a time, or a CLI or MCP *)
(* server that approves a plan.  Receipts change without the session lock, *)
(* so a user may cancel, and another request may declare a plan stale,     *)
(* while a rewritten request is upstream.                                  *)
(*                                                                         *)
(* A receipt transition is one step here: that is what CleanStore's        *)
(* refinement of CleanLifecycle provides.  The lock is a mutex that dies   *)
(* with its holder: that is SessionLock without its race.  A request is    *)
(* identified by its content, and so is the epoch it may create.           *)
(***************************************************************************)
EXTENDS Naturals, CleanContracts

CONSTANTS Procs,             \* processes that share the state directory
          Plans,             \* clean plans of the session
          Requests,          \* request contents; also the ids of their epochs
          None,
          HasSnapshotItems,  \* the plans carry snapshotItems and can be relocated
          MaxFaults          \* bound on crashes and failed writes

ASSUME CodexCleanAssumption ==
  /\ None \notin Procs \cup Plans \cup Requests
  /\ HasSnapshotItems \in BOOLEAN
  /\ MaxFaults \in Nat

VARIABLES receipt,     \* status of the shared receipt of each plan
          executedBy,  \* epoch an applied receipt names as its evidence
          pointer,     \* latest schedule record of each plan
          last,        \* plan of the last line of the schedule journal
          epochs,      \* latest record of each rebase epoch
          lock,        \* holder of the session lock
          pc,          \* control point of each process
          loc,         \* what a process knows: epoch, plan, status read, revision
          fresh,       \* the process has not recovered the session's epochs yet
          faults       \* crashes and failed writes so far

receipts == <<receipt, executedBy>>
pointers == <<pointer, last>>
locals   == <<pc, loc, fresh>>
vars     == <<receipt, executedBy, pointer, last, epochs, lock, pc, loc, fresh, faults>>

-------------------------------------------------------------------------------
ReceiptStatus == Status \ {"analyzed", "failed"}
PointerStatus == {"none", "scheduled", "committed", "stale", "cancelled"}
EpochStatus   == {"none", "pending", "committed", "rolled_back", "failed"}

\* The history a request builds on: the revision the plan was made for, a later
\* one that still holds every selected item, or one that has lost an item.
Views     == {"base", "later", "lost"}
Revisions == {"base", "later"}

Pointer == [status : PointerStatus, epoch : Requests \cup {None}]
Epoch   == [status : EpochStatus, plan : Plans \cup {None}, rev : Revisions]
Local   == [epoch : Requests \cup {None}, plan : Plans \cup {None},
            seen : PointerStatus, rev : Revisions]

NoLocal == [epoch |-> None, plan |-> None, seen |-> "none", rev |-> "base"]

\* Control points at which a process holds the session lock, and the others.
Holding == {"lookup", "record", "validate", "inflight"}
Labels  == Holding \cup {"idle", "recover", "read", "prepare", "ready", "finalize",
                         "settle", "stale", "mirror", "point"}

TypeOK ==
  /\ receipt    \in [Plans -> ReceiptStatus]
  /\ executedBy \in [Plans -> Requests \cup {None}]
  /\ pointer    \in [Plans -> Pointer]
  /\ last       \in Plans \cup {None}
  /\ epochs     \in [Requests -> Epoch]
  /\ lock       \in Procs \cup {None}
  /\ pc         \in [Procs -> Labels]
  /\ loc        \in [Procs -> Local]
  /\ fresh      \in [Procs -> BOOLEAN]
  /\ faults     \in 0..MaxFaults

Init ==
  /\ receipt    = [q \in Plans |-> "approved"]
  /\ executedBy = [q \in Plans |-> None]
  /\ pointer    = [q \in Plans |-> [status |-> "none", epoch |-> None]]
  /\ last       = None
  /\ epochs     = [e \in Requests |-> [status |-> "none", plan |-> None, rev |-> "base"]]
  /\ lock       = None
  /\ pc         = [p \in Procs |-> "idle"]
  /\ loc        = [p \in Procs |-> NoLocal]
  /\ fresh      = [p \in Procs |-> TRUE]
  /\ faults     = 0

-------------------------------------------------------------------------------
\* Moving one process; the lock is given back where the code's finally does it.
Goto(p, label, l) ==
  /\ pc'  = [pc  EXCEPT ![p] = label]
  /\ loc' = [loc EXCEPT ![p] = l]
  /\ UNCHANGED fresh

Finish(p) == Goto(p, "idle", NoLocal)

Lock(p) == lock = None /\ lock' = p
Release(p) == lock' = IF lock = p THEN None ELSE lock

Pending(e)      == epochs[e].status = "pending"
CommittedFor(q) == {e \in Requests : epochs[e].status = "committed" /\ epochs[e].plan = q}

\* readCodexCleanerSchedule: the one scheduled record, else the latest one.
Current(q) ==
  /\ \A o \in Plans : pointer[o].status = "scheduled" => o = q
  /\ pointer[q].status = "scheduled" \/ last = q

SetReceipt(q, s) == receipt' = [receipt EXCEPT ![q] = s]

Append(q, record) ==
  /\ pointer' = [pointer EXCEPT ![q] = record]
  /\ last' = q

-------------------------------------------------------------------------------
\* Users.  approve: the shared receipt is scheduled first ...
Schedule(p) ==
  /\ pc[p] = "idle"
  /\ \E q \in Plans :
       /\ receipt[q] \in {"approved", "scheduled"}
       /\ SetReceipt(q, "scheduled")
       /\ Goto(p, "point", [NoLocal EXCEPT !.plan = q])
  /\ UNCHANGED <<executedBy, pointers, epochs, lock, faults>>

\* Mutant: a second plan of the session is scheduled beside the first.
WritePointerBesideAnother(p) ==
  /\ pc[p] = "point" /\ lock = None
  /\ pointer[loc[p].plan].status = "none"
  /\ Append(loc[p].plan, [status |-> "scheduled", epoch |-> None])
  /\ Finish(p)
  /\ UNCHANGED <<receipts, epochs, lock, faults>>

\* ... then the host-local pointer is written (scheduleCodexCleanerPlan).
WritePointer(p) ==
  /\ pc[p] = "point" /\ lock = None
  /\ pointer[loc[p].plan].status = "none"
  /\ \A o \in Plans : pointer[o].status # "scheduled"
  /\ Append(loc[p].plan, [status |-> "scheduled", epoch |-> None])
  /\ Finish(p)
  /\ UNCHANGED <<receipts, epochs, lock, faults>>

\* The pointer exists, another plan is scheduled, or the lock is busy.
PointerRefused(p) ==
  /\ pc[p] = "point"
  /\ \/ lock # None
     \/ pointer[loc[p].plan].status # "none"
     \/ \E o \in Plans : pointer[o].status = "scheduled"
  /\ Finish(p)
  /\ UNCHANGED <<receipts, pointers, epochs, lock, faults>>

\* cancelCleanPlan knows neither the pointer nor the lock.
Cancel ==
  /\ \E q \in Plans :
       receipt[q] \in {"approved", "scheduled"} /\ SetReceipt(q, "cancelled")
  /\ UNCHANGED <<executedBy, pointers, epochs, lock, locals, faults>>

-------------------------------------------------------------------------------
\* A request arrives.  The first one of a process fails what a dead one left.
Begin(p) ==
  /\ pc[p] = "idle"
  /\ \E r \in Requests : Goto(p, "recover", [NoLocal EXCEPT !.epoch = r])
  /\ UNCHANGED <<receipts, pointers, epochs, lock, faults>>

\* Mutant: pending epochs are failed although the lock is busy.
FailPendingUnlocked(p) ==
  /\ pc[p] = "recover" /\ fresh[p]
  /\ epochs' = [e \in Requests |->
                  IF Pending(e) THEN [epochs[e] EXCEPT !.status = "failed"] ELSE epochs[e]]
  /\ pc' = [pc EXCEPT ![p] = "read"]
  /\ fresh' = [fresh EXCEPT ![p] = FALSE]
  /\ UNCHANGED <<receipts, pointers, lock, loc, faults>>

FailPending(p) ==
  /\ pc[p] = "recover" /\ fresh[p] /\ lock = None
  /\ epochs' = [e \in Requests |->
                  IF Pending(e) THEN [epochs[e] EXCEPT !.status = "failed"] ELSE epochs[e]]
  /\ pc' = [pc EXCEPT ![p] = "read"]
  /\ fresh' = [fresh EXCEPT ![p] = FALSE]
  /\ UNCHANGED <<receipts, pointers, lock, loc, faults>>

\* Recovered before, or deferred to the next request because the lock is busy.
NoRecovery(p) ==
  /\ pc[p] = "recover" /\ (~fresh[p] \/ lock # None)
  /\ Goto(p, "read", loc[p])
  /\ UNCHANGED <<receipts, pointers, epochs, lock, faults>>

\* The schedule is read without the lock; it reserves the request for the cleaner.
ReadSchedule(p) ==
  /\ pc[p] = "read"
  /\ \E q \in Plans :
       /\ Current(q) /\ pointer[q].status \in {"scheduled", "committed"}
       /\ Goto(p, "prepare", [loc[p] EXCEPT !.plan = q, !.seen = pointer[q].status])
  /\ UNCHANGED <<receipts, pointers, epochs, lock, faults>>

NotReserved(p) ==
  /\ pc[p] = "read"
  /\ \A q \in Plans : Current(q) => pointer[q].status \notin {"scheduled", "committed"}
  /\ Finish(p)
  /\ UNCHANGED <<receipts, pointers, epochs, lock, faults>>

\* prepareCodexCleanerRebase reads it again under the lock: a scheduled record
\* must still be the one read before.
Unchanged(p, q) ==
  /\ Current(q) /\ pointer[q].status \in {"scheduled", "committed"}
  /\ (loc[p].seen = "scheduled" /\ pointer[q].status = "scheduled") => q = loc[p].plan

EnterPrepare(p) ==
  /\ pc[p] = "prepare" /\ Lock(p)
  /\ \E q \in Plans :
       /\ Unchanged(p, q)
       /\ Goto(p, "lookup", [loc[p] EXCEPT !.plan = q, !.seen = pointer[q].status])
  /\ UNCHANGED <<receipts, pointers, epochs, faults>>

LeavePrepare(p) ==
  /\ pc[p] = "prepare"
  /\ lock # None \/ \A q \in Plans : ~Unchanged(p, q)
  /\ Finish(p)
  /\ UNCHANGED <<receipts, pointers, epochs, lock, faults>>

-------------------------------------------------------------------------------
\* Mutant: an epoch of the plan is evidence whatever became of it.
EvidenceOfAnyStatus(p) ==
  {e \in Requests : epochs[e].plan = loc[p].plan
     /\ (loc[p].seen = "committed" => e = pointer[loc[p].plan].epoch)}

\* Mutant: only a schedule that is already committed is recovered.
EvidenceOfCommittedSchedule(p) ==
  {e \in CommittedFor(loc[p].plan) :
     loc[p].seen = "committed" /\ e = pointer[loc[p].plan].epoch}

\* recoverCodexCleanerCommittedEpoch.  The epoch a committed record names, or any
\* committed epoch of a scheduled plan.
Evidence(p) == {e \in CommittedFor(loc[p].plan) :
                  loc[p].seen = "committed" => e = pointer[loc[p].plan].epoch}

\* buildCodexCleanerAppliedReceipt, on the revision of the stored plan.
EpochFits(e) == epochs[e].rev = "base"

\* Mutant: the request learns of the terminal receipt and tells nobody.
FoundTerminalOnly(p) ==
  /\ pc[p] \in {"lookup", "validate"} /\ receipt[loc[p].plan] \in {"stale", "cancelled"}
  /\ Finish(p) /\ Release(p)
  /\ UNCHANGED <<receipts, pointers, epochs, faults>>

\* A stale or cancelled receipt is copied to the schedule after the lock.
FoundTerminal(p) ==
  /\ pc[p] \in {"lookup", "validate"} /\ receipt[loc[p].plan] \in {"stale", "cancelled"}
  /\ Goto(p, "mirror", [loc[p] EXCEPT !.seen = receipt[loc[p].plan]])
  /\ Release(p)
  /\ UNCHANGED <<receipts, pointers, epochs, faults>>

FoundEpoch(p) ==
  /\ pc[p] = "lookup" /\ receipt[loc[p].plan] = "scheduled"
  /\ \E e \in Evidence(p) :
       EpochFits(e) /\ Goto(p, "record", [loc[p] EXCEPT !.epoch = e])
  /\ UNCHANGED <<receipts, pointers, epochs, lock, faults>>

FoundApplied(p) ==
  /\ pc[p] = "lookup" /\ receipt[loc[p].plan] = "applied"
  /\ \E e \in Evidence(p) :
       /\ EpochFits(e) /\ executedBy[loc[p].plan] = e
       /\ Goto(p, "settle", [loc[p] EXCEPT !.epoch = e])
  /\ Release(p)
  /\ UNCHANGED <<receipts, pointers, epochs, faults>>

FoundNothing(p) ==
  /\ pc[p] = "lookup" /\ receipt[loc[p].plan] \in {"scheduled", "applied"}
  /\ Evidence(p) = {} /\ loc[p].seen = "scheduled"
  /\ Goto(p, "validate", loc[p])
  /\ UNCHANGED <<receipts, pointers, epochs, lock, faults>>

\* The plan stays reserved: not scheduled yet, or the evidence does not fit.
Reserved(p) ==
  /\ \/ /\ pc[p] = "lookup"
        /\ \/ receipt[loc[p].plan] = "approved"
           \/ /\ receipt[loc[p].plan] \in {"scheduled", "applied"}
              /\ Evidence(p) = {} /\ loc[p].seen = "committed"
           \/ /\ receipt[loc[p].plan] = "scheduled"
              /\ \E e \in Evidence(p) : ~EpochFits(e)
           \/ /\ receipt[loc[p].plan] = "applied"
              /\ \E e \in Evidence(p) : ~EpochFits(e) \/ executedBy[loc[p].plan] # e
     \/ pc[p] = "validate" /\ receipt[loc[p].plan] = "applied"
  /\ Finish(p) /\ Release(p)
  /\ UNCHANGED <<receipts, pointers, epochs, faults>>

\* recordCleanReceipt accepts an applied receipt once, and the same one again.
Acceptable(q, e) ==
  receipt[q] = "scheduled" \/ (receipt[q] = "applied" /\ executedBy[q] = e)

Apply(q, e) ==
  /\ SetReceipt(q, "applied")
  /\ executedBy' = [executedBy EXCEPT ![q] = e]

\* After a crash (under the lock) and after a commit (without it).
RecordApplied(p) ==
  /\ pc[p] \in {"record", "finalize"} /\ Acceptable(loc[p].plan, loc[p].epoch)
  /\ Apply(loc[p].plan, loc[p].epoch)
  /\ Goto(p, "settle", loc[p]) /\ Release(p)
  /\ UNCHANGED <<pointers, epochs, faults>>

RecordRefused(p) ==
  /\ pc[p] \in {"record", "finalize"} /\ ~Acceptable(loc[p].plan, loc[p].epoch)
  /\ Finish(p) /\ Release(p)
  /\ UNCHANGED <<receipts, pointers, epochs, faults>>

-------------------------------------------------------------------------------
\* prepareScheduledClean and relocateMutationPlanForFrozenSelection.
Valid(view) == view = "base" \/ (view = "later" /\ HasSnapshotItems)

Prepared(p) ==
  /\ pc[p] = "validate" /\ receipt[loc[p].plan] = "scheduled"
  /\ \E view \in Views : Valid(view) /\ Goto(p, "ready", [loc[p] EXCEPT !.rev = view])
  /\ Release(p)
  /\ UNCHANGED <<receipts, pointers, epochs, faults>>

FoundStale(p) ==
  /\ pc[p] = "validate" /\ receipt[loc[p].plan] = "scheduled"
  /\ \E view \in Views : ~Valid(view)
  /\ Goto(p, "stale", loc[p]) /\ Release(p)
  /\ UNCHANGED <<receipts, pointers, epochs, faults>>

\* persistStale, after the lock was given back.
RecordStale(p) ==
  /\ pc[p] = "stale"
  /\ IF receipt[loc[p].plan] = "scheduled"
     THEN SetReceipt(loc[p].plan, "stale")
          /\ Goto(p, "mirror", [loc[p] EXCEPT !.seen = "stale"])
     ELSE Finish(p) /\ UNCHANGED receipt
  /\ UNCHANGED <<executedBy, pointers, epochs, lock, faults>>

\* appendCodexCleanerTerminal and appendCodexCleanerCommitted take the lock again.
Mirror(p) ==
  /\ pc[p] = "mirror" /\ lock = None /\ pointer[loc[p].plan].status = "scheduled"
  /\ Append(loc[p].plan, [status |-> loc[p].seen, epoch |-> None])
  /\ Finish(p)
  /\ UNCHANGED <<receipts, epochs, lock, faults>>

Settle(p) ==
  /\ pc[p] = "settle" /\ lock = None /\ pointer[loc[p].plan].status = "scheduled"
  /\ Append(loc[p].plan, [status |-> "committed", epoch |-> loc[p].epoch])
  /\ Finish(p)
  /\ UNCHANGED <<receipts, epochs, lock, faults>>

NotSettled(p) ==
  /\ pc[p] \in {"mirror", "settle"}
  /\ lock # None \/ pointer[loc[p].plan].status # "scheduled"
  /\ Finish(p)
  /\ UNCHANGED <<receipts, pointers, epochs, lock, faults>>

-------------------------------------------------------------------------------
\* Mutant: the guard does not look for an epoch of the plan that was committed.
GuardedBySchedule(p) ==
  /\ pc[p] = "ready" /\ lock = None
  /\ \A e \in Requests : Pending(e) => e = loc[p].epoch
  /\ pointer[loc[p].plan].status = "scheduled"
  /\ receipt[loc[p].plan] = "scheduled"

\* executeCodexRebaseWithFallback.  Lock, no other epoch pending, and the guard of
\* revalidateCodexCleanerPreparedRebase: same schedule, no epoch of the plan
\* committed, the receipt still scheduled.
Guarded(p) ==
  /\ pc[p] = "ready" /\ lock = None
  /\ \A e \in Requests : Pending(e) => e = loc[p].epoch
  /\ pointer[loc[p].plan].status = "scheduled"
  /\ CommittedFor(loc[p].plan) = {}
  /\ receipt[loc[p].plan] = "scheduled"

EpochOf(p, s) == [status |-> s, plan |-> loc[p].plan, rev |-> loc[p].rev]

\* appendPendingCodexRebaseEpoch: new, or the pending one of the same content.
StartEpoch(p) ==
  /\ Guarded(p)
  /\ epochs[loc[p].epoch].status = "none" \/ epochs[loc[p].epoch] = EpochOf(p, "pending")
  /\ epochs' = [epochs EXCEPT ![loc[p].epoch] = EpochOf(p, "pending")]
  /\ Goto(p, "inflight", loc[p]) /\ lock' = p
  /\ UNCHANGED <<receipts, pointers, faults>>

\* The epoch of this content is terminal, or pending for something else: the
\* original request is sent, and a pending one is closed.
EpochTaken(p) ==
  /\ Guarded(p)
  /\ epochs[loc[p].epoch].status # "none" /\ epochs[loc[p].epoch] # EpochOf(p, "pending")
  /\ \E s \in {"rolled_back", "failed"} :
       epochs' = IF Pending(loc[p].epoch)
                 THEN [epochs EXCEPT ![loc[p].epoch].status = s] ELSE epochs
  /\ Finish(p)
  /\ UNCHANGED <<receipts, pointers, lock, faults>>

\* The history changed since it was prepared: finalizeCodexCleanerHandoffFailure.
SnapshotChanged(p) ==
  /\ Guarded(p)
  /\ Goto(p, "stale", loc[p])
  /\ UNCHANGED <<receipts, pointers, epochs, lock, faults>>

\* Cooldown, capability, a busy lock, or a guard that says no for good.
Bypass(p) ==
  /\ pc[p] = "ready"
  /\ Finish(p)
  /\ UNCHANGED <<receipts, pointers, epochs, lock, faults>>

\* The provider accepted the rewritten request and its response is journaled.
CommitEpoch(p) ==
  /\ pc[p] = "inflight"
  /\ IF Pending(loc[p].epoch)
     THEN epochs' = [epochs EXCEPT ![loc[p].epoch].status = "committed"]
          /\ Goto(p, "finalize", loc[p])
     ELSE Finish(p) /\ UNCHANGED epochs
  /\ Release(p)
  /\ UNCHANGED <<receipts, pointers, faults>>

\* It did not; the original request was sent instead, with or without success.
CloseEpoch(p) ==
  /\ pc[p] = "inflight"
  /\ \E s \in {"rolled_back", "failed"} :
       epochs' = IF Pending(loc[p].epoch)
                 THEN [epochs EXCEPT ![loc[p].epoch].status = s] ELSE epochs
  /\ Finish(p) /\ Release(p)
  /\ UNCHANGED <<receipts, pointers, faults>>

-------------------------------------------------------------------------------
Fault == faults < MaxFaults /\ faults' = faults + 1

\* A write fails, the request goes on without it.  An epoch stays pending when
\* closing it fails (transitionEpochAfterFallback swallows the error).
WriteFails(p) ==
  /\ Fault
  /\ \/ pc[p] = "recover" /\ Goto(p, "read", loc[p])
     \/ pc[p] \in {"record", "finalize", "stale", "mirror", "settle", "point", "inflight"}
        /\ Finish(p)
  /\ Release(p)
  /\ UNCHANGED <<receipts, pointers, epochs>>

\* The process dies and is started again; its lock can be taken over at once.
Crash(p) ==
  /\ Fault
  /\ pc'    = [pc    EXCEPT ![p] = "idle"]
  /\ loc'   = [loc   EXCEPT ![p] = NoLocal]
  /\ fresh' = [fresh EXCEPT ![p] = TRUE]
  /\ Release(p)
  /\ UNCHANGED <<receipts, pointers, epochs>>

-------------------------------------------------------------------------------
User(p)    == Schedule(p) \/ WritePointer(p) \/ PointerRefused(p)
Prepare(p) == \/ FailPending(p) \/ NoRecovery(p) \/ ReadSchedule(p) \/ NotReserved(p)
              \/ LeavePrepare(p)
Recover(p) == \/ FoundTerminal(p) \/ FoundEpoch(p) \/ FoundApplied(p) \/ FoundNothing(p)
              \/ Reserved(p) \/ RecordApplied(p) \/ RecordRefused(p)
Plan(p)    == Prepared(p) \/ FoundStale(p) \/ RecordStale(p)
Execute(p) == \/ StartEpoch(p) \/ EpochTaken(p) \/ SnapshotChanged(p) \/ Bypass(p)
              \/ CommitEpoch(p) \/ CloseEpoch(p)

Step(p) ==
  \/ User(p) \/ Begin(p) \/ Prepare(p) \/ EnterPrepare(p) \/ Recover(p)
  \/ Plan(p) \/ Mirror(p) \/ Settle(p) \/ NotSettled(p) \/ Execute(p)
  \/ WriteFails(p) \/ Crash(p)

Next == Cancel \/ \E p \in Procs : Step(p)

Spec == Init /\ [][Next]_vars

\* The client keeps sending requests, a request that is being served goes on, and
\* the lock is not busy every time somebody asks for it.
Fairness ==
  \A p \in Procs :
    /\ SF_vars(Begin(p)) /\ SF_vars(EnterPrepare(p))
    /\ SF_vars(Mirror(p)) /\ SF_vars(Settle(p))
    /\ WF_vars(WritePointer(p) \/ PointerRefused(p))
    /\ WF_vars(Prepare(p)) /\ WF_vars(Recover(p)) /\ WF_vars(Plan(p))
    /\ WF_vars(NotSettled(p)) /\ WF_vars(Execute(p))

FairSpec == Spec /\ Fairness

-------------------------------------------------------------------------------
\* A request that is upstream owns the session: its epoch is pending for exactly its
\* plan and revision until it is decided, whatever recovers or retries meanwhile.
InFlightOwnsEpoch ==
  \A p \in Procs : pc[p] = "inflight" =>
    /\ lock = p
    /\ epochs[loc[p].epoch] = EpochOf(p, "pending")
    /\ pointer[loc[p].plan].status = "scheduled"

\* A plan is executed once: at most one accepted rewrite carries its removal.
OneCommitPerPlan ==
  \A e, f \in Requests :
    /\ epochs[e].status = "committed" /\ epochs[f].status = "committed"
    /\ epochs[e].plan = epochs[f].plan
    => e = f

\* An applied receipt names an epoch of its own plan that really was committed.
AppliedHasEvidence ==
  \A q \in Plans : receipt[q] = "applied" =>
    /\ executedBy[q] \in Requests
    /\ epochs[executedBy[q]].status = "committed" /\ epochs[executedBy[q]].plan = q

\* The host schedule never runs ahead of the receipts: a closed record says what the
\* receipt says, with the same epoch, and one plan at a time is scheduled.
ScheduleFollowsReceipts ==
  /\ \A q \in Plans :
       /\ pointer[q].status \in {"stale", "cancelled"} => receipt[q] = pointer[q].status
       /\ pointer[q].status = "committed" =>
            receipt[q] = "applied" /\ executedBy[q] = pointer[q].epoch
  /\ \A q, o \in Plans :
       pointer[q].status = "scheduled" /\ pointer[o].status = "scheduled" => q = o

\* To everybody who looks at the receipts and at what the provider accepted, the requests
\* of the proxy are an execution of plans, whatever crashes between the four stores.
CodexExecution == INSTANCE CleanExecution WITH
  Durable <- TRUE, status <- receipt, carried <- {q \in Plans : CommittedFor(q) # {}}

CodexExecutes == CodexExecution!Spec

\* A plan the provider has executed does not stay scheduled, whatever crashed.
ExecutionIsRecorded ==
  \A q \in Plans :
    (CommittedFor(q) # {} /\ receipt[q] = "scheduled") ~> receipt[q] # "scheduled"

\* A schedule record left behind by a terminal receipt is closed by later requests,
\* so that the session can be cleaned again.
SchedulesAreClosed ==
  \A q \in Plans :
    (pointer[q].status = "scheduled" /\ receipt[q] \in Terminal)
      ~> pointer[q].status # "scheduled"
=============================================================================
