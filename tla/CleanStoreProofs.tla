--------------------------- MODULE CleanStoreProofs ---------------------------
(***************************************************************************)
(* Proofs about CleanStore, for any number of processes, tasks, requests   *)
(* and clock values, and for both ways to schedule (TwoPhase).             *)
(*                                                                         *)
(* The inductive invariant says who may be inside the lock, what the       *)
(* transaction file means at each control point, and which of the facts a  *)
(* process read or was given without the lock cannot go stale.             *)
(***************************************************************************)
EXTENDS CleanStore, TLAPS

-------------------------------------------------------------------------------
\* At most one process is inside the lock, and then the lock file is its own.
Mutex ==
  /\ \A p, q \in Procs : pc[p] \in Locked /\ pc[q] \in Locked => p = q
  /\ \A p \in Procs : pc[p] \in Locked => lock = "held"

Chosen == receipt.status \notin {"none", "analyzed"}

\* Files that exist say something, the plan record comes first, and a transaction
\* brings tasks to the receipt only once the selection is chosen; an approval,
\* which chooses it, is the exception.
FilesOK ==
  /\ receipt.status = "none" => receipt = NoReceipt
  /\ plan = "none" => receipt = NoReceipt /\ intent = NoIntent
  /\ intent # NoIntent => intent.receipt.status \in Status
  /\ receipt.sel # <<>> => Chosen
  /\ intent.receipt.status # "approved" /\ intent.receipt.sel # <<>> => Chosen

\* Where a process inside the lock is in its transaction.
InTransaction(p) ==
  /\ pc[p] \in {"complete", "savePlan", "unlink"} =>
       /\ intent # NoIntent
       /\ op[p] # "recover" => intent.receipt = job[p]
  /\ pc[p] \in {"savePlan", "unlink"} =>
       receipt = intent.receipt /\ plan \in {intent.from, receipt.status}
  /\ pc[p] = "unlink" => plan = receipt.status
  /\ pc[p] = "unlockOk" /\ op[p] # "recover" =>
       receipt = job[p] /\ plan = receipt.status

\* What a process holds outside the lock and what of it stays true: a terminal plan
\* status it has read, a selection it has learned, a reply it has been given.
Knows(p) ==
  /\ seen[p] \in Terminal => plan = seen[p]
  /\ op[p] = "approve" => job[p].status = "approved"
  /\ op[p] # "approve" /\ job[p].sel # <<>> => Chosen
  /\ Durable(reply[p])

ProcsOK == \A p \in Procs : InTransaction(p) /\ Knows(p)

IInv == TypeOK /\ Mutex /\ FilesOK /\ ReceiptAheadIsLogged /\ ProcsOK

-------------------------------------------------------------------------------
(***************************************************************************)
(* Type correctness.                                                       *)
(***************************************************************************)
StoreTypes ==
  /\ plan \in MaybeStatus /\ receipt \in Receipt /\ intent \in Intent
  /\ lock \in {"free", "held", "abandoned"}

LocalTypes ==
  /\ pc    \in [Procs -> Labels]
  /\ op    \in [Procs -> Ops]
  /\ job   \in [Procs -> Receipt]
  /\ seen  \in [Procs -> MaybeStatus]
  /\ reply \in [Procs -> Receipt]

LEMMA Constants ==
  /\ NoReceipt \in Receipt /\ AnalyzedReceipt \in Receipt
  /\ NoIntent \in Intent
  /\ "none" \in MaybeStatus /\ "none" \in Ops /\ "idle" \in Labels
  /\ Status \subseteq MaybeStatus /\ Terminal \subseteq Status /\ "none" \notin Status
  /\ Locked \subseteq Labels
BY DEF NoReceipt, AnalyzedReceipt, NoIntent, Receipt, Intent, MaybeStatus, Status,
       Terminal, Ops, Labels, Locked

\* The receipts a call asks for are receipts.
LEMMA NewReceipt ==
  ASSUME NEW s \in Status, NEW t \in Times, NEW l \in Requests \cup {<<>>}
  PROVE  [status |-> s, sel |-> l, at |-> t] \in Receipt
<1>1. l \in Seq(Tasks)
  <2>1. CASE l = <<>>
    BY <2>1
  <2>2. CASE l \in Requests
    BY <2>2, CleanStoreAssumption
  <2> QED
    BY <2>1, <2>2
<1>2. s \in MaybeStatus /\ t \in Nat
  BY CleanStoreAssumption DEF MaybeStatus
<1> QED
  BY <1>1, <1>2 DEF Receipt

LEMMA GotoTypes ==
  ASSUME LocalTypes, NEW p \in Procs, NEW l \in Labels, Goto(p, l)
  PROVE  LocalTypes'
BY DEF LocalTypes, Goto

LEMMA StartTypes ==
  ASSUME LocalTypes, NEW p \in Procs, NEW o \in Ops, NEW l \in Labels,
         NEW j \in Receipt, Start(p, o, l, j)
  PROVE  LocalTypes'
BY Constants DEF LocalTypes, Start

LEMMA FinishTypes ==
  ASSUME LocalTypes, NEW p \in Procs, NEW r \in Receipt, Finish(p, r)
  PROVE  LocalTypes'
BY Constants DEF LocalTypes, Finish

LEMMA ThrowTypes ==
  ASSUME LocalTypes, NEW p \in Procs, Throw(p)
  PROVE  LocalTypes'
BY FinishTypes, Constants DEF Throw

LEMMA ProposeTypes ==
  ASSUME LocalTypes, NEW p \in Procs, NEW r \in Receipt, Propose(p, r)
  PROVE  LocalTypes'
BY DEF LocalTypes, Propose, Labels

LEMMA RefusedTypes ==
  ASSUME LocalTypes, NEW p \in Procs, Refused(p)
  PROVE  LocalTypes'
BY GotoTypes, ThrowTypes DEF Refused, Labels

LEMMA RepliedTypes ==
  ASSUME LocalTypes, NEW p \in Procs, NEW r \in Receipt, Replied(p, r)
  PROVE  LocalTypes'
<1>1. CASE Finish(p, r)
  BY <1>1, FinishTypes
<1>2. CASE \E t \in IF TwoPhase THEN {r.at} ELSE Times :
             Start(p, "finalize", "readPlan",
               [status |-> "scheduled", at |-> t,
                sel |-> IF TwoPhase THEN r.sel ELSE job[p].sel])
  <2>1. PICK t \in IF TwoPhase THEN {r.at} ELSE Times :
             Start(p, "finalize", "readPlan",
               [status |-> "scheduled", at |-> t,
                sel |-> IF TwoPhase THEN r.sel ELSE job[p].sel])
    BY <1>2
  <2>2. [status |-> "scheduled", at |-> t,
         sel |-> IF TwoPhase THEN r.sel ELSE job[p].sel] \in Receipt
    BY CleanStoreAssumption DEF Receipt, MaybeStatus, Status, LocalTypes
  <2> QED
    BY <2>1, <2>2, StartTypes DEF Ops, Labels
<1> QED
  BY <1>1, <1>2 DEF Replied, Approved

\* The actions that leave the files alone, or change only the lock file.
LEMMA QuietTypes ==
  ASSUME TypeOK, NEW p \in Procs,
         \/ Call(p) \/ Locking(p) \/ Deciding(p) \/ WriteFails(p) \/ Crash(p)
  PROVE  TypeOK'
<1> SUFFICES StoreTypes' /\ LocalTypes'
  BY DEF TypeOK, StoreTypes, LocalTypes
<1>0. StoreTypes /\ LocalTypes
  BY DEF TypeOK, StoreTypes, LocalTypes
<1> USE <1>0
<1>1. CASE CallAnalyze(p)
  BY <1>1, StartTypes, Constants DEF CallAnalyze, store, StoreTypes, Ops, Labels
<1>2. CASE CallApprove(p)
  <2>1. PICK s \in Requests, t \in Times :
          Start(p, "approve", "readPlan", [status |-> "approved", sel |-> s, at |-> t])
    BY <1>2 DEF CallApprove
  <2>2. [status |-> "approved", sel |-> s, at |-> t] \in Receipt
    BY NewReceipt DEF Status
  <2> QED
    BY <1>2, <2>1, <2>2, StartTypes DEF CallApprove, store, StoreTypes, Ops, Labels
<1>3. CASE CallCancel(p)
  <2>1. PICK t \in Times :
          Start(p, "cancel", "readPlan", [status |-> "cancelled", sel |-> <<>>, at |-> t])
    BY <1>3 DEF CallCancel
  <2>2. [status |-> "cancelled", sel |-> <<>>, at |-> t] \in Receipt
    BY NewReceipt DEF Status
  <2> QED
    BY <1>3, <2>1, <2>2, StartTypes DEF CallCancel, store, StoreTypes, Ops, Labels
<1>4. CASE CallHost(p)
  <2>1. PICK s \in {"applied", "stale", "failed"}, t \in Times :
          Start(p, "recover", "lock", [status |-> s, sel |-> <<>>, at |-> t])
    BY <1>4 DEF CallHost
  <2>2. [status |-> s, sel |-> <<>>, at |-> t] \in Receipt
    BY NewReceipt DEF Status
  <2> QED
    BY <1>4, <2>1, <2>2, StartTypes DEF CallHost, store, StoreTypes, Ops, Labels
<1>5. CASE AcquireLock(p)
  BY <1>5, GotoTypes DEF AcquireLock, StoreTypes, Labels, Locked
<1>6. CASE LockTimeout(p)
  BY <1>6, ThrowTypes, RefusedTypes DEF LockTimeout, store, StoreTypes
<1>7. CASE Unlock(p)
  <2>1. job[p] \in Receipt
    BY DEF LocalTypes
  <2>2. LocalTypes'
    BY <1>7, <2>1, GotoTypes, RefusedTypes, RepliedTypes, StartTypes
       DEF Unlock, Labels, Ops
  <2> QED
    BY <1>7, <2>2 DEF Unlock, StoreTypes
<1>8. CASE ReadPlan(p)
  BY <1>8 DEF ReadPlan, store, StoreTypes, LocalTypes, Labels
<1>9. CASE Replay(p) \/ Reread(p)
  BY <1>9, RepliedTypes, ThrowTypes DEF Replay, Reread, store, StoreTypes
<1>10. CASE DecideApprove(p) \/ DecideFinalize(p)
  <2>1. job[p] \in Receipt
    BY DEF LocalTypes
  <2> QED
    BY <1>10, <2>1, ProposeTypes DEF DecideApprove, DecideFinalize, store, StoreTypes
<1>11. CASE DecideCancel(p) \/ DecideRecord(p)
  <2>1. [job[p] EXCEPT !.sel = receipt.sel] \in Receipt
    BY DEF LocalTypes, StoreTypes, Receipt
  <2> QED
    BY <1>11, <2>1, ProposeTypes DEF DecideCancel, DecideRecord, store, StoreTypes
<1>12. CASE DecideConflict(p)
  BY <1>12, ThrowTypes DEF DecideConflict, store, StoreTypes
<1>13. CASE WriteFails(p)
  BY <1>13, GotoTypes DEF WriteFails, store, StoreTypes, Labels, Locked
<1>14. CASE Crash(p)
  BY <1>14, ThrowTypes DEF Crash, StoreTypes
<1> QED
  BY <1>1, <1>2, <1>3, <1>4, <1>5, <1>6, <1>7, <1>8, <1>9, <1>10, <1>11, <1>12,
     <1>13, <1>14 DEF Call, Locking, Deciding

\* The actions inside the lock.
LEMMA WritingTypes ==
  ASSUME TypeOK, NEW p \in Procs, Writing(p)
  PROVE  TypeOK'
<1> SUFFICES StoreTypes' /\ LocalTypes'
  BY DEF TypeOK, StoreTypes, LocalTypes
<1>0. StoreTypes /\ LocalTypes
  BY DEF TypeOK, StoreTypes, LocalTypes
<1> USE <1>0
<1>1. CASE SavePlanRecord(p)
  BY <1>1, GotoTypes DEF SavePlanRecord, StoreTypes, MaybeStatus, Status, Labels, Locked
<1>2. CASE WriteIntent(p)
  <2>1. [from |-> plan, receipt |-> job[p]] \in Intent
    BY DEF StoreTypes, LocalTypes, Intent
  <2> QED
    BY <1>2, <2>1, GotoTypes DEF WriteIntent, StoreTypes, Labels, Locked
<1>3. CASE AdoptIntent(p) \/ NothingToRecover(p) \/ RefuseTransition(p) \/ ReceiptRejected(p)
  BY <1>3, GotoTypes DEF AdoptIntent, NothingToRecover, RefuseTransition,
     ReceiptRejected, store, StoreTypes, Labels, Locked
<1>4. CASE AbortIntent(p) \/ UnlinkIntent(p)
  BY <1>4, GotoTypes, Constants DEF AbortIntent, UnlinkIntent, StoreTypes, Labels, Locked
<1>5. CASE SaveReceipt(p)
  BY <1>5, GotoTypes DEF SaveReceipt, StoreTypes, Intent, Labels, Locked
<1>6. CASE SavePlan(p)
  BY <1>6, GotoTypes DEF SavePlan, StoreTypes, Intent, Receipt, Labels, Locked
<1> QED
  BY <1>1, <1>2, <1>3, <1>4, <1>5, <1>6 DEF Writing

LEMMA NextTypes == TypeOK /\ [Next]_vars => TypeOK'
<1> SUFFICES ASSUME TypeOK, [Next]_vars PROVE TypeOK'
  OBVIOUS
<1>1. CASE \E p \in Procs : Call(p) \/ Step(p) \/ WriteFails(p) \/ Crash(p)
  BY <1>1, QuietTypes, WritingTypes DEF Step
<1>2. CASE ExpireLock
  BY <1>2 DEF ExpireLock, locals, TypeOK
<1>3. CASE UNCHANGED vars
  BY <1>3 DEF vars, TypeOK
<1> QED
  BY <1>1, <1>2, <1>3 DEF Next

\* Every reachable state of the store and of its users is well typed: no step
\* leaves a receipt whose selection is not a list of plan tasks, or a process at a
\* control point the code does not have.
THEOREM TypeCorrect == Spec => []TypeOK
<1>1. Init => TypeOK
  BY Constants DEF Init, TypeOK
<1> QED
  BY <1>1, NextTypes, PTL DEF Spec

-------------------------------------------------------------------------------
(***************************************************************************)
(* The lock.                                                               *)
(***************************************************************************)
\* How a step of p moves its control point and the lock file.
Moves(p) ==
  \E l \in Labels :
    /\ pc' = [pc EXCEPT ![p] = l]
    /\ \/ lock' = lock /\ (l \in Locked => pc[p] \in Locked)
       \/ lock' # lock /\ pc[p] \in Locked /\ l \notin Locked
       \/ lock = "free" /\ lock' = "held"

LEMMA RefusedMoves ==
  ASSUME NEW p \in Procs, Refused(p)
  PROVE  \E l \in Labels \ Locked : pc' = [pc EXCEPT ![p] = l]
BY DEF Refused, Goto, Throw, Finish, Labels, Locked

LEMMA RepliedMoves ==
  ASSUME NEW p \in Procs, NEW r, Replied(p, r)
  PROVE  \E l \in Labels \ Locked : pc' = [pc EXCEPT ![p] = l]
BY DEF Replied, Approved, Start, Finish, Labels, Locked

LEMMA EveryStepMoves ==
  ASSUME NEW p \in Procs, Call(p) \/ Step(p) \/ WriteFails(p) \/ Crash(p)
  PROVE  Moves(p)
<1>1. CASE Call(p)
  BY <1>1 DEF Call, CallAnalyze, CallApprove, CallCancel, CallHost, Start, store,
     Moves, Labels, Locked
<1>2. CASE AcquireLock(p)
  BY <1>2 DEF AcquireLock, Goto, Moves, Labels, Locked
<1>3. CASE LockTimeout(p)
  BY <1>3, RefusedMoves DEF LockTimeout, Throw, Finish, store, Moves, Labels, Locked
<1>4. CASE Unlock(p)
  <2>1. pc[p] \in Locked
    BY <1>4 DEF Unlock, Locked
  <2>2. \E l \in Labels \ Locked : pc' = [pc EXCEPT ![p] = l]
    BY <1>4, RefusedMoves, RepliedMoves DEF Unlock, Goto, Start, Labels, Locked
  <2>3. lock' = "free"
    BY <1>4 DEF Unlock
  <2> QED
    BY <2>1, <2>2, <2>3 DEF Moves
<1>5. CASE Deciding(p)
  <2>1. \E l \in Labels \ Locked : pc' = [pc EXCEPT ![p] = l]
    BY <1>5, RepliedMoves DEF Deciding, ReadPlan, Replay, DecideApprove, DecideFinalize,
       DecideCancel, DecideRecord, DecideConflict, Reread, Propose, Throw, Finish,
       Labels, Locked
  <2>2. lock' = lock
    BY <1>5 DEF Deciding, ReadPlan, Replay, DecideApprove, DecideFinalize,
       DecideCancel, DecideRecord, DecideConflict, Reread, store
  <2> QED
    BY <2>1, <2>2 DEF Moves
<1>6. CASE Writing(p) \/ WriteFails(p)
  <2>1. lock' = lock /\ pc[p] \in Locked /\ \E l \in Locked : Goto(p, l)
    BY <1>6 DEF Writing, WriteFails, SavePlanRecord, WriteIntent, AdoptIntent,
       NothingToRecover, RefuseTransition, AbortIntent, SaveReceipt, ReceiptRejected,
       SavePlan, UnlinkIntent, store, Locked
  <2> QED
    BY <2>1 DEF Moves, Goto, Labels
<1>7. CASE Crash(p)
  <2>1. pc' = [pc EXCEPT ![p] = "idle"]
    BY <1>7 DEF Crash, Throw, Finish
  <2>2. lock' # lock => pc[p] \in Locked
    BY <1>7 DEF Crash
  <2> QED
    BY <2>1, <2>2 DEF Moves, Labels, Locked
<1> QED
  BY <1>1, <1>2, <1>3, <1>4, <1>5, <1>6, <1>7 DEF Step, Locking

LEMMA NextMutex == TypeOK /\ Mutex /\ [Next]_vars => Mutex'
<1> SUFFICES ASSUME TypeOK, Mutex, [Next]_vars PROVE Mutex'
  OBVIOUS
<1>0. pc \in [Procs -> Labels]
  BY DEF TypeOK
<1>1. ASSUME NEW p \in Procs, Moves(p) PROVE Mutex'
  <2>1. PICK l \in Labels :
          /\ pc' = [pc EXCEPT ![p] = l]
          /\ \/ lock' = lock /\ (l \in Locked => pc[p] \in Locked)
             \/ lock' # lock /\ pc[p] \in Locked /\ l \notin Locked
             \/ lock = "free" /\ lock' = "held"
    BY <1>1 DEF Moves
  <2>2. \A q \in Procs : pc'[q] = IF q = p THEN l ELSE pc[q]
    BY <2>1, <1>0
  <2>3. CASE lock' = lock /\ (l \in Locked => pc[p] \in Locked)
    BY <2>2, <2>3 DEF Mutex
  <2>4. CASE lock' # lock /\ pc[p] \in Locked /\ l \notin Locked
    BY <2>2, <2>4 DEF Mutex
  <2>5. CASE lock = "free" /\ lock' = "held"
    BY <2>2, <2>5 DEF Mutex
  <2> QED
    BY <2>1, <2>3, <2>4, <2>5
<1>2. CASE ExpireLock
  BY <1>2 DEF ExpireLock, locals, Mutex
<1>3. CASE UNCHANGED vars
  BY <1>3 DEF vars, Mutex
<1> QED
  BY <1>1, <1>2, <1>3, EveryStepMoves DEF Next

-------------------------------------------------------------------------------
(***************************************************************************)
(* What survives a step.                                                   *)
(***************************************************************************)
LEMMA TransitionTable ==
  ASSUME NEW x, NEW y, <<x, y>> \in Transitions
  PROVE  /\ x \in Status /\ y \in Status /\ x # y
         /\ x \notin Terminal /\ y # "analyzed"
         /\ y = "approved" => x = "analyzed"
BY DEF Transitions, Status, Terminal

LEMMA TerminalStays ==
  ASSUME NEW x \in Terminal, NEW y, CanTransition(x, y)
  PROVE  x = y
BY TransitionTable DEF CanTransition

\* Facts about the files that no step takes back.
FilesKeep ==
  /\ plan \in Terminal => plan' = plan
  /\ Chosen => Chosen'
  /\ \A r \in Receipt : Durable(r) => Durable(r)'

OthersKeep(p) ==
  \A q \in Procs \ {p} :
    /\ pc'[q] = pc[q] /\ op'[q] = op[q] /\ job'[q] = job[q]
    /\ seen'[q] = seen[q] /\ reply'[q] = reply[q]

LEMMA SameFilesKeep ==
  ASSUME UNCHANGED <<plan, receipt, intent>>
  PROVE  FilesKeep
BY DEF FilesKeep, Chosen, Durable

\* Outside the lock, or with the files unchanged, the other processes keep what
\* they know, so a step has to be checked for the process that takes it only.
LEMMA OneProcess ==
  ASSUME TypeOK, Mutex, ProcsOK, NEW p \in Procs, OthersKeep(p), FilesKeep,
         UNCHANGED <<plan, receipt, intent>> \/ pc[p] \in Locked,
         InTransaction(p)', Knows(p)'
  PROVE  ProcsOK'
<1> SUFFICES ASSUME NEW q \in Procs, q # p
             PROVE  InTransaction(q)' /\ Knows(q)'
  BY DEF ProcsOK
<1>1. InTransaction(q) /\ Knows(q)
  BY DEF ProcsOK
<1>2. /\ pc'[q] = pc[q] /\ op'[q] = op[q] /\ job'[q] = job[q]
      /\ seen'[q] = seen[q] /\ reply'[q] = reply[q]
  BY DEF OthersKeep
<1>3. InTransaction(q)'
  <2>1. CASE UNCHANGED <<plan, receipt, intent>>
    BY <1>1, <1>2, <2>1 DEF InTransaction
  <2>2. CASE pc[p] \in Locked
    <3>1. pc[q] \notin Locked
      BY <2>2 DEF Mutex
    <3> QED
      BY <3>1, <1>2 DEF InTransaction, Locked
  <2> QED
    BY <2>1, <2>2
<1>4. Knows(q)'
  <2>1. reply[q] \in Receipt
    BY DEF TypeOK
  <2>2. Durable(reply[q])'
    BY <1>1, <2>1, <1>2 DEF Knows, FilesKeep, Durable
  <2> QED
    BY <1>1, <1>2, <2>2 DEF Knows, FilesKeep
<1> QED
  BY <1>3, <1>4

\* The moves of one process with the files unchanged.
LEMMA GotoKeeps ==
  ASSUME TypeOK, Mutex, ProcsOK, NEW p \in Procs, NEW l \in Labels, Goto(p, l),
         UNCHANGED <<plan, receipt, intent>>,
         l \notin {"complete", "savePlan", "unlink", "unlockOk"}
  PROVE  ProcsOK'
<1>1. OthersKeep(p)
  BY DEF OthersKeep, Goto, TypeOK
<1>2. InTransaction(p)'
  BY DEF InTransaction, Goto, TypeOK
<1>3. Knows(p)'
  BY DEF ProcsOK, Knows, Goto, Chosen, Durable
<1> QED
  BY <1>1, <1>2, <1>3, OneProcess, SameFilesKeep

LEMMA StartKeeps ==
  ASSUME TypeOK, Mutex, ProcsOK, NEW p \in Procs, NEW o, NEW j,
         NEW l \in Labels, Start(p, o, l, j),
         UNCHANGED <<plan, receipt, intent>>, l \notin Locked,
         o = "approve" => j.status = "approved",
         o # "approve" /\ j.sel # <<>> => Chosen
  PROVE  ProcsOK'
<1>1. OthersKeep(p)
  BY DEF OthersKeep, Start, TypeOK
<1>2. InTransaction(p)'
  BY DEF InTransaction, Start, TypeOK, Locked
<1>3. Knows(p)'
  <2>1. Durable(NoReceipt)'
    BY DEF Durable, NoReceipt, Terminal
  <2> QED
    BY <2>1 DEF Knows, Start, Chosen, Durable, Terminal, TypeOK
<1> QED
  BY <1>1, <1>2, <1>3, OneProcess, SameFilesKeep

LEMMA FinishKeeps ==
  ASSUME TypeOK, Mutex, ProcsOK, NEW p \in Procs, NEW r \in Receipt, Finish(p, r),
         UNCHANGED <<plan, receipt, intent>>, Durable(r)
  PROVE  ProcsOK'
<1>1. OthersKeep(p)
  BY DEF OthersKeep, Finish, TypeOK
<1>2. InTransaction(p)'
  BY DEF InTransaction, Finish, TypeOK
<1>3. Knows(p)'
  BY DEF Knows, Finish, Durable, Terminal, TypeOK, NoReceipt
<1> QED
  BY <1>1, <1>2, <1>3, OneProcess, SameFilesKeep

LEMMA ThrowKeeps ==
  ASSUME TypeOK, Mutex, ProcsOK, NEW p \in Procs, Throw(p),
         UNCHANGED <<plan, receipt, intent>>
  PROVE  ProcsOK'
<1>1. Durable(NoReceipt)
  BY DEF Durable, NoReceipt, Terminal
<1> QED
  BY <1>1, FinishKeeps, Constants DEF Throw

LEMMA RefusedKeeps ==
  ASSUME TypeOK, Mutex, ProcsOK, NEW p \in Procs, Refused(p),
         UNCHANGED <<plan, receipt, intent>>
  PROVE  ProcsOK'
BY GotoKeeps, ThrowKeeps DEF Refused, Labels

\* A durable approval or schedule goes on to the schedule; any other is returned.
LEMMA RepliedKeeps ==
  ASSUME TypeOK, Mutex, ProcsOK, NEW p \in Procs, NEW r \in Receipt, Replied(p, r),
         UNCHANGED <<plan, receipt, intent>>, Durable(r)
  PROVE  ProcsOK'
<1>1. CASE Finish(p, r)
  BY <1>1, FinishKeeps
<1>2. CASE /\ r.status = "approved" \/ (TwoPhase /\ r.status = "scheduled")
           /\ \E t \in IF TwoPhase THEN {r.at} ELSE Times :
                Start(p, "finalize", "readPlan",
                  [status |-> "scheduled", at |-> t,
                   sel |-> IF TwoPhase THEN r.sel ELSE job[p].sel])
  <2>1. Chosen
    BY <1>2 DEF Durable, Chosen
  <2>2. "readPlan" \in Labels \ Locked
    BY DEF Labels, Locked
  <2> QED
    BY <1>2, <2>1, <2>2, StartKeeps
<1> QED
  BY <1>1, <1>2 DEF Replied, Approved

-------------------------------------------------------------------------------
(***************************************************************************)
(* The steps that leave plan, receipt and intent alone.                    *)
(***************************************************************************)
\* A terminal receipt that is replayed is the final one: the plan it was read with
\* was terminal and still is, and then the receipt cannot be ahead of it.
LEMMA ReplayIsDurable ==
  ASSUME IInv, NEW p \in Procs, receipt.status # "none",
         \/ seen[p] \in Terminal
         \/ receipt.status \in {"approved", "scheduled"}
  PROVE  Durable(receipt)
<1>1. CASE seen[p] \in Terminal
  <2>1. plan = seen[p]
    BY <1>1 DEF IInv, ProcsOK, Knows
  <2>2. receipt.status = plan
    BY <2>1, <1>1, TransitionTable DEF IInv, ReceiptAheadIsLogged, Terminal, NoReceipt
  <2> QED
    BY <2>1, <2>2, <1>1 DEF Durable, Terminal
<1>2. CASE receipt.status \in {"approved", "scheduled"}
  BY <1>2 DEF Durable, Terminal
<1> QED
  BY <1>1, <1>2

LEMMA ProposeKeeps ==
  ASSUME IInv, NEW p \in Procs, NEW r, Propose(p, r), UNCHANGED store,
         op[p] = "approve" => r.status = "approved",
         op[p] # "approve" /\ r.sel # <<>> => Chosen
  PROVE  ProcsOK'
<1> USE DEF IInv, store
<1>1. OthersKeep(p)
  BY DEF OthersKeep, Propose, TypeOK
<1>2. InTransaction(p)'
  BY DEF InTransaction, Propose, TypeOK
<1>3. Knows(p)'
  BY DEF ProcsOK, Knows, Propose, Chosen, Durable, TypeOK
<1> QED
  BY <1>1, <1>2, <1>3, OneProcess, SameFilesKeep

LEMMA QuietKeeps ==
  ASSUME IInv, NEW p \in Procs,
         \/ Call(p) \/ Locking(p) \/ Deciding(p) \/ WriteFails(p) \/ Crash(p)
  PROVE  ProcsOK' /\ UNCHANGED <<plan, receipt, intent>>
<1> USE DEF IInv
<1>0. job[p] \in Receipt /\ receipt \in Receipt
  BY DEF TypeOK
<1>1. CASE CallAnalyze(p)
  <2>1. AnalyzedReceipt.sel = <<>>
    BY DEF AnalyzedReceipt
  <2> QED
    BY <1>1, <2>1, StartKeeps DEF CallAnalyze, store, Labels, Locked
<1>2. CASE CallApprove(p)
  BY <1>2, StartKeeps DEF CallApprove, store, Labels, Locked
<1>3. CASE CallCancel(p) \/ CallHost(p)
  BY <1>3, StartKeeps DEF CallCancel, CallHost, store, Labels, Locked
<1>4. CASE AcquireLock(p)
  BY <1>4, GotoKeeps DEF AcquireLock, Labels, Locked
<1>5. CASE LockTimeout(p)
  BY <1>5, ThrowKeeps, RefusedKeeps DEF LockTimeout, store
<1>6. CASE Unlock(p)
  <2>1. UNCHANGED <<plan, receipt, intent>>
    BY <1>6 DEF Unlock
  <2>2. CASE pc[p] = "planUnlock" /\ Goto(p, "lock")
    BY <2>1, <2>2, GotoKeeps DEF Labels, Locked
  <2>3. CASE pc[p] = "unlockFail" /\ Refused(p)
    BY <2>1, <2>3, RefusedKeeps
  <2>4. CASE pc[p] = "unlockOk" /\ op[p] = "recover" /\ Start(p, "record", "readPlan", job[p])
    <3>1. job[p].sel # <<>> => Chosen
      BY <2>4 DEF ProcsOK, Knows
    <3> QED
      BY <2>1, <2>4, <3>1, StartKeeps DEF Labels, Locked
  <2>5. CASE pc[p] = "unlockOk" /\ op[p] # "recover" /\ Replied(p, job[p])
    <3>1. receipt = job[p] /\ plan = receipt.status
      BY <2>5 DEF ProcsOK, InTransaction
    <3>2. Durable(job[p])
      BY <3>1 DEF Durable
    <3> QED
      BY <1>0, <2>1, <2>5, <3>2, RepliedKeeps
  <2> QED
    BY <1>6, <2>1, <2>2, <2>3, <2>4, <2>5 DEF Unlock
<1>7. CASE ReadPlan(p)
  <2>1. OthersKeep(p)
    BY <1>7 DEF ReadPlan, OthersKeep, TypeOK
  <2>2. InTransaction(p)'
    BY <1>7 DEF ReadPlan, InTransaction, TypeOK
  <2>3. Knows(p)'
    BY <1>7 DEF ReadPlan, store, ProcsOK, Knows, Chosen, Durable, TypeOK
  <2> QED
    BY <1>7, <2>1, <2>2, <2>3, OneProcess, SameFilesKeep DEF ReadPlan, store
<1>8. CASE Replay(p)
  <2>1. Durable(receipt)
    BY <1>8, ReplayIsDurable DEF Replay
  <2> QED
    BY <1>0, <1>8, <2>1, RepliedKeeps DEF Replay, store
<1>9. CASE Reread(p)
  <2>1. CASE Throw(p)
    BY <1>9, <2>1, ThrowKeeps DEF Reread, store
  <2>2. CASE /\ Replied(p, receipt) /\ receipt.status # "none"
             /\ seen[p] \in Terminal \/ receipt.status = "scheduled"
    BY <1>0, <1>9, <2>2, ReplayIsDurable, RepliedKeeps DEF Reread, store
  <2> QED
    BY <1>9, <2>1, <2>2 DEF Reread
<1>10. CASE DecideApprove(p) \/ DecideFinalize(p)
  <2>1. /\ op[p] = "approve" => job[p].status = "approved"
        /\ op[p] # "approve" /\ job[p].sel # <<>> => Chosen
    BY DEF ProcsOK, Knows
  <2> QED
    BY <1>10, <2>1, ProposeKeeps DEF DecideApprove, DecideFinalize, store
<1>11. CASE DecideCancel(p) \/ DecideRecord(p)
  <2>1. [job[p] EXCEPT !.sel = receipt.sel].sel = receipt.sel
    BY <1>0 DEF Receipt
  <2>2. receipt.sel # <<>> => Chosen
    BY DEF FilesOK
  <2> QED
    BY <1>11, <2>1, <2>2, ProposeKeeps DEF DecideCancel, DecideRecord, store
<1>12. CASE DecideConflict(p)
  BY <1>12, ThrowKeeps DEF DecideConflict, store
<1>13. CASE WriteFails(p)
  BY <1>13, GotoKeeps DEF WriteFails, store, Labels, Locked
<1>14. CASE Crash(p)
  BY <1>14, ThrowKeeps DEF Crash
<1> QED
  BY <1>1, <1>2, <1>3, <1>4, <1>5, <1>6, <1>7, <1>8, <1>9, <1>10, <1>11, <1>12,
     <1>13, <1>14 DEF Call, Locking, Deciding

-------------------------------------------------------------------------------
(***************************************************************************)
(* The steps inside the lock.                                              *)
(***************************************************************************)
FilesInv == FilesOK /\ ReceiptAheadIsLogged

\* A step inside the lock that moves p to l keeps what the others know.
LEMMA LockedStep ==
  ASSUME IInv, NEW p \in Procs, NEW l \in Labels, Goto(p, l), pc[p] \in Locked,
         FilesKeep, InTransaction(p)'
  PROVE  ProcsOK'
<1> USE DEF IInv
<1>1. OthersKeep(p)
  BY DEF OthersKeep, Goto, TypeOK
<1>2. reply[p] \in Receipt
  BY DEF TypeOK
<1>3. Durable(reply[p])'
  BY <1>2 DEF ProcsOK, Knows, FilesKeep, Goto, Durable
<1>4. Knows(p)'
  BY <1>3 DEF ProcsOK, Knows, FilesKeep, Goto
<1> QED
  BY <1>1, <1>4, OneProcess

LEMMA SavePlanRecordKeeps ==
  ASSUME IInv, NEW p \in Procs, SavePlanRecord(p)
  PROVE  FilesInv' /\ ProcsOK'
<1> USE DEF IInv
<1>1. FilesInv'
  BY DEF SavePlanRecord, FilesInv, FilesOK, ReceiptAheadIsLogged, Chosen, NoReceipt, Goto
<1>2. FilesKeep
  BY DEF SavePlanRecord, FilesKeep, Chosen, Durable, Terminal
<1>3. InTransaction(p)'
  BY DEF SavePlanRecord, Goto, InTransaction, TypeOK
<1> QED
  BY <1>1, <1>2, <1>3, LockedStep DEF SavePlanRecord, Labels, Locked

LEMMA WriteIntentKeeps ==
  ASSUME IInv, NEW p \in Procs, WriteIntent(p)
  PROVE  FilesInv' /\ ProcsOK'
<1> USE DEF IInv
<1>0. intent' = [from |-> plan, receipt |-> job[p]] /\ UNCHANGED <<plan, receipt>>
  BY DEF WriteIntent
<1>1. plan \in Status /\ job[p].status \in Status
  BY TransitionTable DEF WriteIntent, CanTransition, TypeOK, MaybeStatus
<1>2. intent' # NoIntent
  BY <1>0, <1>1 DEF NoIntent, Status
<1>3. FilesOK'
  <2>1. job[p].status # "approved" /\ job[p].sel # <<>> => Chosen
    BY DEF ProcsOK, Knows
  <2> QED
    BY <1>0, <1>1, <1>2, <2>1 DEF FilesOK, Chosen, Status
<1>4. ReceiptAheadIsLogged'
  <2>1. intent = NoIntent
    BY DEF WriteIntent
  <2>2. \/ receipt.status = plan
        \/ receipt = NoReceipt /\ plan = "analyzed"
    BY <2>1, TransitionTable DEF ReceiptAheadIsLogged, NoIntent, Status
  <2> QED
    BY <1>0, <2>2 DEF ReceiptAheadIsLogged
<1>5. FilesKeep
  BY <1>0 DEF FilesKeep, Chosen, Durable
<1>6. InTransaction(p)'
  BY <1>0, <1>2 DEF WriteIntent, Goto, InTransaction, TypeOK
<1> QED
  BY <1>3, <1>4, <1>5, <1>6, LockedStep DEF FilesInv, WriteIntent, Labels, Locked

\* Steps that only choose where to go.
LEMMA ChoiceKeeps ==
  ASSUME IInv, NEW p \in Procs,
         \/ AdoptIntent(p) \/ NothingToRecover(p) \/ RefuseTransition(p)
         \/ ReceiptRejected(p)
  PROVE  FilesInv' /\ ProcsOK'
<1> USE DEF IInv
<1>0. UNCHANGED <<plan, receipt, intent>>
  BY DEF AdoptIntent, NothingToRecover, RefuseTransition, ReceiptRejected, store
<1>1. FilesInv'
  BY <1>0 DEF FilesInv, FilesOK, ReceiptAheadIsLogged, Chosen
<1>2. CASE AdoptIntent(p)
  <2>1. InTransaction(p)'
    BY <1>0, <1>2 DEF AdoptIntent, Goto, InTransaction, TypeOK
  <2> QED
    BY <1>0, <1>1, <1>2, <2>1, SameFilesKeep, LockedStep DEF AdoptIntent, Labels, Locked
<1>3. CASE NothingToRecover(p)
  <2>1. InTransaction(p)'
    BY <1>0, <1>3 DEF NothingToRecover, Goto, InTransaction, TypeOK
  <2> QED
    BY <1>0, <1>1, <1>3, <2>1, SameFilesKeep, LockedStep
       DEF NothingToRecover, Labels, Locked
<1>4. CASE RefuseTransition(p) \/ ReceiptRejected(p)
  BY <1>0, <1>1, <1>4, GotoKeeps DEF RefuseTransition, ReceiptRejected, Labels, Locked
<1> QED
  BY <1>2, <1>3, <1>4

\* An intent that is thrown away never described the receipt on disk.
LEMMA AbortIntentKeeps ==
  ASSUME IInv, NEW p \in Procs, AbortIntent(p)
  PROVE  FilesInv' /\ ProcsOK'
<1> USE DEF IInv
<1>0. intent' = NoIntent /\ UNCHANGED <<plan, receipt>>
  BY DEF AbortIntent
<1>1. \/ receipt.status = plan
      \/ receipt = NoReceipt /\ plan = "analyzed"
  BY DEF AbortIntent, IntentObsolete, ReceiptAheadIsLogged, CanTransition
<1>2. FilesInv'
  BY <1>0, <1>1 DEF FilesInv, FilesOK, ReceiptAheadIsLogged, Chosen, NoIntent, NoReceipt
<1>3. FilesKeep
  BY <1>0 DEF FilesKeep, Chosen, Durable
<1>4. InTransaction(p)'
  BY DEF AbortIntent, Goto, InTransaction, TypeOK
<1> QED
  BY <1>2, <1>3, <1>4, LockedStep DEF AbortIntent, Labels, Locked

\* Saving the receipt: nothing changes, or the receipt makes one allowed transition
\* from the status the plan record shows.
LEMMA SaveReceiptCases ==
  ASSUME IInv, NEW p \in Procs, SaveReceipt(p)
  PROVE  \/ receipt' = receipt
         \/ /\ receipt.status \in {"none", plan} /\ receipt'.status # receipt.status
            /\ receipt.status = "none" => plan = "analyzed" /\ receipt = NoReceipt
            /\ CanTransition(plan, receipt'.status)
            /\ receipt'.status \in Status
            /\ \/ receipt.status \in {"none", "analyzed"} /\ receipt'.status = "approved"
               \/ receipt'.sel = receipt.sel
<1> USE DEF IInv
<1>0. receipt' = intent.receipt
  BY DEF SaveReceipt
<1>1. CASE receipt.status = intent.receipt.status
  BY <1>0, <1>1 DEF SaveReceipt, IntentObsolete
<1>2. CASE receipt.status # intent.receipt.status
  <2>1. ReceiptAccepted(intent.receipt)
    BY <1>2 DEF SaveReceipt
  <2>2. intent # NoIntent /\ plan # "none" /\ intent.receipt.status \in Status
    BY DEF ProcsOK, InTransaction, FilesOK, SaveReceipt
  <2>3. receipt.status = plan \/ (receipt = NoReceipt /\ plan = "analyzed")
    BY <1>2 DEF ReceiptAheadIsLogged
  <2>4. CASE receipt.status = "none"
    <3>1. receipt = NoReceipt /\ plan = "analyzed"
      BY <2>2, <2>3, <2>4
    <3>2. receipt.sel = <<>> /\ ~Chosen
      BY <3>1 DEF NoReceipt, Chosen
    <3>3. intent.receipt.status = "approved" \/ intent.receipt.sel = <<>>
      BY <3>2 DEF FilesOK
    <3> QED
      BY <1>0, <1>2, <2>1, <2>2, <2>4, <3>1, <3>2, <3>3 DEF ReceiptAccepted
  <2>5. CASE receipt.status # "none"
    <3>1. receipt.status = plan
      BY <2>3, <2>5 DEF NoReceipt
    <3> QED
      BY <1>0, <1>2, <2>1, <2>2, <2>5, <3>1 DEF ReceiptAccepted
  <2> QED
    BY <2>4, <2>5
<1> QED
  BY <1>1, <1>2

LEMMA SaveReceiptKeeps ==
  ASSUME IInv, NEW p \in Procs, SaveReceipt(p)
  PROVE  FilesInv' /\ ProcsOK'
<1> USE DEF IInv
<1>0. receipt' = intent.receipt /\ UNCHANGED <<plan, intent>>
  BY DEF SaveReceipt
<1>1. /\ intent # NoIntent /\ plan # "none" /\ intent.receipt.status \in Status
      /\ plan \in {intent.from, intent.receipt.status}
      /\ CanTransition(intent.from, intent.receipt.status)
  BY DEF ProcsOK, InTransaction, FilesOK, SaveReceipt, IntentObsolete
<1>2. receipt.status \in Terminal => receipt' = receipt
  BY SaveReceiptCases, TerminalStays DEF Terminal
<1>3. Chosen => Chosen' /\ receipt'.sel = receipt.sel
  <2>1. CASE receipt' = receipt
    BY <2>1 DEF Chosen
  <2>2. CASE receipt' # receipt
    BY <2>2, SaveReceiptCases, TransitionTable DEF Chosen, CanTransition, Status
  <2> QED
    BY <2>1, <2>2
<1>4. FilesKeep
  <2>1. ASSUME NEW r \in Receipt, Durable(r) PROVE Durable(r)'
    BY <1>0, <1>2, <1>3, <2>1 DEF Durable, Chosen
  <2> QED
    BY <1>0, <1>3, <2>1 DEF FilesKeep
<1>5. FilesOK'
  <2>1. intent.receipt.status # "approved" /\ intent.receipt.sel # <<>> => Chosen'
    BY <1>3 DEF FilesOK
  <2>2. receipt'.sel # <<>> => Chosen'
    BY <1>3, SaveReceiptCases DEF FilesOK, Chosen
  <2> QED
    BY <1>0, <1>1, <2>1, <2>2 DEF FilesOK, Status, Chosen
<1>6. ReceiptAheadIsLogged'
  BY <1>0, <1>1 DEF ReceiptAheadIsLogged, CanTransition
<1>7. InTransaction(p)'
  <2>1. op[p] # "recover" => intent.receipt = job[p]
    BY DEF ProcsOK, InTransaction, SaveReceipt
  <2> QED
    BY <1>0, <1>1, <2>1 DEF SaveReceipt, Goto, InTransaction, TypeOK
<1> QED
  BY <1>4, <1>5, <1>6, <1>7, LockedStep DEF FilesInv, SaveReceipt, Labels, Locked

LEMMA SavePlanKeeps ==
  ASSUME IInv, NEW p \in Procs, SavePlan(p)
  PROVE  FilesInv' /\ ProcsOK'
<1> USE DEF IInv
<1>0. plan' = intent.receipt.status /\ UNCHANGED <<receipt, intent>>
  BY DEF SavePlan
<1>1. /\ intent # NoIntent /\ receipt = intent.receipt
      /\ op[p] # "recover" => intent.receipt = job[p]
      /\ intent.receipt.status \in Status
  BY DEF ProcsOK, InTransaction, FilesOK, SavePlan
<1>2. plan \in Terminal => plan' = plan
  BY <1>0, TerminalStays DEF SavePlan
<1>3. FilesKeep
  BY <1>0, <1>1, <1>2 DEF FilesKeep, Chosen, Durable
<1>4. FilesInv'
  BY <1>0, <1>1 DEF FilesInv, FilesOK, ReceiptAheadIsLogged, Chosen, Status
<1>5. InTransaction(p)'
  BY <1>0, <1>1 DEF SavePlan, Goto, InTransaction, TypeOK
<1> QED
  BY <1>3, <1>4, <1>5, LockedStep DEF SavePlan, Labels, Locked

LEMMA UnlinkIntentKeeps ==
  ASSUME IInv, NEW p \in Procs, UnlinkIntent(p)
  PROVE  FilesInv' /\ ProcsOK'
<1> USE DEF IInv
<1>0. intent' = NoIntent /\ UNCHANGED <<plan, receipt>>
  BY DEF UnlinkIntent
<1>1. /\ receipt.status = plan /\ receipt = intent.receipt
      /\ op[p] # "recover" => intent.receipt = job[p]
  BY DEF ProcsOK, InTransaction, UnlinkIntent
<1>2. FilesKeep
  BY <1>0 DEF FilesKeep, Chosen, Durable
<1>3. FilesInv'
  BY <1>0, <1>1 DEF FilesInv, FilesOK, ReceiptAheadIsLogged, Chosen, NoIntent, NoReceipt
<1>4. InTransaction(p)'
  BY <1>0, <1>1 DEF UnlinkIntent, Goto, InTransaction, TypeOK
<1> QED
  BY <1>2, <1>3, <1>4, LockedStep DEF UnlinkIntent, Labels, Locked

LEMMA WritingKeeps ==
  ASSUME IInv, NEW p \in Procs, Writing(p)
  PROVE  FilesInv' /\ ProcsOK'
BY SavePlanRecordKeeps, WriteIntentKeeps, ChoiceKeeps, AbortIntentKeeps,
   SaveReceiptKeeps, SavePlanKeeps, UnlinkIntentKeeps DEF Writing

-------------------------------------------------------------------------------
(***************************************************************************)
(* The invariant and what follows from it.                                 *)
(***************************************************************************)
LEMMA InitIInv == Init => IInv
<1> SUFFICES ASSUME Init PROVE IInv
  OBVIOUS
<1>1. TypeOK
  BY Constants DEF Init, TypeOK
<1>2. Mutex /\ FilesOK /\ ReceiptAheadIsLogged
  BY DEF Init, Mutex, FilesOK, ReceiptAheadIsLogged, Locked, NoReceipt, NoIntent, Chosen
<1>3. ProcsOK
  BY DEF Init, ProcsOK, InTransaction, Knows, Durable, NoReceipt, Terminal
<1> QED
  BY <1>1, <1>2, <1>3 DEF IInv

LEMMA UnchangedFilesInv ==
  ASSUME IInv, UNCHANGED <<plan, receipt, intent>>
  PROVE  FilesInv'
BY DEF IInv, FilesInv, FilesOK, ReceiptAheadIsLogged, Chosen

LEMMA NextIInv == IInv /\ [Next]_vars => IInv'
<1> SUFFICES ASSUME IInv, [Next]_vars PROVE FilesInv' /\ ProcsOK'
  BY NextTypes, NextMutex DEF IInv, FilesInv
<1>1. CASE \E p \in Procs : Call(p) \/ Step(p) \/ WriteFails(p) \/ Crash(p)
  BY <1>1, QuietKeeps, UnchangedFilesInv, WritingKeeps DEF Step
<1>2. CASE ExpireLock \/ UNCHANGED vars
  <2>1. UNCHANGED <<plan, receipt, intent, pc, op, job, seen, reply>>
    BY <1>2 DEF ExpireLock, vars, locals
  <2>2. ProcsOK'
    BY <2>1 DEF IInv, ProcsOK, InTransaction, Knows, Durable, Chosen
  <2> QED
    BY <2>1, <2>2, UnchangedFilesInv
<1> QED
  BY <1>1, <1>2 DEF Next

THEOREM Invariance == Spec => []IInv
BY InitIInv, NextIInv, PTL DEF Spec

\* Plan record and receipt never disagree without a transaction file that says how
\* to reconcile them: completeIntent can be cut off by a crash or a failed write
\* after each of its writes and recovery still knows what was intended.
THEOREM AheadIsLogged == Spec => []ReceiptAheadIsLogged
<1>1. IInv => ReceiptAheadIsLogged
  BY DEF IInv
<1> QED
  BY <1>1, Invariance, PTL

\* No race between the unlocked reads of the control plane and the transactions of
\* other processes takes back what a call has returned: terminal receipts are final,
\* an acknowledged selection is the one that is stored.
THEOREM RepliesStayTrue == Spec => []RepliesAreDurable
<1>1. IInv => RepliesAreDurable
  BY DEF IInv, ProcsOK, Knows, RepliesAreDurable
<1> QED
  BY <1>1, Invariance, PTL

-------------------------------------------------------------------------------
(***************************************************************************)
(* The store implements the lifecycle: saving the plan record is Analyze,  *)
(* saving the receipt is Approve or Advance, saving the plan after it is   *)
(* Publish, and every other step of a process stutters.                    *)
(***************************************************************************)
LEMMA SaveReceiptRefines ==
  ASSUME IInv, NEW p \in Procs, SaveReceipt(p)
  PROVE  Lifecycle!Next \/ UNCHANGED Lifecycle!vars
<1> USE DEF IInv
<1>0. plan' = plan /\ receipt'.sel \in Seq(Tasks) /\ receipt'.status \in MaybeStatus
  BY NextTypes DEF SaveReceipt, TypeOK, Intent, Receipt
<1>1. CASE receipt' = receipt
  BY <1>0, <1>1 DEF Lifecycle!vars, LifecycleStatus
<1>2. CASE receipt' # receipt
  <2>1. /\ receipt.status \in {"none", plan} /\ receipt'.status # receipt.status
        /\ receipt.status = "none" => plan = "analyzed"
        /\ CanTransition(plan, receipt'.status)
        /\ receipt'.status \in Status
        /\ \/ receipt.status \in {"none", "analyzed"} /\ receipt'.status = "approved"
           \/ receipt'.sel = receipt.sel
    BY <1>2, SaveReceiptCases
  <2>2. LifecycleStatus = plan /\ LifecycleStatus' = receipt'.status
    BY <1>0, <2>1 DEF LifecycleStatus, Status
  <2>3. CASE receipt'.status = plan
    BY <1>0, <2>1, <2>2, <2>3 DEF Lifecycle!vars
  <2>4. CASE receipt'.status # plan /\ receipt'.sel = receipt.sel
    <3>1. Lifecycle!CanTransition(plan, receipt'.status) /\ receipt'.status \in Lifecycle!Status
      BY <2>1 DEF CanTransition, Transitions, Status, Lifecycle!CanTransition,
         Lifecycle!Transitions, Lifecycle!Status
    <3> QED
      BY <1>0, <2>2, <2>4, <3>1 DEF Lifecycle!Advance, Lifecycle!Next
  <2>5. CASE receipt.status \in {"none", "analyzed"} /\ receipt'.status = "approved"
    BY <1>0, <2>1, <2>2, <2>5 DEF Lifecycle!Approve, Lifecycle!Next
  <2> QED
    BY <2>1, <2>3, <2>4, <2>5
<1> QED
  BY <1>1, <1>2

LEMMA NextRefines ==
  ASSUME IInv, [Next]_vars
  PROVE  [Lifecycle!Next]_Lifecycle!vars
<1> USE DEF IInv
<1>1. CASE UNCHANGED <<plan, receipt>>
  BY <1>1 DEF Lifecycle!vars, LifecycleStatus
<1>2. ASSUME NEW p \in Procs, Writing(p)
      PROVE  Lifecycle!Next \/ UNCHANGED Lifecycle!vars
  <2>1. CASE SavePlanRecord(p)
    <3>1. CASE plan = "none"
      BY <2>1, <3>1 DEF SavePlanRecord, FilesOK, NoReceipt, LifecycleStatus,
         Lifecycle!Analyze, Lifecycle!Next
    <3>2. CASE plan # "none"
      BY <2>1, <3>2, <1>1 DEF SavePlanRecord
    <3> QED
      BY <3>1, <3>2
  <2>2. CASE SaveReceipt(p)
    BY <2>2, SaveReceiptRefines
  <2>3. CASE SavePlan(p)
    <3>1. /\ receipt = intent.receipt /\ receipt.status \in Status
          /\ plan' = receipt.status /\ receipt' = receipt
      BY <2>3 DEF SavePlan, ProcsOK, InTransaction, FilesOK
    <3>2. LifecycleStatus = receipt.status /\ LifecycleStatus' = receipt.status
      BY <3>1 DEF LifecycleStatus, Status
    <3> QED
      BY <3>1, <3>2 DEF Lifecycle!Publish, Lifecycle!Next, Lifecycle!vars
  <2>4. CASE UNCHANGED <<plan, receipt>>
    BY <2>4, <1>1
  <2> QED
    BY <1>2, <2>1, <2>2, <2>3, <2>4 DEF Writing, WriteIntent, AdoptIntent,
       NothingToRecover, RefuseTransition, AbortIntent, ReceiptRejected, UnlinkIntent, store
<1>3. ASSUME NEW p \in Procs,
             \/ Call(p) \/ Locking(p) \/ Deciding(p) \/ WriteFails(p) \/ Crash(p)
      PROVE  UNCHANGED <<plan, receipt>>
  BY <1>3, QuietKeeps
<1>4. CASE ExpireLock \/ UNCHANGED vars
  BY <1>4, <1>1 DEF ExpireLock, vars
<1> QED
  BY <1>1, <1>2, <1>3, <1>4 DEF Next, Step

\* For everybody who looks at the files, the transactions of any number of crashing
\* processes are the lifecycle of one plan: transitions of the table only, one
\* choice of tasks, a plan record that follows the receipt.
THEOREM Refinement == Spec => ImplementsLifecycle
<1>1. Init => Lifecycle!Init
  BY DEF Init, NoReceipt, LifecycleStatus, Lifecycle!Init
<1> QED
  BY <1>1, NextRefines, Invariance, PTL DEF Spec, ImplementsLifecycle, Lifecycle!Spec
=============================================================================
