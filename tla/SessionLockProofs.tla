-------------------------- MODULE SessionLockProofs --------------------------
(***************************************************************************)
(* Mutual exclusion of the session lock, for every set of processes, as    *)
(* long as no verdict "missing" has removed a lock.                        *)
(***************************************************************************)
EXTENDS SessionLock, TLAPS

\* The recovery directory is held by at most one live process.
RecoveryExclusive ==
  \A p, q \in Procs :
    /\ pc[p] \in Recovering => recovery
    /\ pc[p] \in Recovering /\ pc[q] \in Recovering => p = q

\* The lock directory is what the control points say it is.
DirOK ==
  \A p \in Procs :
    /\ pc[p] \in Holding  => dir = p
    /\ pc[p] = "owner"    => dir = "young"
    /\ pc[p] = "remove"   => why[p] \in {"missing", "dead", "old"}
    /\ pc[p] = "remove" /\ why[p] \in {"dead", "old"} => dir = why[p]

OneMaker == \A p, q \in Procs : pc[p] = "owner" /\ pc[q] = "owner" => p = q

IInv == TypeOK /\ RecoveryExclusive /\ (raced \/ (DirOK /\ OneMaker))

LEMMA InitIInv == Init => IInv
BY DEF Init, IInv, TypeOK, RecoveryExclusive, DirOK, OneMaker, Labels, Verdicts,
       Marks, Recovering, Holding

\* Moving to a label keeps the types.
LEMMA StepTyped == TypeOK /\ [Next]_vars => TypeOK'
<1> SUFFICES ASSUME TypeOK, [Next]_vars PROVE TypeOK'
  OBVIOUS
<1> USE DEF TypeOK, Labels, Verdicts, Marks
<1>1. ASSUME NEW p \in Procs, Acquire(p) PROVE TypeOK'
  BY <1>1 DEF Acquire, Call, StatRecovery, MakeLock, Judge, ClaimRecovery, Rejudge,
     RemoveLock, DropRecovery, WriteOwner, Goto, Busy, Verdict
<1>2. ASSUME NEW p \in Procs, Release(p) \/ Unlock(p) \/ Crash(p) PROVE TypeOK'
  BY <1>2 DEF Release, Unlock, Crash, Goto
<1>3. CASE Age
  BY <1>3 DEF Age
<1>4. CASE UNCHANGED vars
  BY <1>4 DEF vars
<1> QED
  BY <1>1, <1>2, <1>3, <1>4 DEF Next

LEMMA StepRecovery == TypeOK /\ RecoveryExclusive /\ [Next]_vars => RecoveryExclusive'
<1> SUFFICES ASSUME TypeOK, RecoveryExclusive, [Next]_vars PROVE RecoveryExclusive'
  OBVIOUS
<1> USE DEF TypeOK, RecoveryExclusive, Recovering
<1>1. ASSUME NEW p \in Procs,
             Call(p) \/ StatRecovery(p) \/ MakeLock(p) \/ Judge(p) \/ WriteOwner(p)
      PROVE  RecoveryExclusive'
  BY <1>1 DEF Call, StatRecovery, MakeLock, Judge, WriteOwner, Goto, Busy
<1>2. ASSUME NEW p \in Procs, ClaimRecovery(p) PROVE RecoveryExclusive'
  BY <1>2 DEF ClaimRecovery, Goto, Busy
<1>3. ASSUME NEW p \in Procs, Rejudge(p) \/ RemoveLock(p) \/ DropRecovery(p)
      PROVE  RecoveryExclusive'
  BY <1>3 DEF Rejudge, RemoveLock, DropRecovery, Goto
<1>4. ASSUME NEW p \in Procs, Release(p) \/ Unlock(p) \/ Crash(p)
      PROVE  RecoveryExclusive'
  BY <1>4 DEF Release, Unlock, Crash, Goto
<1>5. CASE Age
  BY <1>5 DEF Age
<1>6. CASE UNCHANGED vars
  BY <1>6 DEF vars
<1> QED
  BY <1>1, <1>2, <1>3, <1>4, <1>5, <1>6 DEF Next, Acquire

\* The heart of it: without a race the lock belongs to whoever the labels say.
LEMMA StepDir ==
  IInv /\ [Next]_vars => raced' \/ (DirOK' /\ OneMaker')
<1> SUFFICES ASSUME IInv, [Next]_vars, ~raced' PROVE DirOK' /\ OneMaker'
  OBVIOUS
<1>0. ~raced
  BY DEF IInv, TypeOK, Next, vars, Acquire, Call, StatRecovery, MakeLock, Judge,
     ClaimRecovery, Rejudge, RemoveLock, DropRecovery, WriteOwner, Release, Unlock,
     Crash, Age
<1> USE <1>0, ProcsAssumption DEF IInv, TypeOK, RecoveryExclusive, DirOK, OneMaker,
     Holding, Recovering, Marks
<1>1. ASSUME NEW p \in Procs, Call(p) \/ StatRecovery(p) \/ Judge(p)
      PROVE  DirOK' /\ OneMaker'
  BY <1>1 DEF Call, StatRecovery, Judge, Goto, Busy
<1>2. ASSUME NEW p \in Procs, MakeLock(p) PROVE DirOK' /\ OneMaker'
  BY <1>2 DEF MakeLock, Goto
<1>3. ASSUME NEW p \in Procs, ClaimRecovery(p) PROVE DirOK' /\ OneMaker'
  BY <1>3 DEF ClaimRecovery, Goto, Busy
<1>4. ASSUME NEW p \in Procs, Rejudge(p) PROVE DirOK' /\ OneMaker'
  BY <1>4 DEF Rejudge, Verdict
<1>5. ASSUME NEW p \in Procs, RemoveLock(p) PROVE DirOK' /\ OneMaker'
  <2>1. dir \in {"none", "dead", "old"}
    BY <1>5 DEF RemoveLock
  <2> QED
    BY <1>5, <2>1 DEF RemoveLock, Goto
<1>6. ASSUME NEW p \in Procs, DropRecovery(p) PROVE DirOK' /\ OneMaker'
  BY <1>6 DEF DropRecovery
<1>7. ASSUME NEW p \in Procs, WriteOwner(p) PROVE DirOK' /\ OneMaker'
  <2>1. dir = "young"
    BY <1>7 DEF WriteOwner
  <2> QED
    BY <1>7, <2>1 DEF WriteOwner, Goto
<1>8. ASSUME NEW p \in Procs, Release(p) PROVE DirOK' /\ OneMaker'
  BY <1>8 DEF Release, Goto
<1>9. ASSUME NEW p \in Procs, Unlock(p) PROVE DirOK' /\ OneMaker'
  BY <1>9 DEF Unlock, Goto
<1>10. ASSUME NEW p \in Procs, Crash(p) PROVE DirOK' /\ OneMaker'
  BY <1>10 DEF Crash
<1>11. CASE Age
  BY <1>11 DEF Age
<1>12. CASE UNCHANGED vars
  BY <1>12 DEF vars
<1> QED
  BY <1>1, <1>2, <1>3, <1>4, <1>5, <1>6, <1>7, <1>8, <1>9, <1>10, <1>11, <1>12
     DEF Next, Acquire

\* Every reachable state of the lock satisfies the inductive invariant.
THEOREM LockInvariance == Spec => []IInv
<1>1. Init => IInv
  BY InitIInv
<1>2. IInv /\ [Next]_vars => IInv'
  BY StepTyped, StepRecovery, StepDir DEF IInv
<1> QED
  BY <1>1, <1>2, PTL DEF Spec

\* Two holders, or a holder without its directory, need a removal that followed a
\* verdict "missing" (lockIsStale returns true when stat finds nothing).
THEOREM ExclusiveUnlessRaced == Spec => []OnlyMissingVerdictsRace
<1>1. IInv => OnlyMissingVerdictsRace
  BY ProcsAssumption DEF IInv, DirOK, OnlyMissingVerdictsRace, MutualExclusion
<1> QED
  BY <1>1, LockInvariance, PTL

\* The lock directory, its recovery directory and the control points are always of
\* their types (tryAcquireLock, recoverStaleLock), for any number of processes.
THEOREM LockTypeCorrect == Spec => []TypeOK
<1>1. IInv => TypeOK
  BY DEF IInv
<1> QED
  BY <1>1, LockInvariance, PTL

-------------------------------------------------------------------------------
\* One step moves the control point of one process at most, and when it comes to hold the
\* lock it was the one whose directory was there to be named.
LEMMA StepHolders ==
  IInv /\ [Next]_vars => [LockMutex!Next]_(LockMutex!vars)
<1> SUFFICES ASSUME IInv, Next PROVE [LockMutex!Next]_(LockMutex!vars)
  BY DEF vars, Holders, LockMutex!vars
<1> USE DEF LockMutex!vars, LockMutex!Next, Holders
<1>1. ASSUME NEW p \in Procs,
             \/ Call(p) \/ StatRecovery(p) \/ MakeLock(p) \/ Judge(p) \/ ClaimRecovery(p)
             \/ Rejudge(p) \/ DropRecovery(p) \/ Release(p)
      PROVE  LockMutex!LetGo(p) \/ UNCHANGED <<Holders, raced>>
  BY <1>1 DEF IInv, TypeOK, Holding, Call, StatRecovery, MakeLock, Judge, ClaimRecovery,
     Rejudge, DropRecovery, Release, Goto, Busy, LockMutex!LetGo
<1>2. ASSUME NEW p \in Procs, Unlock(p) \/ Crash(p)
      PROVE  LockMutex!LetGo(p) \/ UNCHANGED <<Holders, raced>>
  BY <1>2 DEF IInv, TypeOK, Holding, Unlock, Crash, Goto, LockMutex!LetGo
<1>3. ASSUME NEW p \in Procs, RemoveLock(p)
      PROVE  UNCHANGED Holders /\ raced' \in {raced, TRUE}
  BY <1>3 DEF IInv, TypeOK, Holding, RemoveLock, Goto
<1>4. ASSUME NEW p \in Procs, WriteOwner(p)
      PROVE  LockMutex!Take(p) \/ UNCHANGED <<Holders, raced>>
  <2>1. CASE pc' = [pc EXCEPT ![p] = "held"]
    <3>1. raced \/ Holders = {}
      BY <1>4, ProcsAssumption DEF IInv, TypeOK, DirOK, WriteOwner, Holding, Marks
    <3>2. Holders' = Holders \cup {p} /\ UNCHANGED raced
      BY <1>4, <2>1 DEF IInv, TypeOK, Holding, WriteOwner
    <3> QED
      BY <3>1, <3>2 DEF LockMutex!Take
  <2>2. CASE pc' = [pc EXCEPT ![p] = "idle"]
    BY <1>4, <2>2 DEF IInv, TypeOK, Holding, WriteOwner
  <2> QED
    BY <1>4, <2>1, <2>2 DEF WriteOwner, Goto
<1>5. CASE Age
  BY <1>5 DEF Age
<1> QED
  BY <1>1, <1>2, <1>3, <1>4, <1>5
  DEF Next, Acquire, LockMutex!Break

\* The session lock is the mutex CodexClean, DshClean, CodexLifecycle and ClaudePlans take it
\* for, for any number of processes, until lockIsStale's verdict "missing" removes one.
THEOREM DirectoryIsMutex == Spec => LockIsMutex
<1>1. Init => LockMutex!Init
  BY DEF Init, LockMutex!Init, Holders, Holding
<1> QED
  BY <1>1, LockInvariance, StepHolders, PTL DEF Spec, LockIsMutex, LockMutex!Spec
=============================================================================
