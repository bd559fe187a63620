----------------------------- MODULE SessionLock -----------------------------
(***************************************************************************)
(* The lock directory that guards a session's rebase epochs and cleaner    *)
(* schedule (Codex), its mutation plans (host-adapter) and its schedule    *)
(* file (DeepSeek): three copies of one algorithm.  mkdir takes the lock,  *)
(* owner.json names the owner, and a lock whose owner died is removed      *)
(* under a second directory, <lock>.recovery.  All processes run on one    *)
(* host, and none stalls for staleAfterMs between mkdir and owner.json.    *)
(***************************************************************************)
CONSTANT Procs

VARIABLES
  dir,       \* the lock directory: "none", without owner file ("young", "old"),
             \* owned by a dead process ("dead"), or its live owner
  recovery,  \* <lock>.recovery exists
  pc,        \* control point of each process
  why,       \* what made a process call the lock stale: "missing", "dead", "old"
  raced      \* history: a verdict "missing" removed a lock that was not missing

vars == <<dir, recovery, pc, why, raced>>

Labels  == {"idle", "stat", "mkdir", "judge", "claim", "rejudge", "remove",
            "unclaim", "owner", "held", "unlock"}
Recovering == {"rejudge", "remove", "unclaim"}
Holding    == {"held", "unlock"}
Verdicts   == {"none", "missing", "dead", "old"}
Marks      == {"none", "young", "old", "dead"}

ASSUME ProcsAssumption == Procs \cap Marks = {}

TypeOK ==
  /\ dir \in Marks \cup Procs
  /\ recovery \in BOOLEAN /\ raced \in BOOLEAN
  /\ pc  \in [Procs -> Labels]
  /\ why \in [Procs -> Verdicts]

Init ==
  /\ dir = "none" /\ recovery = FALSE /\ raced = FALSE
  /\ pc  = [p \in Procs |-> "idle"]
  /\ why = [p \in Procs |-> "none"]

Goto(p, label) == pc' = [pc EXCEPT ![p] = label] /\ UNCHANGED why

\* A busy lock: Codex returns undefined, the other two wait and look again.
Busy(p) == Goto(p, "idle") \/ Goto(p, "stat")

-------------------------------------------------------------------------------
Call(p) ==
  /\ pc[p] = "idle" /\ Goto(p, "stat")
  /\ UNCHANGED <<dir, recovery, raced>>

StatRecovery(p) ==
  /\ pc[p] = "stat"
  /\ IF recovery THEN Busy(p) ELSE Goto(p, "mkdir")
  /\ UNCHANGED <<dir, recovery, raced>>

MakeLock(p) ==
  /\ pc[p] = "mkdir"
  /\ IF dir = "none" THEN dir' = "young" /\ Goto(p, "owner")
                     ELSE Goto(p, "judge") /\ UNCHANGED dir
  /\ UNCHANGED <<recovery, raced>>

\* lockIsStale: the owner's process is dead, or there is no owner file and the
\* directory is old, or there is no directory at all.
Verdict == CASE dir = "none" -> "missing"
             [] dir = "dead" -> "dead"
             [] dir = "old"  -> "old"
             [] OTHER        -> "none"

Judge(p) ==
  /\ pc[p] = "judge"
  /\ IF Verdict = "none" THEN Busy(p) ELSE Goto(p, "claim")
  /\ UNCHANGED <<dir, recovery, raced>>

ClaimRecovery(p) ==
  /\ pc[p] = "claim"
  /\ recovery' = TRUE
  /\ IF recovery THEN Busy(p) ELSE Goto(p, "rejudge")
  /\ UNCHANGED <<dir, raced>>

\* Mutant: the first verdict is trusted, the lock is not judged again.
RejudgeTrusting(p) ==
  /\ pc[p] = "rejudge"
  /\ why' = [why EXCEPT ![p] = "dead"]
  /\ pc'  = [pc EXCEPT ![p] = "remove"]
  /\ UNCHANGED <<dir, recovery, raced>>

Rejudge(p) ==
  /\ pc[p] = "rejudge"
  /\ why' = [why EXCEPT ![p] = Verdict]
  /\ pc'  = [pc EXCEPT ![p] = IF Verdict = "none" THEN "unclaim" ELSE "remove"]
  /\ UNCHANGED <<dir, recovery, raced>>

RemoveLock(p) ==
  /\ pc[p] = "remove"
  /\ dir' = "none"
  /\ raced' = (raced \/ (why[p] = "missing" /\ dir # "none"))
  /\ Goto(p, "unclaim")
  /\ UNCHANGED recovery

DropRecovery(p) ==
  /\ pc[p] = "unclaim"
  /\ recovery' = FALSE
  /\ why' = [why EXCEPT ![p] = "none"]
  /\ \E label \in {"stat", "idle"} : pc' = [pc EXCEPT ![p] = label]
  /\ UNCHANGED <<dir, raced>>

\* owner.json is created with "wx"; if that fails the directory is removed.
WriteOwner(p) ==
  /\ pc[p] = "owner"
  /\ \/ dir \in {"young", "old"} /\ dir' = p /\ Goto(p, "held")
     \/ dir' = "none" /\ Goto(p, "idle")
  /\ UNCHANGED <<recovery, raced>>

\* release: only the owner named in the file removes the directory.
Release(p) ==
  /\ pc[p] = "held"
  /\ Goto(p, IF dir = p THEN "unlock" ELSE "idle")
  /\ UNCHANGED <<dir, recovery, raced>>

Unlock(p) ==
  /\ pc[p] = "unlock"
  /\ dir' = "none" /\ Goto(p, "idle")
  /\ UNCHANGED <<recovery, raced>>

\* The process dies and another one takes its place; what it made stays.
Crash(p) ==
  /\ pc[p] # "idle"
  /\ dir' = IF dir = p THEN "dead" ELSE dir
  /\ pc'  = [pc EXCEPT ![p] = "idle"]
  /\ why' = [why EXCEPT ![p] = "none"]
  /\ UNCHANGED <<recovery, raced>>

\* staleAfterMs pass for a directory whose maker died before naming an owner.
Age ==
  /\ dir = "young" /\ \A p \in Procs : pc[p] # "owner"
  /\ dir' = "old"
  /\ UNCHANGED <<recovery, pc, why, raced>>

Acquire(p) == \/ Call(p) \/ StatRecovery(p) \/ MakeLock(p) \/ Judge(p)
              \/ ClaimRecovery(p) \/ Rejudge(p) \/ RemoveLock(p)
              \/ DropRecovery(p) \/ WriteOwner(p)

Next ==
  \/ \E p \in Procs : Acquire(p) \/ Release(p) \/ Unlock(p) \/ Crash(p)
  \/ Age

Spec == Init /\ [][Next]_vars

-------------------------------------------------------------------------------
\* Two processes never hold the session lock at once.
MutualExclusion ==
  \A p, q \in Procs : pc[p] \in Holding /\ pc[q] \in Holding => p = q

\* The only way to two holders, or to a holder whose directory is gone, is a lock
\* that was created between a verdict "missing" and the removal it led to: deaths,
\* releases and recoveries in any other order keep the lock exclusive.
OnlyMissingVerdictsRace ==
  raced \/ /\ MutualExclusion
           /\ \A p \in Procs : pc[p] \in Holding => dir = p

\* To those who hold it, the lock is a mutex that dies with its holder, until a verdict
\* "missing" has removed a lock.
Holders == {p \in Procs : pc[p] \in Holding}

LockMutex == INSTANCE Mutex WITH Breaks <- TRUE, holders <- Holders, broken <- raced

LockIsMutex == LockMutex!Spec
=============================================================================
