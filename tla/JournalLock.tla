------------------------------ MODULE JournalLock -------------------------------
(***************************************************************************)
(* The lock file of a session's context-history journal.  It is created    *)
(* with "wx" and then told its owner; one whose owner died is renamed away *)
(* under a second file, <lock>.recovery.  Unlike the lock directories of   *)
(* SessionLock, a recovery file can itself be taken away: from a dead      *)
(* owner at once, from a live one after recoveryStaleAfterMs.  Renaming    *)
(* takes whatever file is there, so who takes one looks at it again, and   *)
(* puts it back.                                                           *)
(*                                                                         *)
(* A file's token is modelled by its owner: a process works with one file  *)
(* at a time, and one it is done with, or died with, is nobody's.  All     *)
(* processes run on one host, and none stalls for staleAfterMs between     *)
(* creating a file and naming its owner.                                   *)
(***************************************************************************)
EXTENDS Naturals

CONSTANTS JlProcs, JlNobody,
          JlLeft, JlDead   \* owner that is done with a file, that died with it

ASSUME JournalLockAssumption ==
  /\ JlNobody # JlLeft /\ JlNobody # JlDead /\ JlLeft # JlDead
  /\ {JlNobody, JlLeft, JlDead} \cap JlProcs = {}

VARIABLES jlLock, jlRecovery,  \* the file at each path
          jlClaimed,  \* the file a process took from the recovery path
          jlPc,       \* control point of each process,
          jlNext,     \* where it goes on when the recovery path is free
          jlTaken     \* history: a recovery file was taken, or overwritten, in use

jlPaths == <<jlLock, jlRecovery, jlClaimed>>
jlVars  == <<jlLock, jlRecovery, jlClaimed, jlPc, jlNext, jlTaken>>

-------------------------------------------------------------------------------
\* named: says who owns it; old: older than the time after which it is stale.
JlFiles  == [of : JlProcs \cup {JlNobody, JlLeft, JlDead}, named : BOOLEAN, old : BOOLEAN]
JlNoFile == [of |-> JlNobody, named |-> FALSE, old |-> FALSE]
JlNew(p) == [of |-> p, named |-> FALSE, old |-> FALSE]
JlThere(f) == f.of # JlNobody

JlHolding    == {"held", "unlock"}
JlLabels     == {"idle", "stat", "open", "restat", "judge", "claim", "owner", "taking",
                 "take", "check", "name", "rejudge", "remove", "unclaim", "drop"}
                \cup JlHolding

JournalLockTypeOK ==
  /\ jlLock \in JlFiles /\ jlRecovery \in JlFiles
  /\ jlClaimed \in [JlProcs -> JlFiles]
  /\ jlPc      \in [JlProcs -> JlLabels]
  /\ jlNext    \in [JlProcs -> {"open", "judge"}]
  /\ jlTaken   \in BOOLEAN

JournalLockInit ==
  /\ jlLock    = JlNoFile /\ jlRecovery = JlNoFile
  /\ jlClaimed = [p \in JlProcs |-> JlNoFile]
  /\ jlPc      = [p \in JlProcs |-> "idle"]
  /\ jlNext    = [p \in JlProcs |-> "open"]
  /\ jlTaken   = FALSE

JlGoto(p, label) == jlPc' = [jlPc EXCEPT ![p] = label]

\* p is done with its file, wherever that is by now.
JlAbandon(p, f) == IF f.of = p THEN [f EXCEPT !.of = JlLeft] ELSE f
JlOthers(p) == jlClaimed' = [q \in JlProcs |-> JlAbandon(p, jlClaimed[q])]

\* The owner is written into the file of p, which may have been moved.
JlWith(p, f) == IF f.of = p THEN [f EXCEPT !.named = TRUE] ELSE f

\* lockIsStale; a path without a file is not stale.  Only a recovery file goes stale
\* while its owner lives.
JlStale(f, expires) ==
  /\ JlThere(f)
  /\ IF f.named THEN f.of = JlDead \/ (expires /\ f.old) ELSE f.old

-------------------------------------------------------------------------------
JlCall(p) ==
  /\ jlPc[p] = "idle"
  /\ JlGoto(p, "stat")
  /\ UNCHANGED <<jlPaths, jlNext, jlTaken>>

\* The recovery path is looked at before the lock is created, and again after that
\* failed.
JlStat(p) ==
  /\ jlPc[p] \in {"stat", "restat"}
  /\ LET next == IF jlPc[p] = "stat" THEN "open" ELSE "judge"
     IN  IF JlThere(jlRecovery)
         THEN JlGoto(p, "taking") /\ jlNext' = [jlNext EXCEPT ![p] = next]
         ELSE JlGoto(p, next) /\ UNCHANGED jlNext
  /\ UNCHANGED <<jlPaths, jlTaken>>

JlOpen(p) ==
  /\ jlPc[p] = "open"
  /\ IF JlThere(jlLock) THEN JlGoto(p, "restat") /\ UNCHANGED jlLock
                        ELSE JlGoto(p, "owner") /\ jlLock' = JlNew(p)
  /\ UNCHANGED <<jlRecovery, jlClaimed, jlNext, jlTaken>>

\* A write that fails takes the lock path away, whatever file is there.
JlOwner(p) ==
  /\ jlPc[p] = "owner"
  /\ \/ jlLock' = JlWith(p, jlLock) /\ JlGoto(p, "held")
     \/ jlLock' = JlNoFile /\ JlGoto(p, "idle")
  /\ UNCHANGED <<jlRecovery, jlClaimed, jlNext, jlTaken>>

JlJudge(p) ==
  /\ jlPc[p] = "judge"
  /\ JlGoto(p, IF JlStale(jlLock, FALSE) THEN "claim" ELSE "idle")
  /\ UNCHANGED <<jlPaths, jlNext, jlTaken>>

-------------------------------------------------------------------------------
\* Recovery of the lock.
JlClaim(p) ==
  /\ jlPc[p] = "claim"
  /\ IF JlThere(jlRecovery) THEN JlGoto(p, "idle") /\ UNCHANGED jlRecovery
                            ELSE JlGoto(p, "name") /\ jlRecovery' = JlNew(p)
  /\ UNCHANGED <<jlLock, jlClaimed, jlNext, jlTaken>>

\* A write that fails leaves the recovery file without an owner.
JlName(p) ==
  /\ jlPc[p] = "name"
  /\ \/ /\ JlGoto(p, "rejudge")
        /\ jlRecovery' = JlWith(p, jlRecovery)
        /\ jlClaimed'  = [q \in JlProcs |-> JlWith(p, jlClaimed[q])]
     \/ /\ JlGoto(p, "idle")
        /\ jlRecovery' = JlAbandon(p, jlRecovery)
        /\ JlOthers(p)
  /\ UNCHANGED <<jlLock, jlNext, jlTaken>>

\* Mutant: the first verdict is trusted.
JlRejudgeTrusting(p) ==
  /\ jlPc[p] = "rejudge"
  /\ JlGoto(p, "remove")
  /\ UNCHANGED <<jlPaths, jlNext, jlTaken>>

JlRejudge(p) ==
  /\ jlPc[p] = "rejudge"
  /\ JlGoto(p, IF JlStale(jlLock, FALSE) THEN "remove" ELSE "unclaim")
  /\ UNCHANGED <<jlPaths, jlNext, jlTaken>>

JlRemove(p) ==
  /\ jlPc[p] = "remove"
  /\ jlLock' = JlNoFile
  /\ JlGoto(p, "unclaim")
  /\ UNCHANGED <<jlRecovery, jlClaimed, jlNext, jlTaken>>

\* After the first of two attempts the lock is tried again.
JlRetries(p) == JlGoto(p, "idle") \/ JlGoto(p, "stat")

\* releaseOwnedLockPath: the token is compared, then the path is renamed away.
JlUnclaim(p) ==
  /\ jlPc[p] = "unclaim"
  /\ IF jlRecovery.of = p THEN JlGoto(p, "drop") /\ UNCHANGED jlClaimed
                          ELSE JlRetries(p) /\ JlOthers(p)
  /\ UNCHANGED <<jlLock, jlRecovery, jlNext, jlTaken>>

JlDrop(p) ==
  /\ jlPc[p] = "drop"
  /\ jlRecovery' = JlNoFile
  /\ JlRetries(p) /\ JlOthers(p)
  /\ UNCHANGED <<jlLock, jlNext, jlTaken>>

-------------------------------------------------------------------------------
\* reclaimStaleLockPath: judge the recovery file, rename it away, judge what came along,
\* and remove it or put it back over whatever is there by then.
JlReclaim(p) ==
  /\ jlPc[p] = "taking"
  /\ JlGoto(p, IF JlStale(jlRecovery, TRUE) THEN "take" ELSE "idle")
  /\ UNCHANGED <<jlPaths, jlNext, jlTaken>>

JlTake(p) ==
  /\ jlPc[p] = "take"
  /\ JlGoto(p, IF JlThere(jlRecovery) THEN "check" ELSE "idle")
  /\ jlClaimed'  = [jlClaimed EXCEPT ![p] = jlRecovery]
  /\ jlRecovery' = JlNoFile
  /\ jlTaken'    = (jlTaken \/ jlRecovery.of \in JlProcs)
  /\ UNCHANGED <<jlLock, jlNext>>

JlCheck(p) ==
  /\ jlPc[p] = "check"
  /\ IF JlStale(jlClaimed[p], TRUE)
     THEN JlGoto(p, jlNext[p]) /\ UNCHANGED <<jlRecovery, jlTaken>>
     ELSE /\ JlGoto(p, "idle")
          /\ jlRecovery' = jlClaimed[p]
          /\ jlTaken'    = (jlTaken \/ jlRecovery.of \in JlProcs)
  /\ jlClaimed' = [jlClaimed EXCEPT ![p] = JlNoFile]
  /\ jlNext'    = [jlNext EXCEPT ![p] = "open"]
  /\ UNCHANGED jlLock

-------------------------------------------------------------------------------
JlRelease(p) ==
  /\ jlPc[p] = "held"
  /\ JlGoto(p, IF jlLock.of = p THEN "unlock" ELSE "idle")
  /\ UNCHANGED <<jlPaths, jlNext, jlTaken>>

JlUnlock(p) ==
  /\ jlPc[p] = "unlock"
  /\ jlLock' = JlNoFile
  /\ JlGoto(p, "idle")
  /\ UNCHANGED <<jlRecovery, jlClaimed, jlNext, jlTaken>>

\* The process dies and another one takes its place; the files it made stay, perhaps with
\* one that it was done with, and what it took is litter.
JlCrash(p) ==
  /\ jlPc[p] # "idle"
  /\ \E gone \in {{p}, {p, JlLeft}} :
       LET after(f) == IF f.of \in gone THEN [f EXCEPT !.of = JlDead] ELSE f
       IN  /\ jlLock'     = after(jlLock)
           /\ jlRecovery' = after(jlRecovery)
           /\ jlClaimed'  = [q \in JlProcs |-> IF q = p THEN JlNoFile ELSE after(jlClaimed[q])]
  /\ JlGoto(p, "idle")
  /\ jlNext' = [jlNext EXCEPT ![p] = "open"]
  /\ UNCHANGED jlTaken

\* A file that will never be named grows old, and so does the recovery file of a
\* process that is slow.
JlAge ==
  /\ \/ /\ JlThere(jlLock) /\ ~jlLock.named /\ jlLock.of \notin JlProcs
        /\ jlLock' = [jlLock EXCEPT !.old = TRUE]
        /\ UNCHANGED jlRecovery
     \/ /\ JlThere(jlRecovery) /\ (jlRecovery.named \/ jlRecovery.of \notin JlProcs)
        /\ jlRecovery' = [jlRecovery EXCEPT !.old = TRUE]
        /\ UNCHANGED jlLock
  /\ UNCHANGED <<jlClaimed, jlPc, jlNext, jlTaken>>

JournalLockNext ==
  \/ \E p \in JlProcs :
       \/ JlCall(p) \/ JlStat(p) \/ JlOpen(p) \/ JlOwner(p) \/ JlJudge(p) \/ JlClaim(p)
       \/ JlName(p) \/ JlRejudge(p) \/ JlRemove(p) \/ JlUnclaim(p) \/ JlDrop(p)
       \/ JlReclaim(p) \/ JlTake(p) \/ JlCheck(p) \/ JlRelease(p) \/ JlUnlock(p)
       \/ JlCrash(p)
  \/ JlAge

JournalLockSpec == JournalLockInit /\ [][JournalLockNext]_jlVars

-------------------------------------------------------------------------------
\* Two processes never write the journal at once, and the one that does has its lock
\* file in place, unless a recovery file was taken, or another one put back over it, while
\* its owner was using it.
JournalLockExclusive ==
  jlTaken \/ \A p \in JlProcs : jlPc[p] \in JlHolding =>
               /\ jlLock.of = p
               /\ \A q \in JlProcs : jlPc[q] \in JlHolding => p = q

\* To those who write the journal, its lock is a mutex that dies with its holder, until a
\* recovery file is taken from the process that uses it.
JlHolders == {p \in JlProcs : jlPc[p] \in JlHolding}

JlMutex == INSTANCE Mutex WITH
  Procs <- JlProcs, Breaks <- TRUE, holders <- JlHolders, broken <- jlTaken

JournalLockIsMutex == JlMutex!Spec
================================================================================
