---------------------------- MODULE OpenClawLock ----------------------------
(***************************************************************************)
(* withOpenClawCleanerSessionLock: the lock file of an OpenClaw session.   *)
(* A lock whose owner is dead may be replaced only by the winner of an     *)
(* election, a bakery held with files: a candidate publishes "choosing",   *)
(* reads every other candidate, publishes a ticket and reads again.  It    *)
(* never waits: whoever meets a choosing or an earlier candidate gives up. *)
(* A process runs one call at a time and never comes back from a crash;    *)
(* its files do not tell how old they are, so "dead for at least           *)
(* LOCK_RECOVERY_GRACE_MS" is "dead, perhaps".                             *)
(***************************************************************************)
EXTENDS Naturals, FiniteSets

CONSTANTS
  Procs,       \* processes, numbered: the order of their owner ids
  MaxTicket,   \* Number.MAX_SAFE_INTEGER, small in the model
  MaxCrashes   \* bound on the processes that die

ASSUME ProcsAssumption  == Procs \subseteq Nat \ {0}
ASSUME BoundsAssumption == MaxTicket \in Nat /\ MaxCrashes \in Nat

None == 0

VARIABLES
  main,     \* owner of the lock file, None if there is no file
  guard,    \* owner of the old-format guard file (.reclaim)
  present,  \* processes whose candidate file is in the .reclaimers directory
  ticket,   \* ticket in the candidate file, 0 while choosing
  dead,     \* processes that crashed; pc keeps where they did
  pc, todo, \* control point, and candidate files still to be read
  top       \* highest ticket read so far

files == <<main, guard, present, ticket>>
vars  == <<main, guard, present, ticket, dead, pc, todo, top>>

Elected == {"guard", "unguard", "guardAgain", "guardWrite", "check", "unlink", "reopen"}
Owning  == {"write", "action", "release", "unlock"}
Labels  == Elected \cup Owning \cup
           {"idle", "open", "join", "list", "scan", "publish", "relist", "rescan",
            "leave", "unleave", "quit"}

TypeOK ==
  /\ main \in Procs \cup {None} /\ guard \in Procs \cup {None}
  /\ present \subseteq Procs /\ dead \subseteq Procs
  /\ ticket \in [Procs -> 0..MaxTicket] /\ top \in [Procs -> 0..MaxTicket]
  /\ pc \in [Procs -> Labels] /\ todo \in [Procs -> SUBSET Procs]

Init ==
  /\ main = None /\ guard = None /\ present = {} /\ dead = {}
  /\ ticket = [p \in Procs |-> 0] /\ top = [p \in Procs |-> 0]
  /\ pc = [p \in Procs |-> "idle"] /\ todo = [p \in Procs |-> {}]

At(p, label)   == p \notin dead /\ pc[p] = label
Goto(p, label) == pc' = [pc EXCEPT ![p] = label]

\* An error anywhere after the candidate file exists: "openclaw_clean_session_busy".
GiveUp(p) == Goto(p, "leave")

-------------------------------------------------------------------------------
\* acquireOwned creates the file exclusively and then writes the owner into it.
Call(p) ==
  /\ At(p, "idle") /\ Goto(p, "open")
  /\ UNCHANGED <<files, dead, todo, top>>

OpenMain(p) ==
  /\ At(p, "open")
  /\ IF main = None THEN main' = p /\ Goto(p, "write")
                    ELSE UNCHANGED main /\ Goto(p, "join")
  /\ UNCHANGED <<guard, present, ticket, dead, todo, top>>

WriteMain(p) ==
  /\ At(p, "write")
  /\ \/ Goto(p, "action") /\ UNCHANGED main
     \/ main' = None /\ GiveUp(p)
  /\ UNCHANGED <<guard, present, ticket, dead, todo, top>>

\* Mutant: an old lock is recoverable whoever owns it.
RecoverableByAge(owner, writing) == owner # None /\ pc[owner] # writing

\* isRecoverable: the owner can be read, is dead, and the file is old enough.
Recoverable(owner, writing) == owner \in dead /\ pc[owner] # writing

-------------------------------------------------------------------------------
\* The election.
Join(p) ==
  /\ At(p, "join")
  /\ present' = present \cup {p} /\ ticket' = [ticket EXCEPT ![p] = 0]
  /\ Goto(p, "list")
  /\ UNCHANGED <<main, guard, dead, todo, top>>

\* readdir: the candidate files there are at this moment.
List(p) ==
  /\ \/ At(p, "list")   /\ Goto(p, "scan")
     \/ At(p, "relist") /\ Goto(p, "rescan")
  /\ todo' = [todo EXCEPT ![p] = present]
  /\ top'  = [top EXCEPT ![p] = 0]
  /\ UNCHANGED <<files, dead>>

\* The file of a dead candidate is removed, one that is gone is skipped.
Discard(p, q) ==
  /\ q \in dead \/ q \notin present
  /\ present' = present \ {q}
  /\ todo' = [todo EXCEPT ![p] = @ \ {q}]
  /\ UNCHANGED <<main, guard, ticket, dead, pc, top>>

ReadTicket(p, q) ==
  /\ q \in present
  /\ todo' = [todo EXCEPT ![p] = @ \ {q}]
  /\ top'  = [top EXCEPT ![p] = IF ticket[q] > @ THEN ticket[q] ELSE @]
  /\ UNCHANGED <<files, dead, pc>>

Scan(p) ==
  /\ At(p, "scan")
  /\ \/ \E q \in todo[p] : Discard(p, q) \/ ReadTicket(p, q)
     \/ todo[p] = {} /\ Goto(p, "publish") /\ UNCHANGED <<files, dead, todo, top>>

\* A ticket beyond the safe integers makes the record unreadable: nobody wins.
Publish(p) ==
  /\ At(p, "publish")
  /\ IF top[p] < MaxTicket
     THEN ticket' = [ticket EXCEPT ![p] = top[p] + 1] /\ Goto(p, "relist")
     ELSE UNCHANGED ticket /\ GiveUp(p)
  /\ UNCHANGED <<main, guard, present, dead, todo, top>>

Earlier(q, p) == ticket[q] < ticket[p] \/ (ticket[q] = ticket[p] /\ q < p)

LosesTo(p, q) == q # p /\ (ticket[q] = 0 \/ Earlier(q, p))

Compare(p, q) ==
  /\ q \in present
  /\ todo' = [todo EXCEPT ![p] = @ \ {q}]
  /\ IF LosesTo(p, q) THEN GiveUp(p) ELSE UNCHANGED pc
  /\ UNCHANGED <<files, dead, top>>

Rescan(p) ==
  /\ At(p, "rescan")
  /\ \/ \E q \in todo[p] : Discard(p, q) \/ Compare(p, q)
     \/ todo[p] = {} /\ Goto(p, "guard") /\ UNCHANGED <<files, dead, todo, top>>

-------------------------------------------------------------------------------
\* acquireRecoveryGuard: the guard older clients recover under.
OpenGuard(p) ==
  /\ \/ At(p, "guard")      /\ IF guard = None THEN Goto(p, "guardWrite")
                               ELSE \/ Recoverable(guard, "guardWrite") /\ Goto(p, "unguard")
                                    \/ GiveUp(p)
     \/ At(p, "guardAgain") /\ Goto(p, IF guard = None THEN "guardWrite" ELSE "leave")
  /\ guard' = IF guard = None THEN p ELSE guard
  /\ UNCHANGED <<main, present, ticket, dead, todo, top>>

RemoveGuard(p) ==
  /\ At(p, "unguard")
  /\ guard' = None
  /\ Goto(p, IF guard = None THEN "leave" ELSE "guardAgain")
  /\ UNCHANGED <<main, present, ticket, dead, todo, top>>

WriteGuard(p) ==
  /\ At(p, "guardWrite")
  /\ \/ Goto(p, "check") /\ UNCHANGED guard
     \/ guard' = None /\ GiveUp(p)
  /\ UNCHANGED <<main, present, ticket, dead, todo, top>>

\* The dead owner's lock is judged once more and replaced.
CheckMain(p) ==
  /\ At(p, "check")
  /\ \/ Recoverable(main, "write") /\ Goto(p, "unlink")
     \/ GiveUp(p)
  /\ UNCHANGED <<files, dead, todo, top>>

UnlinkMain(p) ==
  /\ At(p, "unlink")
  /\ main' = None /\ Goto(p, "reopen")
  /\ UNCHANGED <<guard, present, ticket, dead, todo, top>>

ReopenMain(p) ==
  /\ At(p, "reopen")
  /\ IF main = None THEN main' = p /\ Goto(p, "write")
                    ELSE UNCHANGED main /\ GiveUp(p)
  /\ UNCHANGED <<guard, present, ticket, dead, todo, top>>

-------------------------------------------------------------------------------
\* releaseOwned reads the owner and unlinks only its own file; then the guard and
\* the candidate file go.
Act(p) ==
  /\ At(p, "action") /\ Goto(p, "release")
  /\ UNCHANGED <<files, dead, todo, top>>

Release(p) ==
  /\ \/ At(p, "release") /\ Goto(p, IF main = p THEN "unlock" ELSE "leave")
     \/ At(p, "leave")   /\ Goto(p, IF guard = p THEN "unleave" ELSE "quit")
  /\ UNCHANGED <<files, dead, todo, top>>

Unlock(p) ==
  /\ At(p, "unlock")
  /\ main' = None /\ Goto(p, "leave")
  /\ UNCHANGED <<guard, present, ticket, dead, todo, top>>

DropGuard(p) ==
  /\ At(p, "unleave")
  /\ guard' = None /\ Goto(p, "quit")
  /\ UNCHANGED <<main, present, ticket, dead, todo, top>>

\* The next call of this process names its candidate file differently.
Quit(p) ==
  /\ At(p, "quit")
  /\ present' = present \ {p}
  /\ todo' = [q \in Procs |-> todo[q] \ {p}]
  /\ Goto(p, "idle")
  /\ UNCHANGED <<main, guard, ticket, dead, top>>

Crash(p) ==
  /\ p \notin dead /\ pc[p] # "idle" /\ Cardinality(dead) < MaxCrashes
  /\ dead' = dead \cup {p}
  /\ UNCHANGED <<files, pc, todo, top>>

-------------------------------------------------------------------------------
Elect(p)   == Join(p) \/ List(p) \/ Scan(p) \/ Publish(p) \/ Rescan(p)
Replace(p) == \/ OpenGuard(p) \/ RemoveGuard(p) \/ WriteGuard(p)
              \/ CheckMain(p) \/ UnlinkMain(p) \/ ReopenMain(p)
Hold(p)    == Call(p) \/ OpenMain(p) \/ WriteMain(p) \/ Act(p)
Finish(p)  == Release(p) \/ Unlock(p) \/ DropGuard(p) \/ Quit(p)

Next == \E p \in Procs : Hold(p) \/ Elect(p) \/ Replace(p) \/ Finish(p) \/ Crash(p)

Spec == Init /\ [][Next]_vars

-------------------------------------------------------------------------------
\* Among live processes at most one owns the session, and the lock file is its own
\* until it lets go: no recovery ever removes or replaces the lock of a live owner.
OwnerExclusive ==
  \A p \in Procs \ dead : pc[p] \in Owning => main = p

\* At most one live candidate is past the election, from the guard to the end of
\* its action, whatever crashes, rescans and earlier tickets came before.
OneRecoverer ==
  \A p, q \in Procs \ dead :
    /\ pc[p] \in Elected \cup Owning /\ p \in present
    /\ pc[q] \in Elected \cup Owning /\ q \in present
    => p = q

\* To those who own the session, the lock is a mutex that dies with its owner and never
\* breaks, whatever files the election leaves behind.
Owners == {p \in Procs \ dead : pc[p] \in Owning}

OwnerMutex == INSTANCE Mutex WITH Breaks <- FALSE, holders <- Owners, broken <- FALSE

ElectionIsMutex == OwnerMutex!Spec
=============================================================================
