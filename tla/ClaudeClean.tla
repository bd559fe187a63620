------------------------------ MODULE ClaudeClean ------------------------------
(***************************************************************************)
(* Clean plans of one session of Claude Code.  The host keeps a journal of *)
(* schedules under a lock file of its own.  The next request of the        *)
(* gateway takes the lock, removes the selected items from the request it  *)
(* forwards and keeps the lock until the answer: an accepted request is    *)
(* recorded as applied, then the lock is released, then the journal is     *)
(* closed, under the lock again.                                           *)
(*                                                                         *)
(* A client is one operation in flight: an approval of the CLI or a        *)
(* request of the gateway.  A receipt transition is one step, by           *)
(* CleanStore's refinement of CleanLifecycle; the lock file is not: it is  *)
(* judged by its age and unlinked in two steps, read and unlinked in two.  *)
(***************************************************************************)
EXTENDS Naturals, CleanContracts

CONSTANTS ClClients,   \* operations in flight
          ClPlans,     \* clean plans of the session
          ClNone,
          ClMaxFaults  \* bound on crashes, failed writes and holders that outstay the lock

ASSUME ClaudeCleanAssumption ==
  /\ ClNone \notin ClPlans \cup ClClients
  /\ {"free", "dead"} \cap ClClients = {}
  /\ ClMaxFaults \in Nat

VARIABLES clReceipt,   \* status of the shared receipt of each plan
          clJournal,   \* latest accepted record of each plan
          clMalformed, \* a line of the journal that its readers do not accept
          clLock,      \* owner of the lock file
          clAged,      \* the lock file is older than 30 minutes
          clStolen,    \* somebody unlinked the lock of a live owner (history)
          clAccepted,  \* plans with an overlay the upstream accepted (history)
          clLost,      \* applied plans whose journal entry was not written (history)
          clPc,        \* control point of each operation
          clLoc,       \* its plan, errand, result and what follows the release
          clFaults

clDisk == <<clReceipt, clJournal, clMalformed>>
clFile == <<clLock, clAged, clStolen>>
clPast == <<clAccepted, clLost>>
clProc == <<clPc, clLoc>>
clVars == <<clReceipt, clJournal, clMalformed, clLock, clAged, clStolen,
            clAccepted, clLost, clPc, clLoc, clFaults>>

-------------------------------------------------------------------------------
ClaudeEnded   == Terminal \ {"applied"}
ClaudeEntries == {"none", "scheduled", "committed"} \cup ClaudeEnded

\* An owner that crashed leaves its file behind.
ClaudeOwners == ClClients \cup {"free", "dead"}

ClaudeLabels == {"idle", "lock", "break", "read", "append", "publish", "prepare", "overlay",
                 "upstream", "settle", "release", "unlink", "record"}

\* Errands that need the lock: write a schedule, run one, close one.
ClaudeErrands == {"none", "write", "run", "close"}

ClaudeLocal == [plan : ClPlans \cup {ClNone}, errand : ClaudeErrands,
                result : Terminal \cup {"none"}, next : ClaudeLabels]

ClaudeIdle == [plan |-> ClNone, errand |-> "none", result |-> "none", next |-> "idle"]

ClaudeTypeOK ==
  /\ clReceipt   \in [ClPlans -> Status]
  /\ clJournal   \in [ClPlans -> ClaudeEntries]
  /\ clMalformed \in BOOLEAN
  /\ clLock      \in ClaudeOwners
  /\ clAged      \in BOOLEAN
  /\ clStolen    \in BOOLEAN
  /\ clAccepted  \subseteq ClPlans
  /\ clLost      \subseteq ClPlans
  /\ clPc        \in [ClClients -> ClaudeLabels]
  /\ clLoc       \in [ClClients -> ClaudeLocal]
  /\ clFaults    \in 0..ClMaxFaults

ClaudeInit ==
  /\ clReceipt   = [q \in ClPlans |-> "analyzed"]
  /\ clJournal   = [q \in ClPlans |-> "none"]
  /\ clMalformed = FALSE
  /\ clLock      = "free"
  /\ clAged      = FALSE
  /\ clStolen    = FALSE
  /\ clAccepted  = {}
  /\ clLost      = {}
  /\ clPc        = [p \in ClClients |-> "idle"]
  /\ clLoc       = [p \in ClClients |-> ClaudeIdle]
  /\ clFaults    = 0

-------------------------------------------------------------------------------
ClaudeGo(p, label, l) ==
  /\ clPc'  = [clPc  EXCEPT ![p] = label]
  /\ clLoc' = [clLoc EXCEPT ![p] = l]

ClaudeLeave(p) == ClaudeGo(p, "idle", ClaudeIdle)

\* Drop the lock, and go on with what is left to do.
ClaudeRelease(p, label, l) == ClaudeGo(p, "release", [l EXCEPT !.next = label])

ClaudePlan(p) == clLoc[p].plan
ClaudeSays(p) == clReceipt[ClaudePlan(p)]

\* The local state of an operation that is to close the schedule with s.
ClaudeClosing(p, s) == [clLoc[p] EXCEPT !.errand = "close", !.result = s]

ClaudeSetReceipt(q, s) == clReceipt' = [clReceipt EXCEPT ![q] = s]

\* readClaudeCleanerSchedule: one open schedule in a journal without a bad line.
ClaudeReady(q) ==
  /\ ~clMalformed
  /\ {r \in ClPlans : clJournal[r] = "scheduled"} = {q}

-------------------------------------------------------------------------------
\* approveCleanSelection: approved, or the state an earlier approval has reached.
ClaudeApprove(p) ==
  /\ clPc[p] = "idle"
  /\ \E q \in ClPlans :
       /\ clReceipt[q] \in {"analyzed", "approved", "scheduled"}
       /\ IF clReceipt[q] = "analyzed" THEN ClaudeSetReceipt(q, "approved")
                                       ELSE UNCHANGED clReceipt
       /\ ClaudeGo(p, "lock", [ClaudeIdle EXCEPT !.plan = q, !.errand = "write"])
  /\ UNCHANGED <<clJournal, clMalformed, clFile, clPast, clFaults>>

\* A request of the gateway reads the journal once before it asks for the lock.
ClaudeRequest(p) ==
  /\ clPc[p] = "idle"
  /\ \E q \in ClPlans :
       /\ ClaudeReady(q)
       /\ ClaudeGo(p, "lock", [ClaudeIdle EXCEPT !.plan = q, !.errand = "run"])
  /\ UNCHANGED <<clDisk, clFile, clPast, clFaults>>

\* A request that finds no open schedule, or a bad line, is forwarded as it is.
ClaudeForward(p) ==
  /\ clPc[p] = "idle" /\ \A q \in ClPlans : ~ClaudeReady(q)
  /\ UNCHANGED clVars

\* cancel of the control service: the shared receipt, not the journal.
ClaudeCancel ==
  /\ \E q \in ClPlans :
       <<clReceipt[q], "cancelled">> \in Transitions /\ ClaudeSetReceipt(q, "cancelled")
  /\ UNCHANGED <<clJournal, clMalformed, clFile, clPast, clProc, clFaults>>

-------------------------------------------------------------------------------
ClaudeAcquire(p) ==
  /\ clPc[p] = "lock" /\ clLock = "free"
  /\ clLock' = p /\ clAged' = FALSE
  /\ ClaudeGo(p, "read", clLoc[p])
  /\ UNCHANGED <<clDisk, clStolen, clPast, clFaults>>

\* The marker of an applied plan is not written, and nobody will write it.
ClaudeGiveUp(p) ==
  clLost' = IF clLoc[p].errand = "close" /\ clLoc[p].result = "applied"
            THEN clLost \cup {ClaudePlan(p)} ELSE clLost

\* The owner is gone, or waits for the upstream: a second is not enough.
ClaudeOwnerStays ==
  clLock = "dead" \/ (clLock \in ClClients /\ clPc[clLock] = "upstream")

ClaudeBusy(p) ==
  /\ clPc[p] = "lock" /\ ClaudeOwnerStays /\ ~clAged
  /\ ClaudeGiveUp(p) /\ ClaudeLeave(p)
  /\ UNCHANGED <<clDisk, clFile, clAccepted, clFaults>>

\* stat finds an old file ...
ClaudeJudge(p) ==
  /\ clPc[p] = "lock" /\ clLock # "free" /\ clAged
  /\ ClaudeGo(p, "break", clLoc[p])
  /\ UNCHANGED <<clDisk, clFile, clPast, clFaults>>

\* A lock file goes; it need not be the one that was looked at.
ClaudeUnlink(p) ==
  /\ clLock' = "free" /\ clAged' = FALSE
  /\ clStolen' = (clStolen \/ clLock \in ClClients \ {p})

\* ... and unlink removes whatever is there by then.
ClaudeBreak(p) ==
  /\ clPc[p] = "break"
  /\ ClaudeUnlink(p)
  /\ ClaudeGo(p, "lock", clLoc[p])
  /\ UNCHANGED <<clDisk, clPast, clFaults>>

\* release(): the token is compared ...
ClaudeCompare(p) ==
  /\ clPc[p] = "release"
  /\ IF clLock = p THEN ClaudeGo(p, "unlink", clLoc[p])
     ELSE ClaudeGo(p, clLoc[p].next, [clLoc[p] EXCEPT !.next = "idle"])
  /\ UNCHANGED <<clDisk, clFile, clPast, clFaults>>

\* ... and then the file goes.
ClaudeDrop(p) ==
  /\ clPc[p] = "unlink"
  /\ ClaudeUnlink(p)
  /\ ClaudeGo(p, clLoc[p].next, [clLoc[p] EXCEPT !.next = "idle"])
  /\ UNCHANGED <<clDisk, clPast, clFaults>>

-------------------------------------------------------------------------------
\* Mutant: a second plan is scheduled beside an open one.
ClaudeVacantForAny(q) == ~clMalformed /\ clJournal[q] = "none"

\* scheduleClaudeCleanerPlan: no record of the plan and no open schedule.
ClaudeVacant(q) ==
  /\ ~clMalformed /\ clJournal[q] = "none"
  /\ \A r \in ClPlans : clJournal[r] # "scheduled"

\* The journal as the owner of the lock finds it.
ClaudeRead(p) ==
  LET q == ClaudePlan(p) IN
  /\ clPc[p] = "read"
  /\ \/ /\ clLoc[p].errand = "write"
        /\ \/ ClaudeVacant(q) /\ ClaudeGo(p, "append", clLoc[p])
           \/ /\ ~clMalformed /\ clJournal[q] = "scheduled"
              /\ ClaudeRelease(p, "publish", clLoc[p])
           \/ /\ ~ClaudeVacant(q) /\ (clMalformed \/ clJournal[q] # "scheduled")
              /\ ClaudeRelease(p, "idle", ClaudeIdle)
        /\ UNCHANGED clLost
     \/ /\ clLoc[p].errand = "run"
        /\ IF ClaudeReady(q) THEN ClaudeGo(p, "prepare", clLoc[p])
                             ELSE ClaudeRelease(p, "idle", ClaudeIdle)
        /\ UNCHANGED clLost
     \/ /\ clLoc[p].errand = "close"
        /\ IF ~clMalformed /\ clJournal[q] = "scheduled"
           THEN ClaudeGo(p, "append", clLoc[p]) /\ UNCHANGED clLost
           ELSE ClaudeRelease(p, "idle", ClaudeIdle) /\ ClaudeGiveUp(p)
  /\ UNCHANGED <<clDisk, clFile, clAccepted, clFaults>>

\* Mutant: the entry repeats the status of the receipt.
ClaudeEntryOfReceipt(l) == IF l.errand = "write" THEN "scheduled" ELSE l.result

ClaudeEntry(l) ==
  IF l.errand = "write" THEN "scheduled"
  ELSE IF l.result = "applied" THEN "committed" ELSE l.result

\* validTransition: a plan begins as scheduled and ends once.
ClaudeAccepts(old, new) ==
  IF old = "none" THEN new = "scheduled" ELSE old = "scheduled" \/ old = new

\* One line is appended; readers skip one that does not follow, and say so.
ClaudeAppend(p) ==
  LET q == ClaudePlan(p)
      e == ClaudeEntry(clLoc[p])
  IN /\ clPc[p] = "append"
     /\ IF ClaudeAccepts(clJournal[q], e)
        THEN clJournal' = [clJournal EXCEPT ![q] = e] /\ UNCHANGED clMalformed
        ELSE clMalformed' = TRUE /\ UNCHANGED clJournal
     /\ IF clLoc[p].errand = "write" THEN ClaudeRelease(p, "publish", clLoc[p])
                                     ELSE ClaudeRelease(p, "idle", ClaudeIdle)
     /\ UNCHANGED <<clReceipt, clFile, clPast, clFaults>>

\* finalizeCleanSchedule, and abortHostSchedule if the plan ended meanwhile.
ClaudePublish(p) ==
  /\ clPc[p] = "publish"
  /\ \/ /\ ClaudeSays(p) = "approved" /\ ClaudeSetReceipt(ClaudePlan(p), "scheduled")
        /\ ClaudeLeave(p)
     \/ /\ ClaudeSays(p) \in {"scheduled", "applied"} /\ UNCHANGED clReceipt
        /\ ClaudeLeave(p)
     \/ /\ ClaudeSays(p) \in ClaudeEnded /\ UNCHANGED clReceipt
        /\ ClaudeGo(p, "lock", ClaudeClosing(p, ClaudeSays(p)))
  /\ UNCHANGED <<clJournal, clMalformed, clFile, clPast, clFaults>>

-------------------------------------------------------------------------------
\* Mutant: an ended plan is passed over like an applied one.
ClaudeReplayNothing(p) == ClaudeRelease(p, "idle", ClaudeIdle)

\* The shared receipt was terminal before the request: its status is repeated in
\* the journal, unless it is applied.
ClaudeReplay(p) ==
  IF ClaudeSays(p) = "applied" THEN ClaudeRelease(p, "idle", ClaudeIdle)
  ELSE ClaudeRelease(p, "lock", ClaudeClosing(p, ClaudeSays(p)))

\* prepareScheduledClean and the checks of the current request: ready, not valid
\* any more, or not to be decided now.
ClaudePrepare(p) ==
  /\ clPc[p] = "prepare"
  /\ \/ ClaudeSays(p) \in Terminal /\ ClaudeReplay(p)
     \/ ClaudeSays(p) = "scheduled" /\ ClaudeGo(p, "overlay", clLoc[p])
     \/ ClaudeSays(p) = "scheduled" /\ ClaudeRelease(p, "record", ClaudeClosing(p, "stale"))
     \/ ClaudeSays(p) \notin Terminal /\ ClaudeRelease(p, "idle", ClaudeIdle)
  /\ UNCHANGED <<clDisk, clFile, clPast, clFaults>>

\* The originals are archived and the items removed from the request.
ClaudeOverlay(p) ==
  /\ clPc[p] = "overlay"
  /\ \/ ClaudeGo(p, "upstream", clLoc[p])
     \/ \E s \in {"stale", "failed"} : ClaudeRelease(p, "record", ClaudeClosing(p, s))
  /\ UNCHANGED <<clDisk, clFile, clPast, clFaults>>

\* The lock is already released when the verdict on a plan is recorded.
ClaudeRecord(p) ==
  /\ clPc[p] = "record"
  /\ IF <<ClaudeSays(p), clLoc[p].result>> \in Transitions
     THEN /\ ClaudeSetReceipt(ClaudePlan(p), clLoc[p].result)
          /\ ClaudeGo(p, "lock", clLoc[p])
     ELSE UNCHANGED clReceipt /\ ClaudeLeave(p)
  /\ UNCHANGED <<clJournal, clMalformed, clFile, clPast, clFaults>>

\* The upstream answers 2xx ...
ClaudeAccept(p) ==
  /\ clPc[p] = "upstream"
  /\ clAccepted' = clAccepted \cup {ClaudePlan(p)}
  /\ ClaudeGo(p, "settle", clLoc[p])
  /\ UNCHANGED <<clDisk, clFile, clLost, clFaults>>

\* Mutant: any answer settles the overlay.
ClaudeRejectedSettles(p) ==
  /\ clPc[p] = "upstream"
  /\ ClaudeGo(p, "settle", clLoc[p])
  /\ UNCHANGED <<clDisk, clFile, clPast, clFaults>>

\* ... or something else, or the overlay could not be encoded: it is abandoned.
ClaudeReject(p) ==
  /\ clPc[p] = "upstream"
  /\ ClaudeRelease(p, "idle", ClaudeIdle)
  /\ UNCHANGED <<clDisk, clFile, clPast, clFaults>>

\* Mutant: the journal is closed whether or not the receipt was taken.
ClaudeSettleAnyway(p) ==
  /\ clPc[p] = "settle"
  /\ IF ClaudeSays(p) = "scheduled" THEN ClaudeSetReceipt(ClaudePlan(p), "applied")
                                    ELSE UNCHANGED clReceipt
  /\ ClaudeRelease(p, "lock", ClaudeClosing(p, "applied"))
  /\ UNCHANGED <<clJournal, clMalformed, clFile, clPast, clFaults>>

\* finalizeClaudeCleanerOverlay: a receipt that is refused leaves all as it is.
ClaudeSettle(p) ==
  /\ clPc[p] = "settle"
  /\ IF ClaudeSays(p) = "scheduled"
     THEN /\ ClaudeSetReceipt(ClaudePlan(p), "applied")
          /\ ClaudeRelease(p, "lock", ClaudeClosing(p, "applied"))
     ELSE UNCHANGED clReceipt /\ ClaudeRelease(p, "idle", ClaudeIdle)
  /\ UNCHANGED <<clJournal, clMalformed, clFile, clPast, clFaults>>

-------------------------------------------------------------------------------
ClaudeFault == clFaults < ClMaxFaults /\ clFaults' = clFaults + 1

\* The process dies; a lock it owns stays behind.
ClaudeCrash(p) ==
  /\ ClaudeFault /\ clPc[p] # "idle"
  /\ clLock' = IF clLock = p THEN "dead" ELSE clLock
  /\ ClaudeGiveUp(p) /\ ClaudeLeave(p)
  /\ UNCHANGED <<clDisk, clAged, clStolen, clAccepted>>

\* A file could not be written, or a slow disk kept the lock busy for a second.
ClaudeWriteFails(p) ==
  /\ ClaudeFault
  /\ \/ clPc[p] \in {"append", "settle"} /\ ClaudeRelease(p, "idle", ClaudeIdle)
     \/ clPc[p] \in {"lock", "publish", "record"} /\ ClaudeLeave(p)
  /\ ClaudeGiveUp(p)
  /\ UNCHANGED <<clDisk, clFile, clAccepted>>

\* Thirty minutes pass; for a live owner that takes a suspended machine.
ClaudeAge ==
  /\ clLock # "free" /\ ~clAged
  /\ clAged' = TRUE
  /\ IF clLock = "dead" THEN UNCHANGED clFaults ELSE ClaudeFault
  /\ UNCHANGED <<clDisk, clLock, clStolen, clPast, clProc>>

-------------------------------------------------------------------------------
ClaudeOnwards(p) ==
  \/ ClaudeBusy(p) \/ ClaudeJudge(p) \/ ClaudeBreak(p) \/ ClaudeCompare(p) \/ ClaudeDrop(p)
  \/ ClaudeRead(p) \/ ClaudeAppend(p) \/ ClaudePublish(p) \/ ClaudePrepare(p)
  \/ ClaudeOverlay(p) \/ ClaudeRecord(p) \/ ClaudeAccept(p) \/ ClaudeReject(p)
  \/ ClaudeSettle(p)

ClaudeNext ==
  \/ ClaudeCancel \/ ClaudeAge
  \/ \E p \in ClClients :
       \/ ClaudeApprove(p) \/ ClaudeRequest(p) \/ ClaudeForward(p) \/ ClaudeAcquire(p)
       \/ ClaudeOnwards(p) \/ ClaudeCrash(p) \/ ClaudeWriteFails(p)

ClaudeSpec == ClaudeInit /\ [][ClaudeNext]_clVars

\* Requests keep coming, an operation in flight goes on, and time passes.
ClaudeFairness ==
  /\ WF_clVars(ClaudeAge)
  /\ \A p \in ClClients :
       /\ WF_clVars(ClaudeRequest(p))
       /\ WF_clVars(ClaudeAcquire(p))
       /\ WF_clVars(ClaudeOnwards(p))

-------------------------------------------------------------------------------
\* Somebody works on closing the schedule of plan q as applied.
ClaudeMarking(q) ==
  \E p \in ClClients :
    ClaudePlan(p) = q /\ clLoc[p].errand = "close" /\ clLoc[p].result = "applied"

\* The journal never runs ahead of the receipts and a published schedule is in it.
\* A plan that was applied and is still open has its marker on the way, or the
\* marker was lost: then nobody closes it, and no other plan is ever scheduled.
ClaudeJournalFollowsReceipts ==
  \A q \in ClPlans :
    /\ clReceipt[q] = "scheduled" => clJournal[q] # "none"
    /\ clJournal[q] = "committed" => clReceipt[q] = "applied"
    /\ clJournal[q] \in ClaudeEnded => clReceipt[q] = clJournal[q]
    /\ clReceipt[q] = "applied" /\ clJournal[q] = "scheduled" =>
         ClaudeMarking(q) \/ q \in clLost

\* As long as no lock was unlinked under a live owner, the session has one open
\* schedule, one overlay on its way and a journal its readers accept.
ClaudeOneStory ==
  \/ clStolen
  \/ /\ ~clMalformed
     /\ \A q, r \in ClPlans : clJournal[q] = "scheduled" /\ clJournal[r] = "scheduled" => q = r
     /\ \A p, o \in ClClients :
          clPc[p] \in {"upstream", "settle"} /\ clPc[o] \in {"upstream", "settle"} => p = o

\* A plan is reported as applied only after the upstream took a request without
\* the selected items, whoever else prepared, cancelled or retried it.
ClaudeAppliedWasAccepted ==
  \A q \in ClPlans : clReceipt[q] = "applied" => q \in clAccepted

\* To everybody who looks at the receipts and at what the upstream was sent, the requests
\* of the gateway are an execution of plans, whoever cancels, crashes or breaks a lock.
ClaudeExecution == INSTANCE CleanExecution WITH
  Plans <- ClPlans, Durable <- TRUE, status <- clReceipt, carried <- clAccepted

ClaudeExecutes == ClaudeExecution!Spec

\* A plan that ended without being applied does not stay scheduled in the journal.
ClaudeSchedulesEnd ==
  \A q \in ClPlans :
    clReceipt[q] \in ClaudeEnded /\ clJournal[q] = "scheduled" ~> clJournal[q] # "scheduled"
===============================================================================
