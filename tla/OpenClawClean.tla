----------------------------- MODULE OpenClawClean -----------------------------
(***************************************************************************)
(* Clean plans of one session of OpenClaw.  The context engine keeps a     *)
(* canonical copy of the transcript.  A scheduled plan is executed on that *)
(* copy when the next request is assembled: an intent file announces the   *)
(* rewrite, the copy is replaced, the shared receipt recorded, the intent  *)
(* removed and the pointer of the session closed.  A process that dies on  *)
(* the way leaves some of these files behind, and the next request tells   *)
(* from the revision of the copy how far it came.                          *)
(*                                                                         *)
(* Every operation runs under the session lock of module OpenClawLock, so  *)
(* there is one operation at a time; it stops at any step when a write     *)
(* fails or the process dies.  An update of the pointer and a transition   *)
(* of the receipt are one step each.                                       *)
(***************************************************************************)
EXTENDS Naturals, CleanContracts

CONSTANTS OcPlans,        \* clean plans of the session
          OcNone,
          OcMaxRevision,  \* bound on the changes of the copy by others
          OcMaxFaults     \* bound on crashes and failed writes

ASSUME OpenClawCleanAssumption ==
  /\ OcNone \notin OcPlans
  /\ OcMaxRevision \in Nat /\ OcMaxFaults \in Nat

VARIABLES ocReceipt,  \* status of the shared receipt of each plan
          ocPointer,  \* the schedule record of the session
          ocIntent,   \* apply intent of each plan: the copy before and after
          ocCopy,     \* the canonical copy: changes by others, plans cleaned out of it
          ocTorn,     \* the file of the copy cannot be parsed
          ocRebuilt,  \* it was torn once and its rewrites are gone (history)
          ocBlurred,  \* plans with an intent while the copy was annotated (history)
          ocTask,     \* the operation that holds the session lock
          ocFaults

ocFiles   == <<ocReceipt, ocPointer, ocIntent>>
ocContext == <<ocCopy, ocTorn, ocRebuilt, ocBlurred>>
ocVars    == <<ocReceipt, ocPointer, ocIntent, ocCopy, ocTorn, ocRebuilt, ocBlurred,
               ocTask, ocFaults>>

-------------------------------------------------------------------------------
OpenClawCopies  == [rev : Nat, cleaned : SUBSET OcPlans]
OpenClawIntents == [before : OpenClawCopies, after : OpenClawCopies]

OpenClawNoIntent == [before |-> [rev |-> 0, cleaned |-> {}], after |-> [rev |-> 0, cleaned |-> {}]]

OpenClawLabels == {"idle", "tidy", "approve", "point", "publish", "cancel", "leave",
                   "open", "recover", "prepare", "execute", "write", "record", "clear", "finish"}

OpenClawTasks == [at : OpenClawLabels, plan : OcPlans \cup {OcNone},
                  errand : {"none", "approve", "cancel", "clean"},
                  result : Terminal \cup {"none"}]

OpenClawNoTask == [at |-> "idle", plan |-> OcNone, errand |-> "none", result |-> "none"]

OpenClawTypeOK ==
  /\ ocReceipt \in [OcPlans -> Status]
  /\ ocPointer \in [status : {"none", "scheduled", "terminal"}, plan : OcPlans \cup {OcNone}]
  /\ ocIntent  \in [OcPlans -> OpenClawIntents]
  /\ ocCopy    \in OpenClawCopies
  /\ ocTorn    \in BOOLEAN
  /\ ocRebuilt \in BOOLEAN
  /\ ocBlurred \subseteq OcPlans
  /\ ocTask    \in OpenClawTasks
  /\ ocFaults  \in 0..OcMaxFaults

OpenClawInit ==
  /\ ocReceipt = [q \in OcPlans |-> "analyzed"]
  /\ ocPointer = [status |-> "none", plan |-> OcNone]
  /\ ocIntent  = [q \in OcPlans |-> OpenClawNoIntent]
  /\ ocCopy    = [rev |-> 0, cleaned |-> {}]
  /\ ocTorn    = FALSE
  /\ ocRebuilt = FALSE
  /\ ocBlurred = {}
  /\ ocTask    = OpenClawNoTask
  /\ ocFaults  = 0

-------------------------------------------------------------------------------
OpenClawAt(label) == ocTask.at = label

OpenClawGo(label) == ocTask' = [ocTask EXCEPT !.at = label]

OpenClawEnd == ocTask' = OpenClawNoTask

\* Go on to write the result s.
OpenClawSettle(label, s) == ocTask' = [ocTask EXCEPT !.at = label, !.result = s]

OpenClawSays == ocReceipt[ocTask.plan]

OpenClawSetReceipt(s) == ocReceipt' = [ocReceipt EXCEPT ![ocTask.plan] = s]

OpenClawIntends(q) == ocIntent[q] # OpenClawNoIntent

OpenClawDropIntent(q) == ocIntent' = [ocIntent EXCEPT ![q] = OpenClawNoIntent]

\* A clean whose commit may be half done: a scheduled plan with an intent.
OpenClawCommitOpen == ocPointer.status = "scheduled" /\ OpenClawIntends(ocPointer.plan)

\* finishOpenClawCleanSchedule
OpenClawClosed == [ocPointer EXCEPT !.status = "terminal"]

-------------------------------------------------------------------------------
\* locked(): approve and cancel leave a crashed commit to the runtime.
OpenClawCommand ==
  /\ OpenClawAt("idle") /\ ~OpenClawCommitOpen
  /\ \E q \in OcPlans, e \in {"approve", "cancel"} :
       /\ ~OpenClawIntends(q)
       /\ ocTask' = [OpenClawNoTask EXCEPT !.at = "tidy", !.plan = q, !.errand = e]
  /\ UNCHANGED <<ocFiles, ocContext, ocFaults>>

\* finishTerminalPointer: the pointer of a plan that has ended is closed.
OpenClawTidied ==
  IF ocPointer.status = "scheduled" /\ ocReceipt[ocPointer.plan] \in Terminal
  THEN OpenClawClosed ELSE ocPointer

OpenClawTidy ==
  /\ OpenClawAt("tidy")
  /\ ocPointer' = OpenClawTidied
  /\ OpenClawGo(ocTask.errand)
  /\ UNCHANGED <<ocReceipt, ocIntent, ocContext, ocFaults>>

OpenClawLeave ==
  /\ OpenClawAt("leave")
  /\ ocPointer' = OpenClawTidied
  /\ OpenClawEnd
  /\ UNCHANGED <<ocReceipt, ocIntent, ocContext, ocFaults>>

\* approveCleanSelection: approved, or the state an earlier approval has reached.
OpenClawApprove ==
  /\ OpenClawAt("approve")
  /\ IF OpenClawSays \in Terminal
     THEN OpenClawGo("leave") /\ UNCHANGED ocReceipt
     ELSE /\ OpenClawGo("point")
          /\ IF OpenClawSays = "analyzed" THEN OpenClawSetReceipt("approved")
                                          ELSE UNCHANGED ocReceipt
  /\ UNCHANGED <<ocPointer, ocIntent, ocContext, ocFaults>>

\* Mutant: a pointer that is still scheduled gives way as well.
OpenClawVacantForAny(q) == ocPointer.plan # q

OpenClawVacant(q) ==
  ocPointer.status = "none" \/ (ocPointer.status = "terminal" /\ ocPointer.plan # q)

\* scheduleOpenClawClean: the same record again is no change, another a conflict.
OpenClawPoint ==
  LET q == ocTask.plan IN
  /\ OpenClawAt("point")
  /\ \/ /\ OpenClawVacant(q)
        /\ ocPointer' = [status |-> "scheduled", plan |-> q]
        /\ OpenClawGo("publish")
     \/ /\ ~OpenClawVacant(q) /\ UNCHANGED ocPointer
        /\ IF ocPointer.plan = q THEN OpenClawGo("publish") ELSE OpenClawEnd
  /\ UNCHANGED <<ocReceipt, ocIntent, ocContext, ocFaults>>

\* finalizeCleanSchedule.  Nobody ends the plan meanwhile: the lock is held.
OpenClawPublish ==
  /\ OpenClawAt("publish")
  /\ IF OpenClawSays = "approved" THEN OpenClawSetReceipt("scheduled") ELSE UNCHANGED ocReceipt
  /\ OpenClawGo("leave")
  /\ UNCHANGED <<ocPointer, ocIntent, ocContext, ocFaults>>

OpenClawCancel ==
  /\ OpenClawAt("cancel")
  /\ IF OpenClawSays \in Terminal THEN UNCHANGED ocReceipt ELSE OpenClawSetReceipt("cancelled")
  /\ OpenClawGo("leave")
  /\ UNCHANGED <<ocPointer, ocIntent, ocContext, ocFaults>>

-------------------------------------------------------------------------------
\* assemble: a request takes up the scheduled plan.
OpenClawAssemble ==
  /\ OpenClawAt("idle") /\ ocPointer.status = "scheduled"
  /\ ocTask' = [OpenClawNoTask EXCEPT !.at = "open", !.plan = ocPointer.plan, !.errand = "clean"]
  /\ UNCHANGED <<ocFiles, ocContext, ocFaults>>

\* Mutant: a plan that has ended is none of the request's business.
OpenClawOpenPending ==
  /\ OpenClawAt("open")
  /\ IF OpenClawSays = "approved" THEN OpenClawSetReceipt("scheduled") ELSE UNCHANGED ocReceipt
  /\ IF OpenClawSays \in Terminal THEN OpenClawEnd ELSE OpenClawGo("recover")
  /\ UNCHANGED <<ocPointer, ocIntent, ocContext, ocFaults>>

\* An approval that was cut short after the pointer is published; a plan that has
\* ended only needs its pointer closed.
OpenClawOpen ==
  /\ OpenClawAt("open")
  /\ IF OpenClawSays = "approved" THEN OpenClawSetReceipt("scheduled") ELSE UNCHANGED ocReceipt
  /\ OpenClawGo(IF OpenClawSays = "applied" THEN "clear"
                ELSE IF OpenClawSays \in Terminal THEN "finish" ELSE "recover")
  /\ UNCHANGED <<ocPointer, ocIntent, ocContext, ocFaults>>

\* recoverIntent: the copy is the one after the rewrite, the one before, or neither.
\* A copy that cannot be read ends the attempt.
OpenClawRecover ==
  LET i == ocIntent[ocTask.plan] IN
  /\ OpenClawAt("recover")
  /\ IF ~OpenClawIntends(ocTask.plan) THEN OpenClawGo("prepare") /\ UNCHANGED ocIntent
     ELSE IF ocTorn THEN OpenClawEnd /\ UNCHANGED ocIntent
     ELSE IF ocCopy = i.after THEN OpenClawSettle("record", "applied") /\ UNCHANGED ocIntent
     ELSE /\ OpenClawDropIntent(ocTask.plan)
          /\ IF ocCopy = i.before THEN OpenClawGo("prepare") ELSE OpenClawSettle("record", "stale")
  /\ UNCHANGED <<ocReceipt, ocPointer, ocContext, ocFaults>>

\* prepareScheduledClean under the lock: ready, or a reason against it.
OpenClawPrepare ==
  /\ OpenClawAt("prepare")
  /\ \/ ~ocTorn /\ OpenClawGo("execute")
     \/ \E s \in {"stale", "failed"} : OpenClawSettle("record", s)
  /\ UNCHANGED <<ocFiles, ocContext, ocFaults>>

OpenClawCleanedCopy(q) == [ocCopy EXCEPT !.cleaned = @ \cup {q}]

\* The rewrite in memory, and the intent that announces it.
OpenClawExecute ==
  /\ OpenClawAt("execute")
  /\ \/ /\ ocTask.plan \notin ocCopy.cleaned
        /\ ocIntent' = [ocIntent EXCEPT ![ocTask.plan] =
                          [before |-> ocCopy, after |-> OpenClawCleanedCopy(ocTask.plan)]]
        /\ OpenClawGo("write")
     \/ (\E s \in {"stale", "failed"} : OpenClawSettle("record", s)) /\ UNCHANGED ocIntent
  /\ UNCHANGED <<ocReceipt, ocPointer, ocContext, ocFaults>>

\* A new file is renamed over the old one.
OpenClawWrite ==
  /\ OpenClawAt("write")
  /\ ocCopy' = OpenClawCleanedCopy(ocTask.plan)
  /\ OpenClawSettle("record", "applied")
  /\ UNCHANGED <<ocFiles, ocTorn, ocRebuilt, ocBlurred, ocFaults>>

OpenClawRecord ==
  /\ OpenClawAt("record")
  /\ OpenClawSetReceipt(ocTask.result)
  /\ OpenClawGo(IF ocTask.result = "applied" THEN "clear" ELSE "finish")
  /\ UNCHANGED <<ocPointer, ocIntent, ocContext, ocFaults>>

OpenClawClear ==
  /\ OpenClawAt("clear")
  /\ OpenClawDropIntent(ocTask.plan)
  /\ OpenClawGo("finish")
  /\ UNCHANGED <<ocReceipt, ocPointer, ocContext, ocFaults>>

OpenClawFinish ==
  /\ OpenClawAt("finish")
  /\ ocPointer' = OpenClawClosed
  /\ OpenClawEnd
  /\ UNCHANGED <<ocReceipt, ocIntent, ocContext, ocFaults>>

-------------------------------------------------------------------------------
OpenClawFault == ocFaults < OcMaxFaults /\ ocFaults' = ocFaults + 1

\* writeFile of the copy is not atomic: it succeeds, or what was there is gone.
OpenClawOverwrite ==
  /\ ocCopy.rev < OcMaxRevision
  /\ \/ /\ ocCopy' = [ocCopy EXCEPT !.rev = @ + 1]
        /\ UNCHANGED <<ocTorn, ocRebuilt, ocFaults>>
     \/ /\ OpenClawFault
        /\ ocCopy' = [rev |-> ocCopy.rev + 1, cleaned |-> {}]
        /\ ocTorn' = TRUE /\ ocRebuilt' = TRUE

\* Mutant: new messages change the copy whether or not a commit is open.
OpenClawSyncAlways ==
  /\ OpenClawAt("idle") /\ ~ocTorn
  /\ OpenClawOverwrite
  /\ UNCHANGED <<ocFiles, ocBlurred, ocTask>>

\* syncAndEvict: new messages or an automatic eviction change the copy, unless a
\* commit is open; a copy that cannot be read is rebuilt from the transcript.
OpenClawSync ==
  /\ OpenClawAt("idle") /\ ~OpenClawCommitOpen
  /\ IF ocTorn
     THEN ocTorn' = FALSE /\ UNCHANGED <<ocCopy, ocRebuilt, ocFaults>>
     ELSE OpenClawOverwrite
  /\ UNCHANGED <<ocFiles, ocBlurred, ocTask>>

\* A request with nothing new.
OpenClawUnchanged == OpenClawAt("idle") /\ UNCHANGED ocVars

\* analyze: the task anchors are written into the copy, commit open or not.
OpenClawAnnotate ==
  /\ OpenClawAt("idle") /\ ~ocTorn
  /\ OpenClawOverwrite
  /\ ocBlurred' = ocBlurred \cup {q \in OcPlans : OpenClawIntends(q)}
  /\ UNCHANGED <<ocFiles, ocTask>>

\* A write fails or the process dies: the operation ends where it was.
OpenClawStop ==
  /\ OpenClawFault /\ ~OpenClawAt("idle")
  /\ OpenClawEnd
  /\ UNCHANGED <<ocFiles, ocContext>>

-------------------------------------------------------------------------------
OpenClawOnwards ==
  \/ OpenClawTidy \/ OpenClawLeave \/ OpenClawApprove \/ OpenClawPoint \/ OpenClawPublish
  \/ OpenClawCancel \/ OpenClawOpen \/ OpenClawRecover \/ OpenClawPrepare \/ OpenClawExecute
  \/ OpenClawWrite \/ OpenClawRecord \/ OpenClawClear \/ OpenClawFinish

OpenClawNext ==
  \/ OpenClawCommand \/ OpenClawAssemble \/ OpenClawOnwards \/ OpenClawSync
  \/ OpenClawUnchanged \/ OpenClawAnnotate \/ OpenClawStop

OpenClawSpec == OpenClawInit /\ [][OpenClawNext]_ocVars

\* Requests get the session lock again and again, and an operation that has it goes on.
OpenClawFairness == SF_ocVars(OpenClawAssemble) /\ WF_ocVars(OpenClawOnwards)

-------------------------------------------------------------------------------
\* However often the process dies, the receipts tell what happened to the copy: an
\* applied plan is cleaned out of it, until the copy was lost; a plan that ended
\* otherwise is not, unless its open commit was annotated by analyze; and a plan
\* that is cleaned out and has no result yet has an intent that says so.
OpenClawReceiptsTell ==
  \A q \in OcPlans :
    /\ ocReceipt[q] = "applied" => q \in ocCopy.cleaned \/ ocRebuilt
    /\ q \in ocCopy.cleaned => \/ ocReceipt[q] = "applied"
                               \/ ocReceipt[q] = "scheduled" /\ OpenClawIntends(q)
                               \/ q \in ocBlurred

\* What the guards of sync, approve and cancel rely on: only the scheduled plan of
\* the session has an intent, and a published schedule has its pointer.
OpenClawIntentIsPointed ==
  \A q \in OcPlans :
    OpenClawIntends(q) \/ ocReceipt[q] = "scheduled" =>
      ocPointer = [status |-> "scheduled", plan |-> q]

\* To everybody who looks at the receipts and at the canonical copy, the operations under
\* the lock are an execution of plans.  What was reported counts as taken out for good,
\* although the rewrites are lost with the copy.
OpenClawExecution == INSTANCE CleanExecution WITH
  Plans <- OcPlans, Durable <- FALSE, status <- ocReceipt,
  carried <- ocCopy.cleaned \cup {q \in OcPlans : ocReceipt[q] = "applied"}

OpenClawExecutes == OpenClawExecution!Spec

\* A scheduled plan does not stay scheduled, unless its copy was lost in the commit.
OpenClawPointersEnd ==
  \A q \in OcPlans :
    ocPointer = [status |-> "scheduled", plan |-> q] ~>
      ocPointer # [status |-> "scheduled", plan |-> q] \/ (ocTorn /\ OpenClawIntends(q))
===============================================================================
