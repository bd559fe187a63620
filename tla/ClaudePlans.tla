----------------------------- MODULE ClaudePlans -----------------------------
(***************************************************************************)
(* Mutation plans of one Claude Code session: the plan store of            *)
(* host-adapter and the gateway's automatic eviction, which is its only    *)
(* user.  The gateway serves requests concurrently, and every call of the  *)
(* store holds the session's lock directory, SessionLock's subject, which  *)
(* is taken here as what it is unless it was raced: one holder at a time.  *)
(*                                                                         *)
(* A plan is saved as active, its tool results are archived, the request   *)
(* is rewritten, the plan becomes applied and the overlay goes upstream.   *)
(* What goes wrong on the way makes the plan failed.  An active plan that  *)
(* is left over is relocated to the request at hand and tried again.       *)
(***************************************************************************)
EXTENDS Naturals, FiniteSets

CONSTANTS PlanClients,    \* requests in flight
          PlanForms,      \* what a plan says besides its id: revision, time
          PlanHeuristic,  \* plans of the signal heuristic, by the revision they are for
          PlanLifecycle,  \* plans of the lifecycle planner, never replayed
          PlanOperations, \* operations of a plan, each a set of items
          PlanStrings,    \* items whose content is a string, the others are lists
          PlanNone, PlanBad,
          PlanMaxRequests, \* bound on requests that get hold of a plan
          PlanMaxCorrupt   \* bound on files that are damaged from outside

PlanIds   == PlanHeuristic \cup PlanLifecycle
PlanItems == UNION PlanOperations
PlanStatuses == {"active", "applied", "failed"}

ASSUME PlanAssumption ==
  /\ PlanHeuristic \subseteq PlanForms /\ PlanHeuristic \cap PlanLifecycle = {}
  /\ PlanNone \notin PlanForms \cup PlanIds \cup PlanClients
  /\ PlanBad  \notin PlanForms \cup {PlanNone}
  /\ PlanStrings \subseteq PlanItems
  /\ PlanMaxRequests \in Nat /\ PlanMaxCorrupt \in Nat

VARIABLES planLock,     \* the request that holds the session's lock
          planFile,     \* what lies under each id in each status directory
          planArchived, \* items in the archive
          planPc,       \* what each request is doing
          planCall,     \* its call of the store: "none", "open", "write", "done"
          planLoc,      \* what it knows
          planSent,     \* plans whose overlay went upstream (history)
          planStubbed,  \* items that were replaced in some overlay (history)
          planLost,     \* plans whose file was damaged (history)
          planRequests, planCorrupt

planFiles == <<planFile, planArchived>>
planPast  == <<planSent, planStubbed, planLost, planRequests, planCorrupt>>
planVars  == <<planLock, planFile, planArchived, planPc, planCall, planLoc, planSent,
               planStubbed, planLost, planRequests, planCorrupt>>

PlanCalls == {"load", "save", "applied", "failed"}

PlanLocal == [id : PlanIds \cup {PlanNone}, form : PlanForms \cup {PlanNone},
              replay : BOOLEAN,                 \* relocated from the store
              status : PlanStatuses \cup {"none"},
              plans : SUBSET PlanIds,           \* what the load returned
              ops : SUBSET PlanOperations,      \* what apply will rewrite
              ret : PlanStatuses \cup {"none", "bypassed"}]

PlanNoLocal == [id |-> PlanNone, form |-> PlanNone, replay |-> FALSE, status |-> "none",
                plans |-> {}, ops |-> {}, ret |-> "none"]

PlanTypeOK ==
  /\ planLock     \in PlanClients \cup {PlanNone}
  /\ planFile     \in [PlanIds -> [PlanStatuses -> PlanForms \cup {PlanNone, PlanBad}]]
  /\ planArchived \subseteq PlanStrings
  /\ planPc       \in [PlanClients -> PlanCalls \cup {"idle", "rewrite"}]
  /\ planCall     \in [PlanClients -> {"none", "open", "write", "done"}]
  /\ planLoc      \in [PlanClients -> PlanLocal]
  /\ planSent     \subseteq PlanIds
  /\ planStubbed  \subseteq PlanItems
  /\ planLost     \subseteq PlanIds
  /\ planRequests \in 0..PlanMaxRequests
  /\ planCorrupt  \in 0..PlanMaxCorrupt

PlanInit ==
  /\ planLock     = PlanNone
  /\ planFile     = [i \in PlanIds |-> [s \in PlanStatuses |-> PlanNone]]
  /\ planArchived = {}
  /\ planPc       = [p \in PlanClients |-> "idle"]
  /\ planCall     = [p \in PlanClients |-> "none"]
  /\ planLoc      = [p \in PlanClients |-> PlanNoLocal]
  /\ planSent     = {} /\ planStubbed = {} /\ planLost = {}
  /\ planRequests = 0 /\ planCorrupt = 0

-------------------------------------------------------------------------------
PlanGo(p, label, call, l) ==
  /\ planPc'   = [planPc   EXCEPT ![p] = label]
  /\ planCall' = [planCall EXCEPT ![p] = call]
  /\ planLoc'  = [planLoc  EXCEPT ![p] = l]

PlanAsk(p, call, l) == PlanGo(p, call, "open", [l EXCEPT !.ret = "none"])
PlanEnd(p)          == PlanGo(p, "idle", "none", PlanNoLocal)

PlanAnswered(p, call) == planPc[p] = call /\ planCall[p] = "done"

\* A call returns, and releases the lock if it got it.
PlanReturn(p, l) ==
  /\ PlanGo(p, planPc[p], "done", l)
  /\ planLock' = IF planLock = p THEN PlanNone ELSE planLock

-------------------------------------------------------------------------------
(* The store.                                                              *)

PlanKept(i)    == {s \in PlanStatuses : planFile[i][s] \in PlanForms}
PlanDamaged(i) == {s \in PlanStatuses : planFile[i][s] = PlanBad}

\* quarantinePlanFile for what could not be parsed; the rename may fail.
PlanQuarantine(I) ==
  \/ UNCHANGED planFile
  \/ planFile' = [i \in PlanIds |-> [s \in PlanStatuses |->
                    IF i \in I /\ s \in PlanDamaged(i) THEN PlanNone ELSE planFile[i][s]]]

\* Mutant: a call looks into the directory of active plans only.
PlanLocateActive(p, i, writes, same) ==
  LET kept == PlanKept(i) \cap {"active"} IN
  /\ UNCHANGED planFile
  /\ IF kept \in writes
     THEN PlanGo(p, planPc[p], "write", planLoc[p]) /\ UNCHANGED planLock
     ELSE PlanReturn(p, [planLoc[p] EXCEPT
                           !.ret = IF kept \in {{s} : s \in same} THEN "active" ELSE "bypassed"])

\* locatePlanUnlocked, and what its caller makes of it: the statuses the caller writes
\* from, and those it answers with.  Anything else is a bypass.
PlanLocate(p, i, writes, same) ==
  LET l == planLoc[p] IN
  IF PlanDamaged(i) # {}
  THEN PlanQuarantine({i}) /\ PlanReturn(p, [l EXCEPT !.ret = "bypassed"])
  ELSE /\ UNCHANGED planFile
       /\ \/ /\ PlanKept(i) \in writes
             /\ PlanGo(p, planPc[p], "write", l) /\ UNCHANGED planLock
          \/ \E s \in same : /\ PlanKept(i) = {s}
                             /\ PlanReturn(p, [l EXCEPT !.ret = s])
          \/ /\ PlanKept(i) \notin writes \cup {{s} : s \in same}
             /\ PlanReturn(p, [l EXCEPT !.ret = "bypassed"])

\* saveActiveContextMutationPlan: a plan that is there keeps its status, whatever it is.
PlanSave(p) ==
  LET l == planLoc[p] IN
  /\ planPc[p] = "save"
  /\ PlanLocate(p, l.id, {{}}, {s \in PlanStatuses : planFile[l.id][s] = l.form})

\* transitionContextMutationPlan: from active to a terminal status.
PlanTransition(p) ==
  /\ planPc[p] \in {"applied", "failed"}
  /\ PlanLocate(p, planLoc[p].id, {{"active"}}, {planPc[p]})

\* loadActiveContextMutationPlans: every active plan, none of them anywhere else.
PlanLoad(p) ==
  LET l      == planLoc[p]
      active == {i \in PlanIds : planFile[i]["active"] # PlanNone}
  IN /\ planPc[p] = "load"
     /\ IF \E i \in active : PlanDamaged(i) # {}
        THEN PlanQuarantine(active) /\ PlanReturn(p, [l EXCEPT !.ret = "bypassed"])
        ELSE /\ UNCHANGED planFile
             /\ PlanReturn(p, IF \A i \in active : PlanKept(i) = {"active"}
                              THEN [l EXCEPT !.plans = active, !.ret = "active"]
                              ELSE [l EXCEPT !.ret = "bypassed"])

PlanRead(p) ==
  /\ planCall[p] = "open" /\ planLock = p
  /\ PlanSave(p) \/ PlanTransition(p) \/ PlanLoad(p)
  /\ UNCHANGED <<planArchived, planPast>>

\* The atomic write of a new plan, or the rename of an active one: it happens or fails.
PlanWrite(p) ==
  LET l == planLoc[p] IN
  /\ planCall[p] = "write"
  /\ \/ /\ planPc[p] = "save"
        /\ planFile' = [planFile EXCEPT ![l.id]["active"] = l.form]
        /\ PlanReturn(p, [l EXCEPT !.ret = "active"])
     \/ /\ planPc[p] \in {"applied", "failed"}
        /\ planFile[l.id]["active"] # PlanNone
        /\ planFile' = [planFile EXCEPT ![l.id][planPc[p]] = planFile[l.id]["active"],
                                        ![l.id]["active"]  = PlanNone]
        /\ PlanReturn(p, [l EXCEPT !.ret = planPc[p]])
     \/ /\ PlanReturn(p, [l EXCEPT !.ret = "bypassed"])
        /\ UNCHANGED planFile
  /\ UNCHANGED <<planArchived, planPast>>

\* acquireSessionLock: the call gets the lock, or its time is up.
PlanLock(p) ==
  /\ planCall[p] = "open" /\ planLock # p
  /\ \/ planLock = PlanNone /\ planLock' = p /\ UNCHANGED <<planPc, planCall, planLoc>>
     \/ PlanReturn(p, [planLoc[p] EXCEPT !.ret = "bypassed"])
  /\ UNCHANGED <<planFiles, planPast>>

-------------------------------------------------------------------------------
(* The gateway.                                                            *)

\* The lifecycle planner has a plan for this request, or the heuristic asks what is left.
PlanBegin(p) ==
  /\ planPc[p] = "idle"
  /\ \/ PlanAsk(p, "load", PlanNoLocal) /\ UNCHANGED planRequests
     \/ /\ planRequests < PlanMaxRequests /\ planRequests' = planRequests + 1
        /\ \E i \in PlanLifecycle, f \in PlanForms :
             PlanAsk(p, "save", [PlanNoLocal EXCEPT !.id = i, !.form = f])
  /\ UNCHANGED <<planLock, planFiles, planSent, planStubbed, planLost, planCorrupt>>

\* An active plan of the heuristic is relocated to this request and saved again; or one
\* of this very revision is used as it is; or one is made for it.
PlanTake(p) ==
  LET found == planLoc[p].plans \cap PlanHeuristic IN
  /\ PlanAnswered(p, "load") /\ planLoc[p].ret = "active"
  /\ planRequests < PlanMaxRequests /\ planRequests' = planRequests + 1
  /\ \E i \in PlanHeuristic, f \in PlanForms :
       LET l == [PlanNoLocal EXCEPT !.id = i, !.form = f] IN
       \/ i \in found /\ PlanAsk(p, "save", [l EXCEPT !.replay = TRUE])
       \/ i \in found /\ i = f /\ PlanGo(p, "rewrite", "none", [l EXCEPT !.status = "active"])
       \/ i \notin found /\ i = f /\ PlanAsk(p, "save", l)
  /\ UNCHANGED <<planLock, planFiles, planSent, planStubbed, planLost, planCorrupt>>

\* There is nothing to replay and nothing to evict, or the store is out of order.
PlanPass(p) ==
  /\ PlanAnswered(p, "load")
  /\ PlanEnd(p)
  /\ UNCHANGED <<planLock, planFiles, planPast>>

\* What the save of a relocated plan answers is not looked at.
PlanSaved(p) ==
  LET l == planLoc[p] IN
  /\ PlanAnswered(p, "save")
  /\ \/ /\ l.replay
        /\ PlanGo(p, "rewrite", "none", [l EXCEPT !.status = "active"])
     \/ /\ ~l.replay /\ l.ret \in {"active", "applied"}
        /\ PlanGo(p, "rewrite", "none", [l EXCEPT !.status = l.ret])
     \/ /\ ~l.replay /\ l.ret \in {"failed", "bypassed"}
        /\ PlanEnd(p)
  /\ UNCHANGED <<planLock, planFiles, planPast>>

\* Mutant: what could not be archived is rewritten all the same.
PlanRewritten(ops, fails) == ops

\* applyArchivePlan takes an item it cannot archive out of its operation; apply then
\* finds the operation's fingerprints out of step with its targets and defers all of it.
PlanApplies(ops, fails) == {o \in ops : o \cap fails = {}}

PlanSend(l) ==
  /\ planSent'    = planSent \cup {l.id}
  /\ planStubbed' = planStubbed \cup UNION l.ops

\* The string contents of the applicable operations are archived one by one, and the
\* request is rewritten.  Nothing changed, or the plan has to become applied first, or
\* it is applied already.
PlanRewrite(p) ==
  /\ planPc[p] = "rewrite"
  /\ \E ops \in SUBSET PlanOperations, fails \in SUBSET PlanStrings :
       LET l == [planLoc[p] EXCEPT !.ops = PlanApplies(ops, fails)] IN
       /\ fails \subseteq UNION ops
       /\ planArchived' = planArchived \cup ((PlanStrings \cap UNION ops) \ fails)
       /\ \/ l.ops = {} /\ PlanEnd(p) /\ UNCHANGED <<planSent, planStubbed>>
          \/ /\ l.ops # {} /\ l.status = "active"
             /\ PlanAsk(p, "applied", l) /\ UNCHANGED <<planSent, planStubbed>>
          \/ /\ l.ops # {} /\ l.status = "applied"
             /\ PlanSend(l) /\ PlanEnd(p)
  /\ UNCHANGED <<planLock, planFile, planLost, planRequests, planCorrupt>>

\* The overlay is dropped when its plan cannot be marked, and the plan has failed.
PlanMarked(p) ==
  LET l == planLoc[p] IN
  /\ PlanAnswered(p, "applied")
  /\ \/ l.ret = "applied" /\ PlanSend(l) /\ PlanEnd(p)
     \/ l.ret = "bypassed" /\ PlanAsk(p, "failed", l) /\ UNCHANGED <<planSent, planStubbed>>
  /\ UNCHANGED <<planLock, planFiles, planLost, planRequests, planCorrupt>>

PlanGaveUp(p) ==
  /\ PlanAnswered(p, "failed")
  /\ PlanEnd(p)
  /\ UNCHANGED <<planLock, planFiles, planPast>>

-------------------------------------------------------------------------------
\* The gateway dies; the next caller finds the owner dead and removes its lock.
PlanCrash(p) ==
  /\ planPc[p] # "idle"
  /\ planLock' = IF planLock = p THEN PlanNone ELSE planLock
  /\ PlanEnd(p)
  /\ UNCHANGED <<planFiles, planPast>>

PlanDamage ==
  /\ planCorrupt < PlanMaxCorrupt
  /\ \E i \in PlanIds : \E s \in PlanKept(i) :
       /\ planFile' = [planFile EXCEPT ![i][s] = PlanBad]
       /\ planLost' = planLost \cup {i}
  /\ planCorrupt' = planCorrupt + 1
  /\ UNCHANGED <<planLock, planArchived, planPc, planCall, planLoc, planSent, planStubbed,
                 planRequests>>

PlanNext ==
  \/ \E p \in PlanClients :
       \/ PlanLock(p) \/ PlanRead(p) \/ PlanWrite(p) \/ PlanBegin(p) \/ PlanTake(p)
       \/ PlanPass(p) \/ PlanSaved(p) \/ PlanRewrite(p) \/ PlanMarked(p) \/ PlanGaveUp(p) \/ PlanCrash(p)
  \/ PlanDamage

PlanSpec == PlanInit /\ [][PlanNext]_planVars

-------------------------------------------------------------------------------
\* A plan has one status, and an overlay that went upstream stands for a plan that is
\* applied: a plan that failed was never used and none comes back to life.  Only a
\* damaged file is an excuse.
PlanHasOneStatus ==
  \A i \in PlanIds \ planLost :
    /\ \A s, t \in PlanKept(i) : s = t
    /\ i \in planSent => PlanKept(i) = {"applied"}

\* What an overlay took away is in the archive, whatever failed on the way, if it was a
\* string.  A list is taken away and not archived.
StubsAreRecoverable == planStubbed \cap PlanStrings \subseteq planArchived
===============================================================================
