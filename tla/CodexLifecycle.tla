----------------------------- MODULE CodexLifecycle -----------------------------
(***************************************************************************)
(* Automatic eviction in the Codex proxy.  Before a request is sent, an    *)
(* estimator reads the turns of its history that nobody has analysed yet   *)
(* and says which tasks they belong to and how far each task is.  The      *)
(* answer becomes the next version of the task registry, and the tool      *)
(* results that only finished tasks own become a plan: the request is sent *)
(* again as a new response chain without them.                             *)
(*                                                                         *)
(* A turn is a request, numbered in the order of arrival.  The call of a   *)
(* tool ends one turn and its result begins the next, so a call and its    *)
(* result may be given to different tasks.  Clients may send several       *)
(* requests on one response, so histories branch; a branch keeps what a    *)
(* rewrite on another one dropped.                                         *)
(*                                                                         *)
(* The registry is read, estimated and stored under the session lock; the  *)
(* plan is executed under a later hold of it.  The lock is a mutex that    *)
(* dies with its holder: SessionLock without its race.                     *)
(***************************************************************************)
EXTENDS Naturals, FiniteSets

CONSTANTS Procs,       \* proxies that share the state directory
          Tasks,
          None,
          MaxTurn,     \* bound on the requests of the session
          Past,        \* turns committed before eviction was switched on,
          PastPath,    \* the turns each of them builds on, with itself,
          PastCalls,   \* and those that end with a tool call
          BatchTurns   \* pending turns that are worth an estimate

ASSUME CodexLifecycleAssumption ==
  /\ None \notin Procs
  /\ MaxTurn \in Nat /\ Past \in 0..MaxTurn
  /\ PastPath \in [0..Past -> SUBSET (1..Past)] /\ PastPath[0] = {}
  /\ \A t \in 1..Past :
       /\ PastPath[t] \subseteq 1..t
       /\ \E h \in 0..(t - 1) : PastPath[t] = PastPath[h] \cup {t}
  /\ PastCalls \in SUBSET (1..Past)
  /\ BatchTurns \in Nat \ {0}

VARIABLES turns,      \* number of the last request
          path,       \* turns a request builds on, with itself
          committed,  \* turns that have a response
          called,     \* committed turns that end with a tool call
          gone,       \* calls whose pair the history ending at a turn has lost
          registry,   \* task registry of the session
          analysed,   \* estimates accepted so far that covered the turn
          lock,       \* holder of the session lock
          pc,         \* control point of each process
          loc         \* what a process knows: request, head, registry read, plan

history == <<turns, path, committed, called, gone>>
vars    == <<turns, path, committed, called, gone, registry, analysed, lock, pc, loc>>

-------------------------------------------------------------------------------
Turns == 1..MaxTurn
Heads == 0..MaxTurn          \* 0: the request continues no response

\* "held": blocked, or completed with unresolved questions.
Lifecycle == {"none", "active", "held", "completed", "evictable"}

\* SessionTaskRegistry.
Registry == [version : Nat, watermark : Heads, life : [Tasks -> Lifecycle],
             owner : [Turns -> SUBSET Tasks]]

EmptyRegistry == [version |-> 0, watermark |-> 0, life |-> [k \in Tasks |-> "none"],
                  owner |-> [t \in Turns |-> {}]]

\* base: the registry the estimate starts from; plan: calls whose pairs it removes;
\* version: registry version the plan was made for.
Local   == [turn : Heads, head : Heads, base : Registry, plan : SUBSET Turns,
            version : Nat]
NoLocal == [turn |-> 0, head |-> 0, base |-> EmptyRegistry, plan |-> {}, version |-> 0]

Labels == {"idle", "plan", "estimate", "ready", "inflight", "forward"}

TypeOK ==
  /\ turns     \in Heads
  /\ path      \in [Heads -> SUBSET Turns]
  /\ committed \in SUBSET Turns
  /\ called    \in SUBSET committed
  /\ gone      \in [Heads -> SUBSET Turns]
  /\ registry  \in Registry
  /\ analysed  \in [Turns -> Nat]
  /\ lock      \in Procs \cup {None}
  /\ pc        \in [Procs -> Labels]
  /\ loc       \in [Procs -> Local]

Init ==
  /\ turns     = Past
  /\ path      = [t \in Heads |-> IF t <= Past THEN PastPath[t] ELSE {}]
  /\ committed = 1..Past
  /\ called    = PastCalls
  /\ gone      = [t \in Heads |-> {}]
  /\ registry  = EmptyRegistry
  /\ analysed  = [t \in Turns |-> 0]
  /\ lock      = None
  /\ pc        = [p \in Procs |-> "idle"]
  /\ loc       = [p \in Procs |-> NoLocal]

-------------------------------------------------------------------------------
\* The history that ends at head h.  A pair is named by the turn of its call; its
\* result came with the next turn of that history (a set of one turn).
Pairs(h)     == {c \in path[h] \cap called : c # h /\ c \notin gone[h]}
Result(h, c) == {t \in path[h] : t > c /\ \A u \in path[h] : u > c => t <= u}

Delta(r, h) == {t \in path[h] : t > r.watermark}

\* Tasks of a pair.  One side without a task follows the other one; sides that
\* belong to different tasks are mixed.
Owners(r, h, c) == UNION {r.owner[t] : t \in {c} \cup Result(h, c)}
Mixed(r, h, c) ==
  \E t \in Result(h, c) : r.owner[c] # {} /\ r.owner[t] # {} /\ r.owner[c] # r.owner[t]

\* buildCodexLifecycleInput and the planner's gates: no open tool call, turns that
\* are pending, and no pair between two tasks.
ReadyForEstimate(r, h) ==
  /\ h # 0 /\ h \notin called
  /\ r.watermark < h
  /\ Cardinality(Delta(r, h)) >= BatchTurns
  /\ \A c \in Pairs(h) : ~Mixed(r, h, c)

-------------------------------------------------------------------------------
\* The estimator's answer: lifecycle and covered turns of some tasks.  It may cover
\* turns of the delta only, and a task that is new covers at least one.  (Completion
\* evidence is the estimator's word: an update that lacks it, or that calls a task
\* with open questions evictable, is rejected like any other malformed answer.)
Answers(r, h) ==
  {u \in UNION {[life : [S -> Lifecycle \ {"none"}], cover : [S -> SUBSET Delta(r, h)]]
                  : S \in SUBSET Tasks} :
     \A k \in DOMAIN u.life : u.cover[k] = {} => r.life[k] # "none"}

Updated(u) == DOMAIN u.life

\* Mutant: the watermark moves by one turn.
ApplyOneTurn(r, h, u) ==
  [version   |-> r.version + 1,
   watermark |-> r.watermark + 1,
   life      |-> [k \in Tasks |-> IF k \in Updated(u) THEN u.life[k] ELSE r.life[k]],
   owner     |-> [t \in Turns |->
                    r.owner[t] \cup {k \in Updated(u) : t \in u.cover[k]}]]

\* mapTaskUpdatesToRegistryPatch and applySessionTaskRegistryPatch.
Apply(r, h, u) ==
  [version   |-> r.version + 1,
   watermark |-> h,
   life      |-> [k \in Tasks |-> IF k \in Updated(u) THEN u.life[k] ELSE r.life[k]],
   owner     |-> [t \in Turns |->
                    r.owner[t] \cup {k \in Updated(u) : t \in u.cover[k]}]]

-------------------------------------------------------------------------------
\* The plan.  A block's tasks are those known before the estimate, if there are any:
\* the planner does not look at the tasks the estimate adds to its turns.
BlockOwners(r, n, h, c) ==
  IF Owners(r, h, c) # {} THEN Owners(r, h, c) ELSE Owners(n, h, c)

Protected(r, n) ==
  {k \in Tasks : r.life[k] = "active" \/ n.life[k] \in {"active", "held"}}

Candidates(r, n, h) ==
  {c \in Pairs(h) :
     /\ h \notin Result(h, c)
     /\ BlockOwners(r, n, h, c) \cap Protected(r, n) = {}
     /\ \E k \in BlockOwners(r, n, h, c) : n.life[k] = "evictable"}

\* Mutant: validation trusts the tasks the planner saw.
ApplicableAsPlanned(r, n, h, c) ==
  \A k \in BlockOwners(r, n, h, c) : n.life[k] # "active"

\* Validation against the registry after the estimate: no active task, and no pair of
\* the same tasks that is mixed by now.
Applicable(r, n, h, c) ==
  LET tasks == BlockOwners(r, n, h, c) \cup Owners(n, h, c) IN
  /\ \A k \in tasks : n.life[k] # "active"
  /\ \A g \in Pairs(h) :
       Mixed(n, h, g) => g # c /\ Owners(n, h, g) \cap tasks = {}

\* Short results and unresolved targets are left out; what remains must be
\* applicable as a whole.
Plans(r, n, h) ==
  {q \in SUBSET Candidates(r, n, h) : \A c \in q : Applicable(r, n, h, c)}

-------------------------------------------------------------------------------
Goto(p, label, l) ==
  /\ pc'  = [pc  EXCEPT ![p] = label]
  /\ loc' = [loc EXCEPT ![p] = l]

\* The request goes on as it came.
Forward(p) == Goto(p, "forward", [NoLocal EXCEPT !.turn = loc[p].turn, !.head = loc[p].head])

Release(p) == lock' = IF lock = p THEN None ELSE lock

\* A request arrives; the journal gives it the next number.
Begin(p) ==
  /\ pc[p] = "idle" /\ turns < MaxTurn
  /\ \E h \in committed \cup {0} :
       /\ path' = [path EXCEPT ![turns + 1] = path[h] \cup {turns + 1}]
       /\ Goto(p, "plan", [NoLocal EXCEPT !.turn = turns + 1, !.head = h])
  /\ turns' = turns + 1
  /\ UNCHANGED <<committed, called, gone, registry, analysed, lock>>

\* runCodexLifecyclePlanner: the lock, then the registry.
EnterPlanner(p) ==
  /\ pc[p] = "plan" /\ lock = None /\ lock' = p
  /\ ReadyForEstimate(registry, loc[p].head)
  /\ Goto(p, "estimate", [loc[p] EXCEPT !.base = registry])
  /\ UNCHANGED <<history, registry, analysed>>

\* The lock is busy, the input is deferred, or the Context Cleaner has the request.
SkipPlanner(p) ==
  /\ pc[p] = "plan"
  /\ Forward(p)
  /\ UNCHANGED <<history, registry, analysed, lock>>

\* The estimate is accepted: the registry is stored if nobody changed it, and only
\* then the plan is handed over, for the version just stored.
Estimated(p) ==
  /\ pc[p] = "estimate"
  /\ registry.version = loc[p].base.version
  /\ LET r == loc[p].base  h == loc[p].head IN
       \E u \in Answers(r, h) :
         /\ registry' = Apply(r, h, u)
         /\ \/ Forward(p)
            \/ \E q \in Plans(r, registry', h) \ {{}} :
                 Goto(p, "ready", [loc[p] EXCEPT !.base = EmptyRegistry, !.plan = q,
                                                 !.version = r.version + 1])
         /\ analysed' = [t \in Turns |->
                           IF t \in Delta(r, h) THEN analysed[t] + 1 ELSE analysed[t]]
  /\ Release(p)
  /\ UNCHANGED history

\* The estimator fails, answers for another version or other turns, an update is
\* rejected, or the registry cannot be stored: nothing changes.
NotEstimated(p) ==
  /\ pc[p] = "estimate"
  /\ Forward(p) /\ Release(p)
  /\ UNCHANGED <<history, registry, analysed>>

-------------------------------------------------------------------------------
\* Mutant: the handoff is not revalidated.
ExecuteUnchecked(p) ==
  /\ pc[p] = "ready" /\ lock = None /\ lock' = p
  /\ Goto(p, "inflight", loc[p])
  /\ UNCHANGED <<history, registry, analysed>>

\* executeCodexRebaseWithFallback takes the lock again and asks
\* revalidateCodexLifecyclePreparedPlan.  A committed history does not change, so the
\* snapshot is the one of the plan if the registry is.
Execute(p) ==
  /\ pc[p] = "ready" /\ lock = None /\ lock' = p
  /\ registry.version = loc[p].version
  /\ Goto(p, "inflight", loc[p])
  /\ UNCHANGED <<history, registry, analysed>>

\* Busy lock, changed registry, a pending epoch, cooldown or missing capability.
SkipRebase(p) ==
  /\ pc[p] = "ready"
  /\ Forward(p)
  /\ UNCHANGED <<history, registry, analysed, lock>>

\* A response is journaled; it may end with a tool call.
Commit(p, dropped) ==
  /\ committed' = committed \cup {loc[p].turn}
  /\ called' \in {called, called \cup {loc[p].turn}}
  /\ gone' = [gone EXCEPT ![loc[p].turn] = gone[loc[p].head] \cup dropped]

\* The provider accepted the new chain.
Accepted(p) ==
  /\ pc[p] = "inflight"
  /\ Commit(p, loc[p].plan)
  /\ Goto(p, "idle", NoLocal) /\ Release(p)
  /\ UNCHANGED <<turns, path, registry, analysed>>

\* The request goes out as it came: never rewritten, or as the fallback.
Answered(p) ==
  /\ pc[p] \in {"forward", "inflight"}
  /\ Commit(p, {})
  /\ Goto(p, "idle", NoLocal) /\ Release(p)
  /\ UNCHANGED <<turns, path, registry, analysed>>

\* No response; also a process that dies, whose lock can be taken over at once.
Lost(p) ==
  /\ pc[p] # "idle"
  /\ Goto(p, "idle", NoLocal) /\ Release(p)
  /\ UNCHANGED <<history, registry, analysed>>

-------------------------------------------------------------------------------
Planning(p)  == EnterPlanner(p) \/ SkipPlanner(p) \/ Estimated(p) \/ NotEstimated(p)
Executing(p) == Execute(p) \/ SkipRebase(p) \/ Accepted(p) \/ Answered(p) \/ Lost(p)

Next == \E p \in Procs : Begin(p) \/ Planning(p) \/ Executing(p)

Spec == Init /\ [][Next]_vars

-------------------------------------------------------------------------------
\* What may leave the context: results of tasks the registry calls evictable, shared
\* with no task that is active, blocked or has open questions, and not of the turn
\* the request continues.
Finished(r, h, c) ==
  /\ h \notin Result(h, c)
  /\ \E k \in Owners(r, h, c) : r.life[k] = "evictable"
  /\ \A k \in Owners(r, h, c) : r.life[k] \notin {"active", "held"}

\* Whatever the estimator said and whoever changed the registry between planning and
\* execution, what a new response chain drops is finished by the registry of that
\* moment, although the planner judged each block by the tasks it had before.
RemovedIsFinished ==
  [][\A p \in Procs : LET t == loc[p].turn  h == loc[p].head IN
       \A c \in gone'[t] \ (gone[t] \cup gone[h]) : Finished(registry, h, c)]_vars

\* No turn is given to the estimator again after an accepted answer, and tasks own
\* analysed turns only.
TurnsAnalysedOnce ==
  \A t \in Turns :
    /\ analysed[t] <= 1
    /\ registry.owner[t] # {} => analysed[t] = 1
    /\ analysed[t] = 1 => t <= registry.watermark

\* The registry moves one version at a time and never back: the watermark grows and
\* no turn loses a task.
RegistryMovesForward ==
  [][registry' # registry =>
       /\ registry'.version = registry.version + 1
       /\ registry'.watermark > registry.watermark
       /\ \A t \in Turns : registry.owner[t] \subseteq registry'.owner[t]]_vars
=============================================================================
