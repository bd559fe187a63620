-------------------------- MODULE OpenClawEstimator --------------------------
(***************************************************************************)
(* The estimator that TokenPilot runs in OpenClaw's proxy                  *)
(* (presets/tokenpilot/src/policy.ts): it gives the turns of a session to  *)
(* tasks and says which tasks are finished.                                *)
(*                                                                         *)
(* A session is a row of messages; a turn has two, what the user says and  *)
(* what the agent does.  A run loads the registry, asks a model about a    *)
(* window of turns, leaves a marker, compares the version of the registry  *)
(* and replaces the file; nothing keeps two runs apart.                    *)
(*                                                                         *)
(* "active" stands for active and blocked tasks.  What the model says, and *)
(* which completed tasks are the most recent ones, are free choices.       *)
(***************************************************************************)
EXTENDS Naturals, FiniteSets, FiniteSetsExt

CONSTANTS
  OeTasks,      \* tasks an estimator may name
  OeMaxTurns,   \* turns of a session
  OeBatch,      \* batchTurns
  OeHotTail,    \* completed tasks that decoupled mode does not promote
  OeClients,    \* requests that may run the estimator at the same time
  OeMaxFaults   \* failures and deaths

ASSUME OeAssumption ==
  /\ OeMaxTurns \in Nat /\ OeBatch \in Nat \ {0}
  /\ OeHotTail \in Nat /\ OeMaxFaults \in Nat

OeTurns    == 1..OeMaxTurns
OeMessages == 1..(2 * OeMaxTurns)

OeTurnOf(m) == (m + 1) \div 2
OeByUser(m) == m % 2 = 1

OeLives == {"none", "active", "completed", "evictable"}

VARIABLES
  oeMode,     \* lifecycle and evidence mode
  oeReread,   \* the window goes back to the first turn of an unfinished task
  oeSaid,     \* messages of the transcript
  oeRegistry, \* the task registry file
  oeMarker,   \* estimator-last-run.json
  oeRun,      \* what a run does next, and the registry it loaded
  oeStranded, \* history: a marker was left for a window nobody stored
  oeFaults

oeEstimator == <<oeMode, oeReread, oeSaid, oeRegistry, oeMarker, oeRun, oeStranded>>
oeEstVars   == <<oeEstimator, oeFaults>>

OeMade == OeTurnOf(oeSaid)

OeNoTasks == [version |-> 0, mark |-> 0, owners |-> [t \in OeTurns |-> {}],
              life |-> [k \in OeTasks |-> "none"]]

OeNoRun    == [step |-> "idle", read |-> OeNoTasks]
OeNoMarker == [version |-> 0, from |-> 0, to |-> 0]

OeEstimatorInit ==
  /\ oeMode \in {"coupled", "decoupled", "two_state"}
  /\ oeReread \in BOOLEAN /\ (oeMode = "two_state" => ~oeReread)
  /\ oeSaid = 0 /\ oeRegistry = OeNoTasks /\ oeMarker = OeNoMarker
  /\ oeRun = [p \in OeClients |-> OeNoRun]
  /\ oeStranded = FALSE /\ oeFaults = 0

\* The turns the next run is about, once there are enough of them.
OeFirst(r) ==
  LET open == {t \in OeTurns : t <= r.mark /\ \E k \in r.owners[t] : r.life[k] = "active"}
  IN  IF oeReread /\ open # {} THEN Min(open) ELSE r.mark + 1

OeWindow(r) == OeFirst(r)..(r.mark + OeBatch)

OePending(r) == r.mark + OeBatch <= OeMade

OeMark(r) == [version |-> r.version, from |-> OeFirst(r), to |-> r.mark + OeBatch]

\* What an update may make of a task.
OeMayBecome(life) ==
  CASE oeMode = "two_state" -> {"active", "evictable"}
    [] oeMode = "decoupled" -> {"active", "completed"}
    [] oeMode = "coupled"   -> {"active", "completed"} \cup
                               (IF life = "active" THEN {} ELSE {"evictable"})

\* The updates of one answer: new lives of the tasks it tells of, and their turns.
OeAnswers(r) ==
  UNION {{[life |-> life, given |-> given] :
           life \in {f \in [told -> OeLives] : \A k \in told : f[k] \in OeMayBecome(r.life[k])},
           given \in {g \in [OeWindow(r) -> SUBSET told] :
                        \A k \in told : r.life[k] = "none" => \E t \in OeWindow(r) : k \in g[t]}} :
         told \in SUBSET OeTasks}

\* Mutant: an answer without updates leaves the registry as it is.
OeAppliedIfTold(r, answer) ==
  IF DOMAIN answer.life = {} THEN r ELSE
  [r EXCEPT !.version = @ + 1, !.mark = @ + OeBatch,
            !.owners = [t \in OeTurns |->
               IF t \in OeWindow(r) THEN @[t] \cup answer.given[t] ELSE @[t]],
            !.life = [k \in OeTasks |->
               IF k \in DOMAIN answer.life THEN answer.life[k] ELSE @[k]]]

OeApplied(r, answer) ==
  [r EXCEPT !.version = @ + 1, !.mark = @ + OeBatch,
            !.owners = [t \in OeTurns |->
               IF t \in OeWindow(r) THEN @[t] \cup answer.given[t] ELSE @[t]],
            !.life = [k \in OeTasks |->
               IF k \in DOMAIN answer.life THEN answer.life[k] ELSE @[k]]]

\* Decoupled mode keeps the hot tail completed and makes the others evictable,
\* which is a second version.
OePromotions(r) ==
  LET completed == {k \in OeTasks : r.life[k] = "completed"}
  IN  IF oeMode # "decoupled" \/ Cardinality(completed) <= OeHotTail THEN {r}
      ELSE {[r EXCEPT !.version = @ + 1,
                      !.life = [k \in OeTasks |->
                         IF k \in completed \ kept THEN "evictable" ELSE @[k]]] :
              kept \in {s \in SUBSET completed : Cardinality(s) = OeHotTail}}

\* A message arrives; its turn is recorded with it.
OeMessage ==
  /\ oeSaid < 2 * OeMaxTurns
  /\ oeSaid' = oeSaid + 1
  /\ UNCHANGED <<oeMode, oeReread, oeRegistry, oeMarker, oeRun, oeStranded, oeFaults>>

OeLoad(p) ==
  /\ oeRun[p].step = "idle"
  /\ OePending(oeRegistry) /\ oeMarker # OeMark(oeRegistry)
  /\ oeRun' = [oeRun EXCEPT ![p] = [step |-> "ask", read |-> oeRegistry]]
  /\ UNCHANGED <<oeMode, oeReread, oeSaid, oeRegistry, oeMarker, oeStranded, oeFaults>>

OeAnswered(p) ==
  /\ oeRun[p].step = "ask"
  /\ oeMarker' = OeMark(oeRun[p].read)
  /\ oeRun' = [oeRun EXCEPT ![p].step = "compare"]
  /\ UNCHANGED <<oeMode, oeReread, oeSaid, oeRegistry, oeStranded, oeFaults>>

OeCompared(p) ==
  /\ oeRun[p].step = "compare"
  /\ oeRun' = [oeRun EXCEPT ![p] =
       IF oeRegistry.version = @.read.version THEN [@ EXCEPT !.step = "store"] ELSE OeNoRun]
  /\ UNCHANGED <<oeMode, oeReread, oeSaid, oeRegistry, oeMarker, oeStranded, oeFaults>>

\* The file is replaced, whatever it has become since the versions were compared.
OeStored(p) ==
  /\ oeRun[p].step = "store"
  /\ \E answer \in OeAnswers(oeRun[p].read) :
       oeRegistry' \in OePromotions(OeApplied(oeRun[p].read, answer))
  /\ oeStranded' = (oeStranded \/ oeRegistry.version # oeRun[p].read.version)
  /\ oeRun' = [oeRun EXCEPT ![p] = OeNoRun]
  /\ UNCHANGED <<oeMode, oeReread, oeSaid, oeMarker, oeFaults>>

\* The model does not answer, a file cannot be written, or the process dies.
OeGivesUp(p) ==
  /\ oeRun[p].step # "idle" /\ oeFaults < OeMaxFaults
  /\ oeFaults' = oeFaults + 1
  /\ oeStranded' = (oeStranded \/ oeRun[p].step # "ask")
  /\ oeRun' = [oeRun EXCEPT ![p] = OeNoRun]
  /\ UNCHANGED <<oeMode, oeReread, oeSaid, oeRegistry, oeMarker>>

\* All the sessions of a state directory share one marker.
OeOtherSession ==
  /\ oeMarker' = OeNoMarker
  /\ UNCHANGED <<oeMode, oeReread, oeSaid, oeRegistry, oeRun, oeStranded, oeFaults>>

OeGoesOn(p) == OeLoad(p) \/ OeAnswered(p) \/ OeCompared(p) \/ OeStored(p)

OeEstimates ==
  \/ OeMessage \/ OeOtherSession
  \/ \E p \in OeClients : OeGoesOn(p) \/ OeGivesUp(p)

\* Requests keep coming, and a run that has begun goes on.
OeFairness == \A p \in OeClients : WF_oeEstVars(OeGoesOn(p))

\* When there are turns enough for a batch, the watermark moves in the end.  A marker that
\* somebody left who then stored nothing, or whose registry was put back, stops that.
BatchesAreEstimated ==
  OePending(oeRegistry) ~> (~OePending(oeRegistry) \/ oeStranded)
================================================================================
