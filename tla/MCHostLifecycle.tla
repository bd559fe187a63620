---------------------------- MODULE MCHostLifecycle ----------------------------
(***************************************************************************)
(* The hosts whose requests are analysed by an estimator: a behaviour is   *)
(* one session of Codex, the analysis or the plans of a session of Claude  *)
(* Code, a session of a host that evicts by the canonical cycle, or the    *)
(* queue that OpenClaw's evictions fill; the others stay as they began.    *)
(***************************************************************************)
EXTENDS CodexLifecycle, ClaudeLifecycle, ClaudePlans, CanonicalEviction, MemoryQueue, TLC

CONSTANTS p1, p2, a, b, m1, m2, f1, f2, l1, s, u

VARIABLE host

hostVars == <<host, vars, semVars, planVars, canVars, mqVars>>

\* 1 -> 2 -> 3 and 1 -> 4 -> 5: the result of turn 1's call was sent twice.
TwoBranches ==
  [t \in 0..5 |-> CASE t = 0 -> {} [] t = 1 -> {1} [] t = 2 -> {1, 2} [] t = 3 -> {1, 2, 3}
                    [] t = 4 -> {1, 4} [] t = 5 -> {1, 4, 5}]

HostInit ==
  /\ host \in {"codex", "claude", "plans", "canonical", "memory"}
  /\ Init /\ SemanticInit /\ PlanInit /\ CanonicalInit /\ MemoryInit
  /\ host # "canonical" => canHost = "pi"

CodexSession  == host = "codex" /\ Next /\ UNCHANGED <<host, semVars, planVars, canVars, mqVars>>
ClaudeSession == host = "claude" /\ SemanticNext /\ UNCHANGED <<host, vars, planVars, canVars, mqVars>>
PlanSession   == host = "plans" /\ PlanNext /\ UNCHANGED <<host, vars, semVars, canVars, mqVars>>
CanonicalSession == host = "canonical" /\ CanonicalNext /\ UNCHANGED <<host, vars, semVars, planVars, mqVars>>
MemorySession == host = "memory" /\ MemoryNext /\ UNCHANGED <<host, vars, semVars, planVars, canVars>>

HostSession ==
  CodexSession \/ ClaudeSession \/ PlanSession \/ CanonicalSession \/ MemorySession

HostSpec == HostInit /\ [][HostSession]_hostVars

\* A session for each entry.
EachItsSession == {{a}, {b}}

\* A string and a list in one operation.
OneOperation == {{s, u}}

\* Processes, tasks and messages are interchangeable.
Symmetric == Permutations({p1, p2}) \cup Permutations(Tasks) \cup Permutations(SemMessages)
===============================================================================
