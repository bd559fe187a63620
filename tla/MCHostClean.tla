------------------------------ MODULE MCHostClean ------------------------------
(***************************************************************************)
(* The hosts that execute clean plans on their own, those that evict by    *)
(* the canonical cycle, OpenClaw's automatic eviction, and its estimator   *)
(* alone: a behaviour is one session of one of them, and the others stay   *)
(* in their initial state.                                                 *)
(***************************************************************************)
EXTENDS DshClean, ClaudeClean, OpenClawClean, CanonicalEviction, OpenClawEviction, TLC

CONSTANTS
  p1, p2, a, b, one,
  Hosts  \* the hosts of this run

VARIABLE host

hostVars == <<host, vars, clVars, ocVars, canVars, oeVars>>

HostInit ==
  /\ host \in Hosts
  /\ Init /\ ClaudeInit /\ OpenClawInit /\ CanonicalInit /\ OeInit
  /\ host # "canonical" => canHost = "pi"
  /\ host # "eviction" => oeDrop
  /\ host \notin {"eviction", "estimator"} => oeMode = "coupled" /\ ~oeReread

DshSession      == host = "dsh" /\ Next /\ UNCHANGED <<host, clVars, ocVars, canVars, oeVars>>
ClaudeSession   == host = "claude" /\ ClaudeNext /\ UNCHANGED <<host, vars, ocVars, canVars, oeVars>>
OpenClawSession == host = "openclaw" /\ OpenClawNext /\ UNCHANGED <<host, vars, clVars, canVars, oeVars>>
CanonicalSession == host = "canonical" /\ CanonicalNext /\ UNCHANGED <<host, vars, clVars, ocVars, oeVars>>
EvictionSession == host = "eviction" /\ OeNext /\ UNCHANGED <<host, vars, clVars, ocVars, canVars>>
EstimatorSession ==
  host = "estimator" /\ OeEstimates /\ UNCHANGED <<host, vars, clVars, ocVars, canVars, oeEngine>>

HostSpec ==
  HostInit /\ [][\/ DshSession \/ ClaudeSession \/ OpenClawSession
                 \/ CanonicalSession \/ EvictionSession \/ EstimatorSession]_hostVars

\* What the chosen host does in the end.
HostFairness ==
  \/ host = "dsh" /\ Fairness
  \/ host = "claude" /\ ClaudeFairness
  \/ host = "openclaw" /\ OpenClawFairness
  \/ host = "canonical" /\ CanonicalFairness
  \/ host = "estimator" /\ OeFairness

HostFairSpec == HostSpec /\ HostFairness

\* Whichever host it is, it executes plans as the receipts say; the others do nothing.
HostsExecute == DshExecutes /\ ClaudeExecutes /\ OpenClawExecutes

\* Plans, tasks and operations of every host are interchangeable.
Symmetric == Permutations({p1, p2}) \cup Permutations({a, b})
===============================================================================
