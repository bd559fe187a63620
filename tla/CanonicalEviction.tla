--------------------------- MODULE CanonicalEviction ---------------------------
(***************************************************************************)
(* Automatic eviction on a canonical surface: the cycle shared by OpenCode,*)
(* pi and the DeepSeek Harness                                             *)
(* (components/packages/features/eviction/src/canonical-surface).          *)
(*                                                                         *)
(* A session is a row of turns, each with one item that may be replaced by *)
(* a stub.  A cycle loads the task registry, has the turns above its       *)
(* watermark estimated, saves what the tasks are, replaces the items of    *)
(* finished turns, and saves the watermark.  OpenCode keeps the stubs in   *)
(* an overlay file that it lays over every request, the harness in its     *)
(* event log, and pi appends the edits once the hook has returned.         *)
(* OpenCode and pi count turns from the first message they are shown; the  *)
(* harness takes the number from the event.                                *)
(*                                                                         *)
(* Cycles of one session follow each other, as the hooks of these hosts    *)
(* do.  The host may die and a call may fail at every step.                *)
(***************************************************************************)
EXTENDS Naturals, FiniteSets, Sequences

CONSTANTS
  CanTasks,     \* tasks an estimator may name
  CanMaxTurns,  \* turns of a session
  CanMaxFaults  \* failures and deaths

ASSUME CanonicalAssumption == CanMaxTurns \in Nat /\ CanMaxFaults \in Nat

CanTurns == 1..CanMaxTurns

\* "tracking" is the harness with a Cleaner and without automatic eviction.
CanHosts == {"opencode", "pi", "dsh", "tracking"}

VARIABLES
  canHost,
  canSurface,  \* the turns the host shows, in order
  canMade,     \* turns begun so far
  canStubs,    \* turns replaced by a stub: overlay file, context edits, or events
  canRegistry, \* the task registry file
  canPc,       \* what the cycle does next
  canOverlay,  \* the overlay the request holds
  canTo,       \* the turn the cycle's delta ends with; 0: there is no delta
  canDrafts,   \* edits pi has been handed and has not appended
  canTruth,    \* history: the tasks estimates gave to each turn
  canSent,     \* history: turns the model was shown as stubs on this branch
  canMoved,    \* history: a turn got another number
  canUnread,   \* history: the overlay could not be read
  canFaults

canSession == <<canHost, canSurface, canMade, canMoved>>
canCycle   == <<canPc, canOverlay, canTo, canDrafts>>
canHistory == <<canTruth, canSent, canUnread>>
canVars    == <<canSession, canStubs, canRegistry, canCycle, canHistory, canFaults>>

CanShown == {canSurface[i] : i \in DOMAIN canSurface}

Renumbers == canHost \in {"opencode", "pi"}

\* The number a position of the surface has in the registry.
NumberAt(i) == IF Renumbers THEN i ELSE canSurface[i]

LastNumber == IF canSurface = <<>> THEN 0 ELSE NumberAt(Len(canSurface))

\* Positions whose turns are above the watermark.
Covered == {i \in DOMAIN canSurface : NumberAt(i) > canRegistry.mark}

\* Mutant: a turn without tasks counts as finished.
CompletedWithoutOwners(n) == canRegistry.owners[n] \subseteq canRegistry.done

\* Every task of the turn with this number is finished, and it has one.
Completed(n) ==
  canRegistry.owners[n] # {} /\ canRegistry.owners[n] \subseteq canRegistry.done

\* The turns whose stubs a request shows.
CanVisible == IF canHost = "opencode" THEN canOverlay ELSE canStubs

\* Mutant: only the turns of the delta are looked at.
EvictFromDelta ==
  {canSurface[i] : i \in {j \in Covered :
     NumberAt(j) < LastNumber /\ canSurface[j] \notin CanVisible /\ Completed(NumberAt(j))}}

\* The items the safety policy lets go: not of the current turn, not yet replaced.
ToEvict ==
  {canSurface[i] : i \in {j \in DOMAIN canSurface :
     NumberAt(j) < LastNumber /\ canSurface[j] \notin CanVisible /\ Completed(NumberAt(j))}}

(* The host ***************************************************************)

CanonicalInit ==
  /\ canHost \in CanHosts
  /\ canSurface = <<>> /\ canMade = 0 /\ canMoved = FALSE
  /\ canStubs = {}
  /\ canRegistry = [mark |-> 0, owners |-> [n \in CanTurns |-> {}], done |-> {}]
  /\ canPc = "idle" /\ canOverlay = {} /\ canTo = 0 /\ canDrafts = {}
  /\ canTruth = [t \in CanTurns |-> {}] /\ canSent = {} /\ canUnread = FALSE
  /\ canFaults = 0

CanonicalPrompt ==
  /\ canPc = "idle" /\ canMade < CanMaxTurns
  /\ canMade' = canMade + 1
  /\ canSurface' = Append(canSurface, canMade + 1)
  /\ UNCHANGED <<canHost, canMoved, canStubs, canRegistry, canCycle, canHistory, canFaults>>

\* The host puts a summary in the place of its oldest turns; no cycle sees a
\* surface without turns, so the newest one may as well be kept.
CanonicalCompact ==
  /\ canPc = "idle"
  /\ \E k \in 1..(Len(canSurface) - 1) :
       canSurface' = SubSeq(canSurface, k + 1, Len(canSurface))
  /\ canMoved' = (canMoved \/ Renumbers)
  /\ UNCHANGED <<canHost, canMade, canStubs, canRegistry, canCycle, canHistory, canFaults>>

\* pi goes on from an earlier entry of the session's tree; the edits appended
\* after that entry are left behind with the turns.
CanonicalBranch ==
  /\ canPc = "idle" /\ canHost = "pi"
  /\ \E k \in 1..(Len(canSurface) - 1) : canSurface' = SubSeq(canSurface, 1, k)
  /\ canStubs' \in SUBSET canStubs
  /\ canSent' = canSent \cap canStubs'
  /\ canMoved' = TRUE
  /\ UNCHANGED <<canHost, canMade, canRegistry, canCycle, canTruth, canUnread, canFaults>>

(* The cycle **************************************************************)

\* The overlay and the registry are loaded and the delta is built.
CanonicalBegin ==
  /\ canPc = "idle" /\ canSurface # <<>>
  /\ \/ canOverlay' = canStubs /\ UNCHANGED <<canUnread, canFaults>>
     \/ /\ canHost = "opencode" /\ canFaults < CanMaxFaults
        /\ canOverlay' = {} /\ canUnread' = TRUE /\ canFaults' = canFaults + 1
  /\ canTo' = IF Covered = {} THEN 0 ELSE LastNumber
  /\ canPc' = IF Covered = {} THEN "decide" ELSE "estimate"
  /\ UNCHANGED <<canSession, canStubs, canRegistry, canDrafts, canTruth, canSent>>

\* The estimator's answer is saved, the watermark stays behind.
CanonicalEstimated ==
  /\ canPc = "estimate"
  /\ \E told \in SUBSET CanTasks : \E finished \in SUBSET told, given \in [Covered -> SUBSET told] :
       /\ canRegistry' =
            [canRegistry EXCEPT
               !.owners = [n \in CanTurns |->
                 @[n] \cup UNION {given[i] : i \in {j \in Covered : NumberAt(j) = n}}],
               !.done = (@ \ told) \cup finished]
       /\ canTruth' =
            [t \in CanTurns |->
               canTruth[t] \cup UNION {given[i] : i \in {j \in Covered : canSurface[j] = t}}]
  /\ canPc' = "decide"
  /\ UNCHANGED <<canSession, canStubs, canOverlay, canTo, canDrafts, canSent, canUnread, canFaults>>

\* Something fails: the request goes on with what it has.
CanonicalFails ==
  /\ canPc \in {"estimate", "decide"} /\ canFaults < CanMaxFaults
  /\ canPc' = "send" /\ canFaults' = canFaults + 1
  /\ UNCHANGED <<canSession, canStubs, canRegistry, canOverlay, canTo, canDrafts, canHistory>>

\* Nothing may leave, or the surface may not be changed.
CanonicalKeeps ==
  /\ canPc = "decide" /\ (ToEvict = {} \/ canHost = "tracking")
  /\ canPc' = "advance"
  /\ UNCHANGED <<canSession, canStubs, canRegistry, canOverlay, canTo, canDrafts, canHistory, canFaults>>

\* Mutant: the overlay is saved with the new stubs only.
OverlayOverwritten ==
  /\ canHost = "opencode"
  /\ canOverlay' = canOverlay \cup ToEvict
  /\ canStubs' = ToEvict
  /\ canPc' = "advance"
  /\ UNCHANGED <<canDrafts, canFaults>>

\* The overlay is saved with the stubs it had and the new ones.
OverlaySaved ==
  /\ canHost = "opencode"
  /\ canOverlay' = canOverlay \cup ToEvict
  /\ canStubs' = canOverlay \cup ToEvict
  /\ canPc' = "advance"
  /\ UNCHANGED <<canDrafts, canFaults>>

\* pi's drafts count as committed when they have been built.
DraftsBuilt ==
  /\ canHost = "pi"
  /\ canDrafts' = ToEvict
  /\ canPc' = "advance"
  /\ UNCHANGED <<canStubs, canOverlay, canFaults>>

\* The harness appends one replacement after the other and may stop among them.
EventsAppended ==
  /\ canHost = "dsh"
  /\ \E landed \in (SUBSET ToEvict) \ {{}} :
       /\ canStubs' = canStubs \cup landed
       /\ IF landed = ToEvict
            THEN canPc' = "advance" /\ UNCHANGED canFaults
            ELSE /\ canFaults < CanMaxFaults /\ canFaults' = canFaults + 1
                 /\ canPc' = "send"
  /\ UNCHANGED <<canOverlay, canDrafts>>

CanonicalApplies ==
  /\ canPc = "decide" /\ ToEvict # {}
  /\ OverlaySaved \/ DraftsBuilt \/ EventsAppended
  /\ UNCHANGED <<canSession, canRegistry, canTo, canHistory>>

\* The watermark follows the surface; a failed save is tolerated.
CanonicalAdvances ==
  /\ canPc = "advance"
  /\ \/ /\ canRegistry' = IF canTo = 0 THEN canRegistry ELSE [canRegistry EXCEPT !.mark = canTo]
        /\ UNCHANGED canFaults
     \/ /\ canTo # 0 /\ canFaults < CanMaxFaults
        /\ canFaults' = canFaults + 1 /\ UNCHANGED canRegistry
  /\ canPc' = "send"
  /\ UNCHANGED <<canSession, canStubs, canOverlay, canTo, canDrafts, canHistory>>

\* pi appends the edits the hook returned; the request shows the stubs.
CanonicalSend ==
  /\ canPc = "send"
  /\ canStubs' = canStubs \cup canDrafts
  /\ canSent' = canSent \cup (CanShown \cap (CanVisible \cup canDrafts))
  /\ canPc' = "idle" /\ canDrafts' = {} /\ canOverlay' = {} /\ canTo' = 0
  /\ UNCHANGED <<canSession, canRegistry, canTruth, canUnread, canFaults>>

CanonicalDies ==
  /\ canPc # "idle" /\ canFaults < CanMaxFaults
  /\ canPc' = "idle" /\ canDrafts' = {} /\ canOverlay' = {} /\ canTo' = 0
  /\ canFaults' = canFaults + 1
  /\ UNCHANGED <<canSession, canStubs, canRegistry, canHistory>>

CanonicalNext ==
  \/ CanonicalPrompt \/ CanonicalCompact \/ CanonicalBranch
  \/ CanonicalBegin \/ CanonicalEstimated \/ CanonicalFails \/ CanonicalKeeps
  \/ CanonicalApplies \/ CanonicalAdvances \/ CanonicalSend \/ CanonicalDies

CanonicalSpec == CanonicalInit /\ [][CanonicalNext]_canVars

\* Requests keep coming and a cycle that has begun goes on.
CanonicalFairness ==
  /\ WF_canVars(CanonicalBegin) /\ WF_canVars(CanonicalEstimated)
  /\ WF_canVars(CanonicalKeeps) /\ WF_canVars(CanonicalApplies)
  /\ WF_canVars(CanonicalAdvances) /\ WF_canVars(CanonicalSend)

(* Properties *************************************************************)

CanonicalTypeOK ==
  /\ canHost \in CanHosts
  /\ canSurface \in Seq(CanTurns) /\ canMade \in 0..CanMaxTurns
  /\ canStubs \subseteq CanTurns
  /\ canRegistry \in [mark : 0..CanMaxTurns, owners : [CanTurns -> SUBSET CanTasks],
                      done : SUBSET CanTasks]
  /\ canPc \in {"idle", "estimate", "decide", "advance", "send"}
  /\ canOverlay \subseteq CanTurns /\ canTo \in 0..CanMaxTurns /\ canDrafts \subseteq CanTurns
  /\ canTruth \in [CanTurns -> SUBSET CanTasks] /\ canSent \subseteq CanTurns
  /\ canMoved \in BOOLEAN /\ canUnread \in BOOLEAN /\ canFaults \in 0..CanMaxFaults

\* Whatever a cycle is about to take away, an estimate gave that very turn tasks,
\* and all of them are finished.  Once the host has moved its turns to other
\* numbers this is not so: a turn then inherits the tasks of the one that had its
\* number before, and lies below the watermark without having been estimated.
EvictsFinishedTurns ==
  (canPc = "decide" /\ ~canMoved) =>
    \A t \in ToEvict : canTruth[t] # {} /\ canTruth[t] \subseteq canRegistry.done

\* A turn the model has been shown as a stub is shown as a stub by every later
\* request, whatever was saved, lost or repeated in between.  An overlay that
\* could not be read is taken for an empty one and may be replaced by one.
EvictionsStay ==
  (canPc = "send" /\ ~canUnread) => canSent \cap CanShown \subseteq CanVisible \cup canDrafts

TurnIsFinished(t) ==
  \E i \in DOMAIN canSurface :
    canSurface[i] = t /\ NumberAt(i) < LastNumber /\ Completed(NumberAt(i))

\* A finished turn is replaced in the end unless its tasks are reopened or it is
\* gone: no failed save, partial application or watermark hides it for ever.
FinishedTurnsLeave ==
  \A t \in CanTurns :
    (canHost # "tracking" /\ TurnIsFinished(t)) ~> (t \in canStubs \/ ~TurnIsFinished(t))
===============================================================================
