--------------------------- MODULE OpenClawEviction ---------------------------
(***************************************************************************)
(* Automatic eviction of an OpenClaw session: the estimator, and the       *)
(* context engine (adapters/openclaw/src/context-stack), which keeps a     *)
(* copy of the transcript, anchors its messages to turns and takes the     *)
(* messages of evictable tasks out of it.  The engine works under the      *)
(* session's lock, the estimator under none.                               *)
(*                                                                         *)
(* Which tasks are deferred for an open tool call, or are too small, is a  *)
(* free choice.                                                            *)
(***************************************************************************)
EXTENDS OpenClawEstimator

VARIABLES
  oeDrop,     \* replacementMode: drop, or a stub for the task
  oeKind,     \* the copy: what has become of each message
  oeAnchor,   \* turn a message is anchored to; 0: none
  oeOwners,   \* tasks noted at a message
  oeArchive,  \* messages in the archive of each task
  oeCommit,   \* what the engine is about to save
  oeReused,   \* history: messages taken out although their task had an archive
  oeAstray    \* history: anchors were given where counting turns goes wrong

oeCopy   == <<oeKind, oeAnchor, oeOwners>>
oeEngine == <<oeDrop, oeCopy, oeArchive, oeCommit, oeReused, oeAstray>>
oeVars   == <<oeEstVars, oeEngine>>

OeInit ==
  /\ OeEstimatorInit
  /\ oeDrop \in BOOLEAN /\ (oeMode = "two_state" => oeDrop)
  /\ oeKind = [m \in OeMessages |-> "unseen"]
  /\ oeAnchor = [m \in OeMessages |-> 0] /\ oeOwners = [m \in OeMessages |-> {}]
  /\ oeArchive = [k \in OeTasks |-> {}]
  /\ oeCommit = [on |-> FALSE]
  /\ oeReused = {} /\ oeAstray = FALSE

OeAnchored  == {t \in OeTurns : oeRegistry.owners[t] # {}}
OeEvictable == {k \in OeTasks : oeRegistry.life[k] = "evictable"}

\* The copy with the messages of the transcript it has not seen.
OeSynced ==
  [m \in OeMessages |-> IF m <= oeSaid /\ oeKind[m] = "unseen" THEN "live" ELSE oeKind[m]]

\* Mutant: every message goes on with the anchor before it.
OeAnchorsFollow(m, before) ==
  CASE OeSynced[m] # "live"       -> before
    [] oeAnchor[m] \in OeAnchored -> oeAnchor[m]
    [] OTHER                      -> IF before = 0 THEN Min(OeAnchored) ELSE before

\* The anchor of a message, given that of the message before it: its own while
\* its tasks are still those of that turn, else what a user says is the next
\* turn that has tasks, if there is one, and the agent's work stays with it.
OeAnchorOf(m, before) ==
  LET back == IF oeAnchor[m] \in OeAnchored THEN oeAnchor[m] ELSE before
      next == {t \in OeAnchored : t > back}
  IN  CASE OeSynced[m] # "live" -> before
        [] oeAnchor[m] \in OeAnchored /\ oeOwners[m] = oeRegistry.owners[back] -> back
        [] OTHER -> IF OeByUser(m) /\ next # {} THEN Min(next)
                    ELSE IF back = 0 THEN Min(OeAnchored) ELSE back

OeAnchors ==
  LET upTo[m \in 0..(2 * OeMaxTurns)] == IF m = 0 THEN 0 ELSE OeAnchorOf(m, upTo[m - 1])
  IN  [m \in OeMessages |->
         IF OeSynced[m] = "live" /\ OeAnchored # {} THEN upTo[m] ELSE oeAnchor[m]]

\* Counting goes wrong at a message that has no anchor yet although its turn has
\* no tasks, or follows one that has left the copy, and at what a user said in a
\* turn whose tasks are others by now.
OeCountsWrong ==
  /\ OeAnchored # {}
  /\ \E m \in OeMessages :
       /\ OeSynced[m] = "live"
       /\ IF oeAnchor[m] \in OeAnchored
            THEN OeByUser(m) /\ oeOwners[m] # oeRegistry.owners[oeAnchor[m]]
            ELSE OeTurnOf(m) \notin OeAnchored \/ (m > 1 /\ OeSynced[m - 1] # "live")

OeNotes(anchors) ==
  [m \in OeMessages |-> IF OeSynced[m] = "live" /\ anchors[m] # 0
                          THEN oeRegistry.owners[anchors[m]] ELSE oeOwners[m]]

\* The messages that would leave for a task: of the evictable tasks it is the only one.
OeBundle(k, notes) ==
  {m \in OeMessages : OeSynced[m] = "live" /\ notes[m] \cap OeEvictable = {k}}

OeStubbed == {k \in OeTasks : \E m \in OeMessages : oeKind[m] = "stub" /\ k \in oeOwners[m]}

\* The transcript and the registry are read and it is decided what leaves.  When
\* nothing does, the copy is saved with what is new in it.
OeRead ==
  /\ ~oeCommit.on
  /\ LET anchors == OeAnchors
         notes   == OeNotes(anchors)
     IN  \E taken \in SUBSET {k \in OeEvictable \ OeStubbed : OeBundle(k, notes) # {}} :
           IF taken = {}
           THEN /\ oeKind' = OeSynced /\ oeAnchor' = anchors /\ oeOwners' = notes
                /\ UNCHANGED oeCommit
           ELSE /\ oeCommit' = [on |-> TRUE, left |-> taken,
                                take |-> [k \in taken |-> OeBundle(k, notes)],
                                kind |-> OeSynced, anchor |-> anchors, notes |-> notes,
                                owners |-> oeRegistry.owners]
                /\ UNCHANGED oeCopy
  /\ oeAstray' = (oeAstray \/ OeCountsWrong)
  /\ UNCHANGED <<oeEstimator, oeDrop, oeArchive, oeReused, oeFaults>>

\* A task that has an archive gets no other one.
OeArchives(k) ==
  /\ oeCommit.on /\ k \in oeCommit.left
  /\ IF oeArchive[k] = {}
     THEN oeArchive' = [oeArchive EXCEPT ![k] = oeCommit.take[k]] /\ UNCHANGED oeReused
     ELSE oeReused' = oeReused \cup oeCommit.take[k] /\ UNCHANGED oeArchive
  /\ oeCommit' = [oeCommit EXCEPT !.left = @ \ {k}]
  /\ UNCHANGED <<oeEstimator, oeDrop, oeCopy, oeAstray, oeFaults>>

\* Messages a save would take out of the copy.
OeTaken == UNION {oeCommit.take[k] : k \in DOMAIN oeCommit.take}

\* A stub stands where the first message of the task was.
OeStubs ==
  {m \in OeTaken : ~oeDrop /\ \E k \in DOMAIN oeCommit.take :
                     m \in oeCommit.take[k] /\ \A n \in oeCommit.take[k] : m <= n}

OeSaves ==
  /\ oeKind' = [m \in OeMessages |->
       IF m \in OeStubs THEN "stub" ELSE IF m \in OeTaken THEN "gone" ELSE oeCommit.kind[m]]
  /\ oeAnchor' = oeCommit.anchor
  /\ oeOwners' = [m \in OeMessages |->
       IF m \in OeStubs THEN {CHOOSE k \in DOMAIN oeCommit.take : m \in oeCommit.take[k]}
       ELSE oeCommit.notes[m]]
  /\ oeCommit' = [on |-> FALSE]
  /\ UNCHANGED <<oeEstimator, oeDrop, oeArchive, oeReused, oeAstray, oeFaults>>

\* Mutant: the copy is saved while archives are still to be written.
OeSavedEarly == oeCommit.on /\ OeSaves

OeSaved == oeCommit.on /\ oeCommit.left = {} /\ OeSaves

OeEngineDies ==
  /\ oeCommit.on /\ oeFaults < OeMaxFaults
  /\ oeCommit' = [on |-> FALSE] /\ oeFaults' = oeFaults + 1
  /\ UNCHANGED <<oeEstimator, oeDrop, oeCopy, oeArchive, oeReused, oeAstray>>

OeNext ==
  \/ OeEstimates /\ UNCHANGED oeEngine
  \/ OeRead \/ OeSaved \/ OeEngineDies
  \/ \E k \in OeTasks : OeArchives(k)

OeSpec == OeInit /\ [][OeNext]_oeVars

\* A message that has left the copy, and one a save is about to take out, is in an
\* archive, whatever died in between; only a task that had an archive before leaves more
\* than was archived.
LeftIsArchived ==
  \A m \in OeMessages :
    oeKind[m] \in {"stub", "gone"} => m \in oeReused \/ \E k \in OeTasks : m \in oeArchive[k]

\* What the engine takes out for a task is of a turn the estimator gave to that task,
\* although it finds the turn by counting what users said.  It is not so once it counted
\* across a turn without tasks, behind a message that had left, or from a turn that was
\* estimated twice.
EvictsTurnsOfTheTask ==
  (oeCommit.on /\ ~oeAstray) =>
    \A k \in DOMAIN oeCommit.take : \A m \in oeCommit.take[k] :
      k \in oeCommit.owners[OeTurnOf(m)]
===============================================================================
