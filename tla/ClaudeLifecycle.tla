---------------------------- MODULE ClaudeLifecycle ----------------------------
(***************************************************************************)
(* How one session of Claude Code numbers, records and analyses its turns. *)
(* The gateway serves requests concurrently.  A request claims a turn,     *)
(* writes its raw record, reads the task registry, lists the records above *)
(* the registry's watermark and has them estimated; the answer becomes the *)
(* next version of the registry if the version is still the one it read.   *)
(*                                                                         *)
(* Claims are serialised by a promise chain of the gateway.  Nothing else  *)
(* is: the compare and the rename of the registry are two steps under no   *)
(* lock, which is all that OpenCode, pi and DeepSeek Harness do as well.   *)
(* Which tasks an estimate names is CodexLifecycle's subject.              *)
(***************************************************************************)
EXTENDS Naturals, FiniteSets

CONSTANTS SemClients,   \* requests in flight
          SemMessages,  \* message arrays a client sends, a retry sends one again
          SemNone,
          SemMaxTurn,   \* bound on the turns of the session
          SemBatch,     \* pending turns that are worth an estimate
          SemMaxUnread  \* bound on claims that cannot read the counter

ASSUME ClaudeLifecycleAssumption ==
  /\ SemNone \notin SemMessages
  /\ SemMaxTurn \in Nat /\ SemMaxUnread \in Nat
  /\ SemBatch \in Nat \ {0}

VARIABLES semCounter,  \* last turn of the session and the messages it was claimed for
          semRecord,   \* messages in the raw record of each turn
          semRegistry, \* task registry: version, watermark, observations it rests on
          semLate,     \* observations recorded when their turn was passed (history)
          semAccepted, \* observations of every estimate that was stored (history)
          semRaced,    \* two stores passed the compare of one version (history)
          semPc,       \* control point of each request
          semLoc,      \* its turn, messages, registry and delta
          semUnread

semFiles == <<semCounter, semRecord, semRegistry>>
semPast  == <<semLate, semAccepted, semRaced>>
semVars  == <<semCounter, semRecord, semRegistry, semLate, semAccepted, semRaced,
              semPc, semLoc, semUnread>>

-------------------------------------------------------------------------------
SemTurns == 1..SemMaxTurn

\* What an estimate sees: a turn with the messages in its record.
SemObservations == SemTurns \X SemMessages

SemRegistries == [version : Nat, watermark : 0..SemMaxTurn, seen : SUBSET SemObservations]

SemEmptyRegistry == [version |-> 0, watermark |-> 0, seen |-> {}]

SemLabels == {"idle", "record", "load", "list", "estimate", "store"}

SemLocal == [turn : 0..SemMaxTurn, msgs : SemMessages \cup {SemNone}, new : BOOLEAN,
             base : SemRegistries, delta : SUBSET SemObservations]

SemNoLocal == [turn |-> 0, msgs |-> SemNone, new |-> FALSE,
               base |-> SemEmptyRegistry, delta |-> {}]

SemanticTypeOK ==
  /\ semCounter  \in [turn : 0..SemMaxTurn, last : SemMessages \cup {SemNone}]
  /\ semRecord   \in [SemTurns -> SemMessages \cup {SemNone}]
  /\ semRegistry \in SemRegistries
  /\ semLate     \subseteq SemObservations
  /\ semAccepted \subseteq SemObservations
  /\ semRaced    \in BOOLEAN
  /\ semPc       \in [SemClients -> SemLabels]
  /\ semLoc      \in [SemClients -> SemLocal]
  /\ semUnread   \in 0..SemMaxUnread

SemanticInit ==
  /\ semCounter  = [turn |-> 0, last |-> SemNone]
  /\ semRecord   = [t \in SemTurns |-> SemNone]
  /\ semRegistry = SemEmptyRegistry
  /\ semLate     = {}
  /\ semAccepted = {}
  /\ semRaced    = FALSE
  /\ semPc       = [p \in SemClients |-> "idle"]
  /\ semLoc      = [p \in SemClients |-> SemNoLocal]
  /\ semUnread   = 0

-------------------------------------------------------------------------------
SemGo(p, label, l) ==
  /\ semPc'  = [semPc  EXCEPT ![p] = label]
  /\ semLoc' = [semLoc EXCEPT ![p] = l]

SemEnd(p) == SemGo(p, "idle", SemNoLocal)

SemRecorded == {t \in SemTurns : semRecord[t] # SemNone}

\* recoverTurnSeqFromRawRecords: a counter that cannot be read is rebuilt from the
\* records, and whose turn that was is forgotten.
SemRecovered ==
  {[turn |-> t, last |-> SemNone] :
     t \in {u \in SemRecorded \cup {0} : \A v \in SemRecorded : v <= u}}

\* claimClaudeSemanticTurn: the same messages again keep their turn.
SemanticClaim(p) ==
  /\ semPc[p] = "idle"
  /\ \E c \in {semCounter} \cup SemRecovered :
       /\ semUnread' = IF c = semCounter THEN semUnread ELSE semUnread + 1
       /\ semUnread' <= SemMaxUnread
       /\ \E m \in SemMessages :
            \/ /\ c.last = m /\ UNCHANGED semCounter
               /\ SemGo(p, "record", [SemNoLocal EXCEPT !.turn = c.turn, !.msgs = m])
            \/ /\ c.last # m /\ c.turn < SemMaxTurn
               /\ semCounter' = [turn |-> c.turn + 1, last |-> m]
               /\ SemGo(p, "record",
                        [SemNoLocal EXCEPT !.turn = c.turn + 1, !.msgs = m, !.new = TRUE])
  /\ UNCHANGED <<semRecord, semRegistry, semPast>>

\* The turn is passed: by a registry, stored or in the hands of a request, or by an
\* estimate that has listed the records.
SemPassed(t) ==
  \/ t <= semRegistry.watermark
  \/ \E o \in SemClients :
       \/ semPc[o] = "list" /\ t <= semLoc[o].base.watermark
       \/ semPc[o] \in {"estimate", "store"} /\ t <= semLoc[o].turn

\* persistRawSemanticTurnRecord: a retry writes the record only if it is missing.
SemanticRecord(p) ==
  LET t == semLoc[p].turn
      m == semLoc[p].msgs
  IN /\ semPc[p] = "record"
     /\ IF semLoc[p].new \/ semRecord[t] = SemNone
        THEN /\ semRecord' = [semRecord EXCEPT ![t] = m]
             /\ semLate' = IF SemPassed(t) THEN semLate \cup {<<t, m>>} ELSE semLate
        ELSE UNCHANGED <<semRecord, semLate>>
     /\ SemGo(p, "load", semLoc[p])
     /\ UNCHANGED <<semCounter, semRegistry, semAccepted, semRaced, semUnread>>

\* A retry of a turn the registry has passed is not analysed.
SemanticLoad(p) ==
  /\ semPc[p] = "load"
  /\ IF ~semLoc[p].new /\ semRegistry.watermark >= semLoc[p].turn
     THEN SemEnd(p)
     ELSE SemGo(p, "list", [semLoc[p] EXCEPT !.base = semRegistry])
  /\ UNCHANGED <<semFiles, semPast, semUnread>>

\* Mutant: a turn without a record is not left out.
SemDeltaUnfiltered(l) ==
  {<<t, semRecord[t]>> : t \in {u \in SemTurns : l.base.watermark < u /\ u <= l.turn}}

\* Mutant: the turn of the request itself is left for the next one.
SemDeltaExclusive(l) ==
  {<<t, semRecord[t]>> : t \in {u \in SemRecorded : l.base.watermark < u /\ u < l.turn}}

\* The interval from the watermark to the turn of the request.
SemDelta(l) ==
  {<<t, semRecord[t]>> : t \in {u \in SemRecorded : l.base.watermark < u /\ u <= l.turn}}

\* prepareSemanticDelta lists the records; the planner's gates come next: turns of
\* its own, enough of them, and something to analyse.
SemanticList(p) ==
  LET l == semLoc[p] IN
  /\ semPc[p] = "list"
  /\ IF l.base.watermark + SemBatch <= l.turn /\ SemDelta(l) # {}
     THEN SemGo(p, "estimate", [l EXCEPT !.delta = SemDelta(l)])
     ELSE SemEnd(p)
  /\ UNCHANGED <<semFiles, semPast, semUnread>>

-------------------------------------------------------------------------------
\* Mutant: the registry is stored whatever its version is.
SemanticCompareNothing(p) ==
  /\ semPc[p] = "estimate"
  /\ SemGo(p, "store", semLoc[p])
  /\ UNCHANGED <<semFiles, semPast, semUnread>>

\* The estimate is accepted; persistSessionTaskRegistry compares the version ...
SemanticCompare(p) ==
  /\ semPc[p] = "estimate"
  /\ IF semRegistry.version = semLoc[p].base.version
     THEN /\ semRaced' = (semRaced \/ \E o \in SemClients : semPc[o] = "store")
          /\ SemGo(p, "store", semLoc[p])
     ELSE UNCHANGED semRaced /\ SemEnd(p)
  /\ UNCHANGED <<semFiles, semLate, semAccepted, semUnread>>

\* mapTaskUpdatesToRegistryPatch and applySessionTaskRegistryPatch, as far as turns go.
SemNext(l) ==
  [version |-> l.base.version + 1, watermark |-> l.turn, seen |-> l.base.seen \cup l.delta]

\* ... and renames a new file over whatever is there by then.
SemanticStore(p) ==
  /\ semPc[p] = "store"
  /\ semRegistry' = SemNext(semLoc[p])
  /\ semAccepted' = semAccepted \cup semLoc[p].delta
  /\ SemEnd(p)
  /\ UNCHANGED <<semCounter, semRecord, semLate, semRaced, semUnread>>

\* The estimator fails or its answer is rejected, a file cannot be read or written,
\* or the gateway dies: the request is forwarded, or is gone.
SemanticLeave(p) ==
  /\ semPc[p] # "idle"
  /\ SemEnd(p)
  /\ UNCHANGED <<semFiles, semPast, semUnread>>

-------------------------------------------------------------------------------
SemanticNext ==
  \E p \in SemClients :
    \/ SemanticClaim(p) \/ SemanticRecord(p) \/ SemanticLoad(p) \/ SemanticList(p)
    \/ SemanticCompare(p) \/ SemanticStore(p) \/ SemanticLeave(p)

SemanticSpec == SemanticInit /\ [][SemanticNext]_semVars

-------------------------------------------------------------------------------
\* The watermark stands for what was analysed: a recorded turn at or below it was
\* part of an estimate the registry rests on, unless its record came too late; and
\* an estimate that was stored is not lost, unless two stores passed one compare.
SemanticRegistryTells ==
  /\ \A t \in SemRecorded :
       t <= semRegistry.watermark =>
         <<t, semRecord[t]>> \in semRegistry.seen \cup semLate
  /\ semAccepted \subseteq semRegistry.seen \/ semRaced
===============================================================================
