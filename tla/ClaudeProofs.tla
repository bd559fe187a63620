------------------------------ MODULE ClaudeProofs ------------------------------
(***************************************************************************)
(* Proofs about ClaudeLifecycle, ClaudePlans and ClaudeClean for every     *)
(* number of requests, turns, messages and plans.                          *)
(*                                                                         *)
(* The registry tells what was analysed because everything a request has   *)
(* in its hands does: the registry it loaded, and that registry with its   *)
(* delta.  A record that comes after its turn was passed is late, and two  *)
(* stores of one version have raced; nothing else loses an observation.    *)
(*                                                                         *)
(* A plan has one status because only the holder of the lock writes, and   *)
(* it writes what it has found under the same hold.                        *)
(*                                                                         *)
(* A clean is executed under a lock that may be stolen.  Its invariant is  *)
(* what an operation knows of its plan and nobody can take away: receipts  *)
(* do not leave a final status, and records do not leave the journal.      *)
(***************************************************************************)
EXTENDS ClaudeLifecycle, ClaudePlans, ClaudeClean, TLAPS

\* The observation of turn t is in the set or came too late.
SemKnown(t, seen) == <<t, semRecord[t]>> \in seen \cup semLate

\* A claimed turn has a number; so has the one a retry would meet.
SemClaimed ==
  /\ semCounter.last \in SemMessages => semCounter.turn \in SemTurns
  /\ \A p \in SemClients :
       semPc[p] # "idle" => semLoc[p].turn \in SemTurns /\ semLoc[p].msgs \in SemMessages

\* What a request loaded, and what it will store, tell as the registry does.
SemBases ==
  \A p \in SemClients : \A t \in SemRecorded :
    /\ semPc[p] = "list" /\ t <= semLoc[p].base.watermark => SemKnown(t, semLoc[p].base.seen)
    /\ semPc[p] \in {"estimate", "store"} /\ t <= semLoc[p].turn
         => SemKnown(t, semLoc[p].base.seen \cup semLoc[p].delta)

\* Without a race a version stands for one registry, and who stores has the current one.
SemVersions ==
  ~semRaced =>
    /\ \A p \in SemClients :
         /\ semPc[p] \in {"list", "estimate", "store"} =>
              /\ semLoc[p].base.version <= semRegistry.version
              /\ semLoc[p].base.version = semRegistry.version => semLoc[p].base = semRegistry
         /\ semPc[p] = "store" => semLoc[p].base = semRegistry
    /\ \A p, q \in SemClients : semPc[p] = "store" /\ semPc[q] = "store" => p = q

SemInv == SemanticTypeOK /\ SemClaimed /\ SemBases /\ SemVersions /\ SemanticRegistryTells

-------------------------------------------------------------------------------
LEMMA NoLocalTyped == SemNoLocal \in SemLocal
<1>1. SemEmptyRegistry \in SemRegistries
  BY ClaudeLifecycleAssumption DEF SemEmptyRegistry, SemRegistries
<1>2. 0 \in 0..SemMaxTurn
  BY ClaudeLifecycleAssumption
<1> QED BY <1>1, <1>2 DEF SemNoLocal, SemLocal

LEMMA SemanticStart == SemanticInit => SemInv
<1> SUFFICES ASSUME SemanticInit PROVE SemInv
  OBVIOUS
<1> USE DEF SemanticInit
<1>1. SemRecorded = {}
  BY DEF SemRecorded
<1>2. SemanticTypeOK
  <2>1. 0 \in 0..SemMaxTurn /\ 0 \in 0..SemMaxUnread
    BY ClaudeLifecycleAssumption
  <2>2. SemEmptyRegistry \in SemRegistries
    BY <2>1 DEF SemEmptyRegistry, SemRegistries
  <2> QED BY <2>1, <2>2, NoLocalTyped DEF SemanticTypeOK, SemLabels
<1>3. SemClaimed
  BY ClaudeLifecycleAssumption DEF SemClaimed
<1>4. SemBases /\ SemVersions
  BY <1>1 DEF SemBases, SemVersions
<1>5. SemanticRegistryTells
  BY <1>1 DEF SemanticRegistryTells, SemEmptyRegistry
<1> QED BY <1>2, <1>3, <1>4, <1>5 DEF SemInv

LEMMA SemanticTypeStep ==
  ASSUME SemInv, SemanticNext
  PROVE  SemanticTypeOK'
<1> USE ClaudeLifecycleAssumption DEF SemInv, SemanticTypeOK, SemGo, SemEnd, SemLabels
<1>0. PICK p \in SemClients :
        \/ SemanticClaim(p) \/ SemanticRecord(p) \/ SemanticLoad(p) \/ SemanticList(p)
        \/ SemanticCompare(p) \/ SemanticStore(p) \/ SemanticLeave(p)
  BY DEF SemanticNext
<1>1. semLoc[p] \in SemLocal
  OBVIOUS
<1>2. CASE SemanticClaim(p)
  <2>1. PICK c \in {semCounter} \cup SemRecovered, m \in SemMessages :
          \/ /\ c.last = m /\ UNCHANGED semCounter
             /\ SemGo(p, "record", [SemNoLocal EXCEPT !.turn = c.turn, !.msgs = m])
          \/ /\ c.last # m /\ c.turn < SemMaxTurn
             /\ semCounter' = [turn |-> c.turn + 1, last |-> m]
             /\ SemGo(p, "record",
                      [SemNoLocal EXCEPT !.turn = c.turn + 1, !.msgs = m, !.new = TRUE])
    BY <1>2 DEF SemanticClaim
  <2>2. c.turn \in 0..SemMaxTurn
    BY DEF SemRecovered, SemRecorded, SemTurns
  <2>3. semUnread' \in 0..SemMaxUnread
    BY <1>2 DEF SemanticClaim
  <2>4. \A t \in 0..SemMaxTurn, new \in BOOLEAN :
          [SemNoLocal EXCEPT !.turn = t, !.msgs = m, !.new = new] \in SemLocal
    BY NoLocalTyped DEF SemLocal
  <2>5. \A t \in 0..SemMaxTurn : [SemNoLocal EXCEPT !.turn = t, !.msgs = m] \in SemLocal
    BY NoLocalTyped DEF SemLocal
  <2>6. semCounter' \in [turn : 0..SemMaxTurn, last : SemMessages \cup {SemNone}]
    BY <2>1, <2>2
  <2>7. semPc' \in [SemClients -> SemLabels] /\ semLoc' \in [SemClients -> SemLocal]
    <3>1. PICK l \in SemLocal : semPc' = [semPc EXCEPT ![p] = "record"]
                              /\ semLoc' = [semLoc EXCEPT ![p] = l]
      <4>1. CASE /\ c.last = m /\ UNCHANGED semCounter
                 /\ SemGo(p, "record", [SemNoLocal EXCEPT !.turn = c.turn, !.msgs = m])
        BY <2>2, <2>5, <4>1
      <4>2. CASE /\ c.turn < SemMaxTurn
                 /\ SemGo(p, "record",
                          [SemNoLocal EXCEPT !.turn = c.turn + 1, !.msgs = m, !.new = TRUE])
        <5>1. c.turn + 1 \in 0..SemMaxTurn
          BY <2>2, <4>2
        <5> QED BY <2>4, <4>2, <5>1
      <4> QED BY <2>1, <4>1, <4>2
    <3> QED BY <3>1
  <2> QED BY <1>2, <2>3, <2>6, <2>7 DEF SemanticClaim, semPast
<1>3. CASE SemanticRecord(p)
  BY <1>3 DEF SemanticRecord, SemClaimed, SemObservations
<1>4. CASE SemanticLoad(p)
  <2>1. [semLoc[p] EXCEPT !.base = semRegistry] \in SemLocal
    BY <1>1 DEF SemLocal
  <2> QED BY <1>4, <2>1, NoLocalTyped DEF SemanticLoad, semFiles, semPast
<1>5. CASE SemanticList(p)
  <2>1. SemDelta(semLoc[p]) \in SUBSET SemObservations
    BY DEF SemDelta, SemRecorded, SemObservations
  <2>2. [semLoc[p] EXCEPT !.delta = SemDelta(semLoc[p])] \in SemLocal
    BY <1>1, <2>1 DEF SemLocal
  <2> QED BY <1>5, <2>2, NoLocalTyped DEF SemanticList, semFiles, semPast
<1>6. CASE SemanticCompare(p)
  <2>1. semRaced' \in BOOLEAN
    BY <1>6, Zenon DEF SemanticCompare
  <2> QED BY <1>6, <2>1, NoLocalTyped DEF SemanticCompare, semFiles
<1>7. CASE SemanticStore(p)
  <2>1. SemNext(semLoc[p]) \in SemRegistries
    BY <1>1 DEF SemNext, SemLocal, SemRegistries
  <2>2. semLoc[p].delta \subseteq SemObservations
    BY <1>1 DEF SemLocal
  <2> QED BY <1>7, <2>1, <2>2, NoLocalTyped DEF SemanticStore
<1>8. CASE SemanticLeave(p)
  BY <1>8, NoLocalTyped DEF SemanticLeave, semFiles, semPast
<1> QED BY <1>0, <1>2, <1>3, <1>4, <1>5, <1>6, <1>7, <1>8

\* A request that has ended has nothing in its hands.
LEMMA SemanticEnd ==
  ASSUME SemInv, SemanticTypeOK', NEW p \in SemClients, SemEnd(p),
         UNCHANGED <<semCounter, semRecord, semRegistry, semLate, semAccepted, semRaced>>
  PROVE  SemInv'
<1> USE DEF SemInv, SemEnd, SemGo
<1>1. /\ semPc'[p] = "idle"
      /\ \A q \in SemClients \ {p} : semPc'[q] = semPc[q] /\ semLoc'[q] = semLoc[q]
  BY DEF SemanticTypeOK
<1>2. SemRecorded' = SemRecorded
  BY DEF SemRecorded
<1>3. SemClaimed'
  BY <1>1 DEF SemClaimed
<1>4. SemBases'
  BY <1>1, <1>2 DEF SemBases, SemKnown
<1>5. SemVersions'
  BY <1>1 DEF SemVersions
<1>6. SemanticRegistryTells'
  BY <1>2 DEF SemanticRegistryTells
<1> QED BY <1>3, <1>4, <1>5, <1>6

LEMMA SemanticStep ==
  ASSUME SemInv, SemanticNext
  PROVE  SemInv'
<1> USE DEF SemInv
<1>0. SemanticTypeOK'
  BY SemanticTypeStep
<1>p. PICK p \in SemClients :
        \/ SemanticClaim(p) \/ SemanticRecord(p) \/ SemanticLoad(p) \/ SemanticList(p)
        \/ SemanticCompare(p) \/ SemanticStore(p) \/ SemanticLeave(p)
  BY DEF SemanticNext
<1> DEFINE l == semLoc[p]
<1>l. l \in SemLocal
  BY DEF SemanticTypeOK
<1>1. CASE SemanticClaim(p)
  <2>1. PICK c \in {semCounter} \cup SemRecovered, m \in SemMessages :
          \/ /\ c.last = m /\ UNCHANGED semCounter
             /\ SemGo(p, "record", [SemNoLocal EXCEPT !.turn = c.turn, !.msgs = m])
          \/ /\ c.last # m /\ c.turn < SemMaxTurn
             /\ semCounter' = [turn |-> c.turn + 1, last |-> m]
             /\ SemGo(p, "record",
                      [SemNoLocal EXCEPT !.turn = c.turn + 1, !.msgs = m, !.new = TRUE])
    BY <1>1 DEF SemanticClaim
  <2>2. c.turn \in 0..SemMaxTurn /\ (c.last = m => c.turn \in SemTurns)
    BY ClaudeLifecycleAssumption DEF SemClaimed, SemRecovered, SemRecorded, SemTurns, SemanticTypeOK
  <2>3. /\ semPc'[p] = "record" /\ semLoc'[p].turn \in SemTurns /\ semLoc'[p].msgs = m
        /\ semCounter' = semCounter \/ semCounter'.turn \in SemTurns
    <3>1. CASE /\ c.last = m /\ UNCHANGED semCounter
               /\ SemGo(p, "record", [SemNoLocal EXCEPT !.turn = c.turn, !.msgs = m])
      BY <2>2, <3>1 DEF SemGo, SemanticTypeOK, SemNoLocal
    <3>2. CASE /\ c.turn < SemMaxTurn /\ semCounter' = [turn |-> c.turn + 1, last |-> m]
               /\ SemGo(p, "record",
                      [SemNoLocal EXCEPT !.turn = c.turn + 1, !.msgs = m, !.new = TRUE])
      <4>1. c.turn + 1 \in SemTurns
        BY <2>2, <3>2, ClaudeLifecycleAssumption DEF SemTurns
      <4> QED BY <3>2, <4>1 DEF SemGo, SemanticTypeOK, SemNoLocal
    <3> QED BY <2>1, <3>1, <3>2
  <2>4. \A q \in SemClients \ {p} : semPc'[q] = semPc[q] /\ semLoc'[q] = semLoc[q]
    BY <2>1 DEF SemGo, SemanticTypeOK
  <2>5. UNCHANGED <<semRecord, semRegistry, semLate, semAccepted, semRaced>>
    BY <1>1 DEF SemanticClaim, semPast
  <2>6. SemRecorded' = SemRecorded
    BY <2>5 DEF SemRecorded
  <2>7. SemClaimed'
    BY <2>3, <2>4 DEF SemClaimed
  <2>8. SemBases'
    BY <2>3, <2>4, <2>5, <2>6 DEF SemBases, SemKnown
  <2>9. SemVersions'
    BY <2>3, <2>4, <2>5 DEF SemVersions
  <2>10. SemanticRegistryTells'
    BY <2>5, <2>6 DEF SemanticRegistryTells
  <2> QED BY <1>0, <2>7, <2>8, <2>9, <2>10
<1>2. CASE SemanticRecord(p)
  <2> DEFINE rt == l.turn
  <2>1. rt \in SemTurns /\ l.msgs \in SemMessages
    BY <1>2 DEF SemanticRecord, SemClaimed
  <2>2. /\ semPc' = [semPc EXCEPT ![p] = "load"] /\ semLoc' = [semLoc EXCEPT ![p] = semLoc[p]]
        /\ UNCHANGED <<semCounter, semRegistry, semAccepted, semRaced>>
    BY <1>2 DEF SemanticRecord, SemGo
  <2>3. /\ semPc'[p] = "load" /\ semLoc' = semLoc
        /\ \A q \in SemClients \ {p} : semPc'[q] = semPc[q]
    BY <2>2 DEF SemanticTypeOK
  <2>4. semLate \subseteq semLate'
    BY <1>2 DEF SemanticRecord
  <2>5. \A t \in SemRecorded' : (t \in SemRecorded /\ semRecord'[t] = semRecord[t]) \/ t = rt
    BY <1>2 DEF SemanticRecord, SemRecorded, SemanticTypeOK
  <2>6. \/ semRecord' = semRecord
        \/ semRecord'[rt] = l.msgs /\ (SemPassed(rt) => <<rt, l.msgs>> \in semLate')
    BY <1>2, <2>1 DEF SemanticRecord, SemanticTypeOK
  <2>7. \A t \in SemRecorded' :
          \/ t \in SemRecorded /\ semRecord'[t] = semRecord[t]
          \/ ~SemPassed(t) \/ <<t, semRecord'[t]>> \in semLate'
    BY <2>5, <2>6 DEF SemRecorded
  <2>8. SemClaimed'
    BY <2>1, <2>2, <2>3 DEF SemClaimed
  <2>9. SemBases'
    <3> SUFFICES ASSUME NEW q \in SemClients, NEW t \in SemRecorded',
                        \/ semPc'[q] = "list" /\ t <= semLoc'[q].base.watermark
                        \/ semPc'[q] \in {"estimate", "store"} /\ t <= semLoc'[q].turn
                 PROVE  /\ semPc'[q] = "list" => <<t, semRecord'[t]>> \in semLoc'[q].base.seen \cup semLate'
                        /\ semPc'[q] \in {"estimate", "store"} =>
                             <<t, semRecord'[t]>> \in semLoc'[q].base.seen \cup semLoc'[q].delta \cup semLate'
      BY DEF SemBases, SemKnown
    <3>1. q # p /\ semPc'[q] = semPc[q] /\ semLoc'[q] = semLoc[q]
      BY <2>3
    <3>2. SemPassed(t)
      BY <3>1 DEF SemPassed
    <3>3. <<t, semRecord'[t]>> \in semLate' \/ (t \in SemRecorded /\ semRecord'[t] = semRecord[t])
      BY <2>7, <3>2
    <3> QED BY <2>4, <3>1, <3>3 DEF SemBases, SemKnown
  <2>10. SemVersions'
    BY <2>2, <2>3 DEF SemVersions
  <2>11. SemanticRegistryTells'
    <3>1. ASSUME NEW t \in SemRecorded', t <= semRegistry.watermark
          PROVE  <<t, semRecord'[t]>> \in semRegistry.seen \cup semLate'
      BY <2>4, <2>7, <3>1 DEF SemPassed, SemanticRegistryTells
    <3> QED BY <2>2, <3>1 DEF SemanticRegistryTells
  <2> QED BY <1>0, <2>8, <2>9, <2>10, <2>11
<1>3. CASE SemanticLoad(p)
  <2>1. CASE SemEnd(p)
    BY <1>0, <1>3, <2>1, SemanticEnd DEF SemanticLoad, semFiles, semPast
  <2>2. CASE SemGo(p, "list", [l EXCEPT !.base = semRegistry])
    <3>1. /\ semPc'[p] = "list" /\ semLoc'[p] = [l EXCEPT !.base = semRegistry]
          /\ \A q \in SemClients \ {p} : semPc'[q] = semPc[q] /\ semLoc'[q] = semLoc[q]
      BY <2>2 DEF SemGo, SemanticTypeOK
    <3>2. /\ semLoc'[p].base = semRegistry /\ semLoc'[p].turn = l.turn /\ semLoc'[p].msgs = l.msgs
      BY <1>l, <3>1 DEF SemLocal
    <3>3. UNCHANGED <<semCounter, semRecord, semRegistry, semLate, semAccepted, semRaced>>
      BY <1>3 DEF SemanticLoad, semFiles, semPast
    <3>4. SemRecorded' = SemRecorded
      BY <3>3 DEF SemRecorded
    <3>5. SemClaimed'
      BY <1>3, <3>1, <3>2, <3>3 DEF SemanticLoad, SemClaimed
    <3>6. SemBases'
      BY <3>1, <3>2, <3>3, <3>4 DEF SemBases, SemKnown, SemanticRegistryTells
    <3>7. SemVersions'
      <4> SUFFICES ASSUME ~semRaced PROVE SemVersions'
        BY <3>3 DEF SemVersions
      <4>1. semRegistry.version <= semRegistry.version
        BY DEF SemanticTypeOK, SemRegistries
      <4>2. ASSUME NEW q \in SemClients, semPc'[q] \in {"list", "estimate", "store"}
            PROVE  /\ semLoc'[q].base.version <= semRegistry.version
                   /\ semLoc'[q].base.version = semRegistry.version => semLoc'[q].base = semRegistry
        BY <3>1, <3>2, <4>1, <4>2 DEF SemVersions
      <4>3. ASSUME NEW q \in SemClients, semPc'[q] = "store"
            PROVE  q # p /\ semPc[q] = "store" /\ semLoc'[q].base = semRegistry
        BY <3>1, <4>3 DEF SemVersions
      <4> QED BY <3>3, <4>2, <4>3 DEF SemVersions
    <3>8. SemanticRegistryTells'
      BY <3>3, <3>4 DEF SemanticRegistryTells
    <3> QED BY <1>0, <3>5, <3>6, <3>7, <3>8
  <2> QED BY <1>3, <2>1, <2>2 DEF SemanticLoad
<1>4. CASE SemanticList(p)
  <2>1. CASE SemEnd(p)
    BY <1>0, <1>4, <2>1, SemanticEnd DEF SemanticList, semFiles, semPast
  <2>2. CASE SemGo(p, "estimate", [l EXCEPT !.delta = SemDelta(l)])
    <3>1. /\ semPc'[p] = "estimate" /\ semLoc'[p] = [l EXCEPT !.delta = SemDelta(l)]
          /\ \A q \in SemClients \ {p} : semPc'[q] = semPc[q] /\ semLoc'[q] = semLoc[q]
      BY <2>2 DEF SemGo, SemanticTypeOK
    <3>2. /\ semLoc'[p].base = l.base /\ semLoc'[p].turn = l.turn /\ semLoc'[p].msgs = l.msgs
          /\ semLoc'[p].delta = SemDelta(l)
      BY <1>l, <3>1 DEF SemLocal
    <3>3. UNCHANGED <<semCounter, semRecord, semRegistry, semLate, semAccepted, semRaced>>
      BY <1>4 DEF SemanticList, semFiles, semPast
    <3>4. SemRecorded' = SemRecorded
      BY <3>3 DEF SemRecorded
    <3>5. SemClaimed'
      BY <1>4, <3>1, <3>2, <3>3 DEF SemanticList, SemClaimed
    <3>6. \A t \in SemRecorded : t <= l.turn => SemKnown(t, l.base.seen \cup SemDelta(l))
      <4> SUFFICES ASSUME NEW t \in SemRecorded, t <= l.turn
                   PROVE  SemKnown(t, l.base.seen \cup SemDelta(l))
        OBVIOUS
      <4>1. CASE t <= l.base.watermark
        BY <1>4, <4>1 DEF SemanticList, SemBases, SemKnown
      <4>2. CASE l.base.watermark < t
        BY <4>2 DEF SemDelta, SemKnown
      <4> QED BY <1>l, <4>1, <4>2 DEF SemLocal, SemRegistries, SemRecorded, SemTurns
    <3>7. SemBases'
      BY <3>1, <3>2, <3>3, <3>4, <3>6 DEF SemBases, SemKnown
    <3>8. SemVersions'
      <4> SUFFICES ASSUME ~semRaced PROVE SemVersions'
        BY <3>3 DEF SemVersions
      <4>1. ASSUME NEW q \in SemClients, semPc'[q] \in {"list", "estimate", "store"}
            PROVE  /\ semLoc'[q].base.version <= semRegistry.version
                   /\ semLoc'[q].base.version = semRegistry.version => semLoc'[q].base = semRegistry
        <5>1. semPc[q] \in {"list", "estimate", "store"} /\ semLoc'[q].base = semLoc[q].base
          BY <1>4, <3>1, <3>2, <4>1 DEF SemanticList
        <5> QED BY <5>1 DEF SemVersions
      <4>2. ASSUME NEW q \in SemClients, semPc'[q] = "store"
            PROVE  semPc[q] = "store" /\ semLoc'[q].base = semRegistry
        BY <3>1, <4>2 DEF SemVersions
      <4> QED BY <3>3, <4>1, <4>2 DEF SemVersions
    <3>9. SemanticRegistryTells'
      BY <3>3, <3>4 DEF SemanticRegistryTells
    <3> QED BY <1>0, <3>5, <3>7, <3>8, <3>9
  <2> QED BY <1>4, <2>1, <2>2 DEF SemanticList
<1>5. CASE SemanticCompare(p)
  <2>1. CASE SemEnd(p) /\ UNCHANGED semRaced
    BY <1>0, <1>5, <2>1, SemanticEnd DEF SemanticCompare, semFiles
  <2>2. CASE /\ semRegistry.version = l.base.version
             /\ semRaced' = (semRaced \/ \E o \in SemClients : semPc[o] = "store")
             /\ SemGo(p, "store", l)
    <3>1. /\ semPc'[p] = "store" /\ semLoc' = semLoc
          /\ \A q \in SemClients \ {p} : semPc'[q] = semPc[q]
      BY <2>2 DEF SemGo, SemanticTypeOK
    <3>2. UNCHANGED <<semCounter, semRecord, semRegistry, semLate, semAccepted>>
      BY <1>5 DEF SemanticCompare, semFiles
    <3>3. SemRecorded' = SemRecorded
      BY <3>2 DEF SemRecorded
    <3>4. ~semRaced' => ~semRaced /\ \A o \in SemClients : semPc[o] # "store"
      BY <2>2
    <3>5. SemClaimed'
      BY <1>5, <3>1, <3>2 DEF SemanticCompare, SemClaimed
    <3>6. SemBases'
      BY <1>5, <3>1, <3>2, <3>3 DEF SemanticCompare, SemBases, SemKnown
    <3>7. SemVersions'
      BY <1>5, <2>2, <3>1, <3>2, <3>4 DEF SemanticCompare, SemVersions
    <3>8. SemanticRegistryTells'
      BY <3>2, <3>3, <3>4 DEF SemanticRegistryTells
    <3> QED BY <1>0, <3>5, <3>6, <3>7, <3>8
  <2> QED BY <1>5, <2>1, <2>2 DEF SemanticCompare
<1>6. CASE SemanticStore(p)
  <2>1. /\ semPc[p] = "store" /\ semPc'[p] = "idle"
        /\ \A q \in SemClients \ {p} : semPc'[q] = semPc[q] /\ semLoc'[q] = semLoc[q]
    BY <1>6 DEF SemanticStore, SemEnd, SemGo, SemanticTypeOK
  <2>2. /\ semRegistry'.version = l.base.version + 1 /\ semRegistry'.watermark = l.turn
        /\ semRegistry'.seen = l.base.seen \cup l.delta
        /\ semAccepted' = semAccepted \cup l.delta
        /\ UNCHANGED <<semCounter, semRecord, semLate, semRaced>>
    BY <1>6 DEF SemanticStore, SemNext
  <2>3. SemRecorded' = SemRecorded
    BY <2>2 DEF SemRecorded
  <2>4. SemClaimed'
    BY <2>1, <2>2 DEF SemClaimed
  <2>5. SemBases'
    BY <2>1, <2>2, <2>3 DEF SemBases, SemKnown
  <2>6. SemVersions'
    <3> SUFFICES ASSUME ~semRaced PROVE SemVersions'
      BY <2>2 DEF SemVersions
    <3>1. l.base = semRegistry /\ \A q \in SemClients \ {p} : semPc[q] # "store"
      BY <2>1 DEF SemVersions
    <3>2. \A q \in SemClients \ {p} : semPc[q] \in {"list", "estimate"} =>
            semLoc[q].base.version < semRegistry'.version
      <4> SUFFICES ASSUME NEW q \in SemClients \ {p}, semPc[q] \in {"list", "estimate"}
                   PROVE  semLoc[q].base.version < semRegistry'.version
        OBVIOUS
      <4>1. semLoc[q].base.version <= semRegistry.version
        BY DEF SemVersions
      <4>2. semLoc[q].base.version \in Nat /\ semRegistry.version \in Nat
        BY DEF SemanticTypeOK, SemLocal, SemRegistries
      <4> QED BY <2>2, <3>1, <4>1, <4>2
    <3>3. \A q \in SemClients \ {p} : semPc[q] \in {"list", "estimate"} =>
            /\ semLoc[q].base.version <= semRegistry'.version
            /\ semLoc[q].base.version # semRegistry'.version
      <4> SUFFICES ASSUME NEW q \in SemClients \ {p}, semPc[q] \in {"list", "estimate"}
                   PROVE  /\ semLoc[q].base.version <= semRegistry'.version
                          /\ semLoc[q].base.version # semRegistry'.version
        OBVIOUS
      <4>1. semLoc[q].base.version \in Nat /\ semRegistry'.version \in Nat
        BY <1>0 DEF SemanticTypeOK, SemLocal, SemRegistries
      <4> QED BY <3>2, <4>1
    <3> QED BY <2>1, <3>1, <3>3 DEF SemVersions
  <2>7. SemanticRegistryTells'
    <3>1. \A t \in SemRecorded : t <= l.turn => SemKnown(t, l.base.seen \cup l.delta)
      BY <2>1 DEF SemBases
    <3>2. semAccepted \cup l.delta \subseteq l.base.seen \cup l.delta \/ semRaced
      BY <2>1 DEF SemVersions, SemanticRegistryTells
    <3> QED BY <2>2, <2>3, <3>1, <3>2 DEF SemanticRegistryTells, SemKnown
  <2> QED BY <1>0, <2>4, <2>5, <2>6, <2>7
<1>7. CASE SemanticLeave(p)
  BY <1>0, <1>7, SemanticEnd DEF SemanticLeave, semFiles, semPast
<1> QED BY <1>p, <1>1, <1>2, <1>3, <1>4, <1>5, <1>6, <1>7

\* Numbers, records, registry and requests are well typed in every reachable state.
THEOREM SemanticTypeCorrect == SemanticSpec => []SemanticTypeOK
<1>1. SemInv /\ UNCHANGED semVars => SemInv'
  BY DEF SemInv, SemanticTypeOK, SemClaimed, SemBases, SemVersions, SemanticRegistryTells,
         SemKnown, SemRecorded, semVars
<1>2. SemInv => SemanticTypeOK
  BY DEF SemInv
<1> QED BY SemanticStart, SemanticStep, <1>1, <1>2, PTL DEF SemanticSpec

\* The registry of Claude Code tells what was analysed, whatever the number of requests.
THEOREM RegistryTells == SemanticSpec => []SemanticRegistryTells
<1>1. SemInv /\ UNCHANGED semVars => SemInv'
  BY DEF SemInv, SemanticTypeOK, SemClaimed, SemBases, SemVersions, SemanticRegistryTells,
         SemKnown, SemRecorded, semVars
<1>2. SemInv => SemanticRegistryTells
  BY DEF SemInv
<1> QED BY SemanticStart, SemanticStep, <1>1, <1>2, PTL DEF SemanticSpec

-------------------------------------------------------------------------------
(* Plans.                                                                  *)

\* What a request knows: it writes under the lock what it has just found, a plan it
\* takes for applied is applied, and what it is about to send is archived.
PlanSane(p) ==
  LET l == planLoc[p] IN
  /\ planPc[p] \in {"save", "rewrite", "applied", "failed"} => l.id \in PlanIds
  /\ planPc[p] = "save" => l.form \in PlanForms
  /\ planCall[p] = "write" =>
       /\ planPc[p] \in {"save", "applied", "failed"} /\ planLock = p
       /\ l.id \notin planLost =>
            /\ planPc[p] = "save" => PlanKept(l.id) = {}
            /\ planPc[p] \in {"applied", "failed"} => PlanKept(l.id) = {"active"}
  /\ \/ planPc[p] \in {"save", "applied"} /\ planCall[p] = "done" /\ l.ret = "applied"
     \/ planPc[p] = "rewrite" /\ l.status = "applied"
     => l.id \in planLost \/ PlanKept(l.id) = {"applied"}
  /\ planPc[p] = "applied" => PlanStrings \cap UNION l.ops \subseteq planArchived

PlanBroken == \A i \in PlanIds : PlanDamaged(i) # {} => i \in planLost

PlanInv == /\ PlanTypeOK /\ PlanBroken /\ PlanHasOneStatus /\ StubsAreRecoverable
           /\ \A p \in PlanClients : PlanSane(p)

\* The steps a request takes.
PlanStep(p) ==
  \/ PlanLock(p) \/ PlanRead(p) \/ PlanWrite(p) \/ PlanBegin(p) \/ PlanTake(p)
  \/ PlanPass(p) \/ PlanSaved(p) \/ PlanRewrite(p) \/ PlanMarked(p) \/ PlanGaveUp(p) \/ PlanCrash(p)

-------------------------------------------------------------------------------
LEMMA PlanNoLocalTyped == PlanNoLocal \in PlanLocal
  BY DEF PlanNoLocal, PlanLocal

\* What a call does to control point and knowledge of its request.
LEMMA PlanGone ==
  ASSUME PlanTypeOK, NEW p \in PlanClients, NEW label, NEW call, NEW l, PlanGo(p, label, call, l)
  PROVE  /\ planPc'[p] = label /\ planCall'[p] = call /\ planLoc'[p] = l
         /\ \A q \in PlanClients \ {p} :
              planPc'[q] = planPc[q] /\ planCall'[q] = planCall[q] /\ planLoc'[q] = planLoc[q]
  BY DEF PlanTypeOK, PlanGo

LEMMA PlanGoTyped ==
  ASSUME PlanTypeOK, NEW p \in PlanClients,
         NEW label \in PlanCalls \cup {"idle", "rewrite"},
         NEW call \in {"none", "open", "write", "done"},
         NEW l \in PlanLocal, PlanGo(p, label, call, l)
  PROVE  /\ planPc'   \in [PlanClients -> PlanCalls \cup {"idle", "rewrite"}]
         /\ planCall' \in [PlanClients -> {"none", "open", "write", "done"}]
         /\ planLoc'  \in [PlanClients -> PlanLocal]
  BY DEF PlanTypeOK, PlanGo

\* Quarantine removes damaged files and nothing else.
LEMMA QuarantineKeeps ==
  ASSUME PlanTypeOK, NEW I, PlanQuarantine(I)
  PROVE  /\ planFile' \in [PlanIds -> [PlanStatuses -> PlanForms \cup {PlanNone, PlanBad}]]
         /\ \A i \in PlanIds : PlanKept(i)' = PlanKept(i) /\ PlanDamaged(i)' \subseteq PlanDamaged(i)
<1> USE PlanAssumption DEF PlanTypeOK, PlanKept, PlanDamaged
<1>1. CASE UNCHANGED planFile
  BY <1>1
<1>2. CASE planFile' = [i \in PlanIds |-> [s \in PlanStatuses |->
                    IF i \in I /\ s \in PlanDamaged(i) THEN PlanNone ELSE planFile[i][s]]]
  <2>1. planFile' \in [PlanIds -> [PlanStatuses -> PlanForms \cup {PlanNone, PlanBad}]]
    BY <1>2
  <2>2. ASSUME NEW i \in PlanIds, NEW s \in PlanStatuses
        PROVE  \/ planFile'[i][s] = planFile[i][s]
               \/ planFile[i][s] = PlanBad /\ planFile'[i][s] = PlanNone
    BY <1>2, <2>2
  <2> QED BY <2>1, <2>2
<1> QED BY <1>1, <1>2 DEF PlanQuarantine

\* A call that returns or goes on is well typed, whatever it answers.
LEMMA PlanReturnTyped ==
  ASSUME PlanTypeOK, NEW p \in PlanClients, NEW l \in PlanLocal, PlanReturn(p, l)
  PROVE  /\ planLock' \in PlanClients \cup {PlanNone}
         /\ planPc'   \in [PlanClients -> PlanCalls \cup {"idle", "rewrite"}]
         /\ planCall' \in [PlanClients -> {"none", "open", "write", "done"}]
         /\ planLoc'  \in [PlanClients -> PlanLocal]
<1>1. planPc[p] \in PlanCalls \cup {"idle", "rewrite"}
  BY DEF PlanTypeOK
<1> QED BY <1>1, PlanGoTyped DEF PlanReturn, PlanTypeOK

LEMMA PlanRetTyped ==
  ASSUME NEW l \in PlanLocal, NEW r \in PlanStatuses \cup {"none", "bypassed"}
  PROVE  [l EXCEPT !.ret = r] \in PlanLocal
  BY DEF PlanLocal

\* planLock, planFile and the requests are what a call of the store changes.
PlanStoreTyped ==
  /\ planLock \in PlanClients \cup {PlanNone}
  /\ planFile \in [PlanIds -> [PlanStatuses -> PlanForms \cup {PlanNone, PlanBad}]]
  /\ planPc   \in [PlanClients -> PlanCalls \cup {"idle", "rewrite"}]
  /\ planCall \in [PlanClients -> {"none", "open", "write", "done"}]
  /\ planLoc  \in [PlanClients -> PlanLocal]

LEMMA LocateTyped ==
  ASSUME PlanTypeOK, NEW p \in PlanClients, NEW i \in PlanIds, NEW writes,
         NEW same \in SUBSET PlanStatuses, PlanLocate(p, i, writes, same)
  PROVE  PlanStoreTyped'
<1> DEFINE l == planLoc[p]
<1>1. l \in PlanLocal /\ planPc[p] \in PlanCalls \cup {"idle", "rewrite"}
  BY DEF PlanTypeOK
<1>2. CASE PlanQuarantine({i}) /\ PlanReturn(p, [l EXCEPT !.ret = "bypassed"])
  BY <1>1, <1>2, QuarantineKeeps, PlanReturnTyped, PlanRetTyped DEF PlanStoreTyped
<1>3. CASE UNCHANGED planFile /\ PlanGo(p, planPc[p], "write", l) /\ UNCHANGED planLock
  BY <1>1, <1>3, PlanGoTyped DEF PlanStoreTyped, PlanTypeOK
<1>4. CASE UNCHANGED planFile /\ \E s \in same : PlanReturn(p, [l EXCEPT !.ret = s])
  <2>1. PICK s \in same : PlanReturn(p, [l EXCEPT !.ret = s])
    BY <1>4
  <2>2. [l EXCEPT !.ret = s] \in PlanLocal
    BY <1>1, PlanRetTyped
  <2> QED BY <1>4, <2>1, <2>2, PlanReturnTyped DEF PlanStoreTyped, PlanTypeOK
<1>5. CASE UNCHANGED planFile /\ PlanReturn(p, [l EXCEPT !.ret = "bypassed"])
  BY <1>1, <1>5, PlanReturnTyped, PlanRetTyped DEF PlanStoreTyped, PlanTypeOK
<1> QED BY <1>2, <1>3, <1>4, <1>5 DEF PlanLocate

LEMMA ReadTyped ==
  ASSUME PlanInv, NEW p \in PlanClients, PlanRead(p)
  PROVE  PlanStoreTyped'
<1> USE DEF PlanInv
<1> DEFINE l == planLoc[p]
<1>1. CASE PlanSave(p)
  <2>1. l.id \in PlanIds
    BY <1>1 DEF PlanSave, PlanSane
  <2>2. {s \in PlanStatuses : planFile[l.id][s] = l.form} \in SUBSET PlanStatuses
    OBVIOUS
  <2> QED BY <1>1, <2>1, <2>2, LocateTyped DEF PlanSave
<1>2. CASE PlanTransition(p)
  <2>1. l.id \in PlanIds
    BY <1>2 DEF PlanTransition, PlanSane
  <2>2. {planPc[p]} \in SUBSET PlanStatuses
    BY <1>2 DEF PlanTransition, PlanStatuses
  <2> QED BY <1>2, <2>1, <2>2, LocateTyped DEF PlanTransition
<1>3. CASE PlanLoad(p)
  <2> DEFINE active == {i \in PlanIds : planFile[i]["active"] # PlanNone}
  <2>0. l \in PlanLocal
    BY DEF PlanTypeOK
  <2>1. /\ [l EXCEPT !.ret = "bypassed"] \in PlanLocal
        /\ [l EXCEPT !.plans = active, !.ret = "active"] \in PlanLocal
    BY <2>0 DEF PlanLocal, PlanStatuses
  <2>2. CASE PlanQuarantine(active) /\ PlanReturn(p, [l EXCEPT !.ret = "bypassed"])
    BY <2>1, <2>2, QuarantineKeeps, PlanReturnTyped DEF PlanStoreTyped
  <2>3. CASE /\ UNCHANGED planFile
             /\ \/ PlanReturn(p, [l EXCEPT !.plans = active, !.ret = "active"])
                \/ PlanReturn(p, [l EXCEPT !.ret = "bypassed"])
    BY <2>1, <2>3, PlanReturnTyped DEF PlanStoreTyped, PlanTypeOK
  <2> QED BY <1>3, <2>2, <2>3 DEF PlanLoad
<1> QED BY <1>1, <1>2, <1>3 DEF PlanRead

LEMMA WriteTyped ==
  ASSUME PlanInv, NEW p \in PlanClients, PlanWrite(p)
  PROVE  PlanStoreTyped'
<1> USE DEF PlanInv
<1> DEFINE l == planLoc[p]
<1>0. l \in PlanLocal
  BY DEF PlanTypeOK
<1>1. \A r \in PlanStatuses \cup {"bypassed"} : [l EXCEPT !.ret = r] \in PlanLocal
  BY <1>0, PlanRetTyped
<1>2. \A r \in PlanStatuses \cup {"bypassed"} :
        PlanReturn(p, [l EXCEPT !.ret = r]) =>
          /\ planLock' \in PlanClients \cup {PlanNone}
          /\ planPc'   \in [PlanClients -> PlanCalls \cup {"idle", "rewrite"}]
          /\ planCall' \in [PlanClients -> {"none", "open", "write", "done"}]
          /\ planLoc'  \in [PlanClients -> PlanLocal]
  BY <1>1, PlanReturnTyped
<1>3. CASE /\ planPc[p] = "save" /\ planFile' = [planFile EXCEPT ![l.id]["active"] = l.form]
           /\ PlanReturn(p, [l EXCEPT !.ret = "active"])
  <2>1. l.form \in PlanForms
    BY <1>3 DEF PlanSane
  <2> QED BY <1>2, <1>3, <2>1 DEF PlanStoreTyped, PlanTypeOK, PlanStatuses
<1>4. CASE /\ planPc[p] \in {"applied", "failed"}
           /\ planFile' = [planFile EXCEPT ![l.id][planPc[p]] = planFile[l.id]["active"],
                                           ![l.id]["active"]  = PlanNone]
           /\ PlanReturn(p, [l EXCEPT !.ret = planPc[p]])
  <2>1. l.id \in PlanIds
    BY <1>4 DEF PlanSane
  <2>2. planFile[l.id]["active"] \in PlanForms \cup {PlanNone, PlanBad}
    BY <2>1 DEF PlanTypeOK, PlanStatuses
  <2> QED BY <1>2, <1>4, <2>1, <2>2 DEF PlanStoreTyped, PlanTypeOK, PlanStatuses
<1>5. CASE UNCHANGED planFile /\ PlanReturn(p, [l EXCEPT !.ret = "bypassed"])
  BY <1>2, <1>5 DEF PlanStoreTyped, PlanTypeOK
<1> QED BY <1>3, <1>4, <1>5 DEF PlanWrite

LEMMA PlanTypeStep ==
  ASSUME PlanInv, PlanNext
  PROVE  PlanTypeOK'
<1> USE DEF PlanInv
<1>1. CASE PlanDamage
  BY <1>1, PlanAssumption DEF PlanDamage, PlanTypeOK, PlanKept
<1>2. ASSUME NEW p \in PlanClients, PlanStep(p) PROVE PlanTypeOK'
  <2> DEFINE l == planLoc[p]
  <2>0. l \in PlanLocal /\ planPc[p] \in PlanCalls \cup {"idle", "rewrite"}
    BY DEF PlanTypeOK
  <2>1. PlanNoLocal \in PlanLocal
    BY PlanNoLocalTyped
  <2>2. \A k \in PlanLocal : [k EXCEPT !.ret = "none"] \in PlanLocal
    BY PlanRetTyped
  <2>3. \A call \in PlanCalls, k \in PlanLocal : PlanAsk(p, call, k) =>
          /\ planPc'   \in [PlanClients -> PlanCalls \cup {"idle", "rewrite"}]
          /\ planCall' \in [PlanClients -> {"none", "open", "write", "done"}]
          /\ planLoc'  \in [PlanClients -> PlanLocal]
    BY <2>2, PlanGoTyped DEF PlanAsk
  <2>4. PlanEnd(p) =>
          /\ planPc'   \in [PlanClients -> PlanCalls \cup {"idle", "rewrite"}]
          /\ planCall' \in [PlanClients -> {"none", "open", "write", "done"}]
          /\ planLoc'  \in [PlanClients -> PlanLocal]
    BY <2>1, PlanGoTyped DEF PlanEnd
  <2>5. \A k \in PlanLocal : PlanGo(p, "rewrite", "none", k) =>
          /\ planPc'   \in [PlanClients -> PlanCalls \cup {"idle", "rewrite"}]
          /\ planCall' \in [PlanClients -> {"none", "open", "write", "done"}]
          /\ planLoc'  \in [PlanClients -> PlanLocal]
    BY PlanGoTyped
  <2>6. CASE PlanLock(p)
    <3>1. CASE planLock' = p /\ UNCHANGED <<planPc, planCall, planLoc>>
      BY <2>6, <3>1 DEF PlanLock, PlanTypeOK, planFiles, planPast
    <3>2. CASE PlanReturn(p, [l EXCEPT !.ret = "bypassed"])
      <4>1. [l EXCEPT !.ret = "bypassed"] \in PlanLocal
        BY <2>0, PlanRetTyped
      <4> QED BY <2>6, <3>2, <4>1, PlanReturnTyped DEF PlanLock, PlanTypeOK, planFiles, planPast
    <3> QED BY <2>6, <3>1, <3>2 DEF PlanLock
  <2>7. CASE PlanRead(p)
    BY <2>7, ReadTyped DEF PlanRead, PlanTypeOK, PlanStoreTyped, planPast
  <2>8. CASE PlanWrite(p)
    BY <2>8, WriteTyped DEF PlanWrite, PlanTypeOK, PlanStoreTyped, planPast
  <2>9. CASE PlanBegin(p)
    <3>1. \A i \in PlanLifecycle, f \in PlanForms :
            [PlanNoLocal EXCEPT !.id = i, !.form = f] \in PlanLocal
      BY <2>1 DEF PlanLocal, PlanIds
    <3>2. planRequests' \in 0..PlanMaxRequests
      <4>1. CASE planRequests' = planRequests
        BY <4>1 DEF PlanTypeOK
      <4>2. CASE planRequests < PlanMaxRequests /\ planRequests' = planRequests + 1
        BY <4>2, PlanAssumption DEF PlanTypeOK
      <4> QED BY <2>9, <4>1, <4>2 DEF PlanBegin
    <3> QED BY <2>1, <2>3, <2>9, <3>1, <3>2 DEF PlanBegin, PlanTypeOK, PlanCalls, planFiles
  <2>10. CASE PlanTake(p)
    <3>1. \A i \in PlanHeuristic, f \in PlanForms :
            /\ [PlanNoLocal EXCEPT !.id = i, !.form = f] \in PlanLocal
            /\ [[PlanNoLocal EXCEPT !.id = i, !.form = f] EXCEPT !.replay = TRUE] \in PlanLocal
            /\ [[PlanNoLocal EXCEPT !.id = i, !.form = f] EXCEPT !.status = "active"] \in PlanLocal
      BY <2>1 DEF PlanLocal, PlanIds, PlanStatuses
    <3>2. planRequests' \in 0..PlanMaxRequests
      BY <2>10, PlanAssumption DEF PlanTake, PlanTypeOK
    <3> QED BY <2>3, <2>5, <2>10, <3>1, <3>2 DEF PlanTake, PlanTypeOK, PlanCalls, planFiles
  <2>11. CASE PlanPass(p)
    BY <2>4, <2>11 DEF PlanPass, PlanTypeOK, planFiles, planPast
  <2>12. CASE PlanSaved(p)
    <3>1. \A st \in {"active", "applied"} : [l EXCEPT !.status = st] \in PlanLocal
      BY <2>0 DEF PlanLocal, PlanStatuses
    <3> QED BY <2>4, <2>5, <2>12, <3>1 DEF PlanSaved, PlanTypeOK, planFiles, planPast
  <2>13. CASE PlanRewrite(p)
    <3>1. PICK ops \in SUBSET PlanOperations, fails \in SUBSET PlanStrings :
            LET k == [l EXCEPT !.ops = PlanApplies(ops, fails)] IN
            /\ planArchived' = planArchived \cup ((PlanStrings \cap UNION ops) \ fails)
            /\ \/ k.ops = {} /\ PlanEnd(p) /\ UNCHANGED <<planSent, planStubbed>>
               \/ /\ k.ops # {} /\ k.status = "active"
                  /\ PlanAsk(p, "applied", k) /\ UNCHANGED <<planSent, planStubbed>>
               \/ /\ k.ops # {} /\ k.status = "applied"
                  /\ PlanSend(k) /\ PlanEnd(p)
      BY <2>13 DEF PlanRewrite
    <3>2. PlanApplies(ops, fails) \subseteq PlanOperations
      BY DEF PlanApplies
    <3>3. [l EXCEPT !.ops = PlanApplies(ops, fails)] \in PlanLocal
      BY <2>0, <3>2 DEF PlanLocal
    <3>4. l.id \in PlanIds
      BY <2>13 DEF PlanRewrite, PlanSane
    <3>5. planArchived' \subseteq PlanStrings
      BY <3>1 DEF PlanTypeOK
    <3>6. planSent' \subseteq PlanIds /\ planStubbed' \subseteq PlanItems
      <4>1. CASE PlanSend([l EXCEPT !.ops = PlanApplies(ops, fails)])
        <5>1. /\ [l EXCEPT !.ops = PlanApplies(ops, fails)].id = l.id
              /\ [l EXCEPT !.ops = PlanApplies(ops, fails)].ops = PlanApplies(ops, fails)
          BY <2>0 DEF PlanLocal
        <5> QED BY <3>2, <3>4, <4>1, <5>1 DEF PlanSend, PlanTypeOK, PlanItems
      <4> QED BY <3>1, <4>1 DEF PlanTypeOK
    <3>7. /\ planPc'   \in [PlanClients -> PlanCalls \cup {"idle", "rewrite"}]
          /\ planCall' \in [PlanClients -> {"none", "open", "write", "done"}]
          /\ planLoc'  \in [PlanClients -> PlanLocal]
      BY <2>3, <2>4, <3>1, <3>3 DEF PlanCalls
    <3> QED BY <2>13, <3>5, <3>6, <3>7 DEF PlanRewrite, PlanTypeOK
  <2>14. CASE PlanMarked(p)
    <3>1. CASE PlanSend(l) /\ PlanEnd(p)
      <4>1. l.id \in PlanIds /\ l.ops \subseteq PlanOperations
        BY <2>0, <2>14 DEF PlanMarked, PlanAnswered, PlanSane, PlanLocal
      <4> QED BY <2>4, <2>14, <3>1, <4>1 DEF PlanMarked, PlanSend, PlanTypeOK, PlanItems, planFiles
    <3>2. CASE PlanAsk(p, "failed", l) /\ UNCHANGED <<planSent, planStubbed>>
      BY <2>0, <2>3, <2>14, <3>2 DEF PlanMarked, PlanTypeOK, PlanCalls, planFiles
    <3> QED BY <2>14, <3>1, <3>2 DEF PlanMarked
  <2>15. CASE PlanGaveUp(p)
    BY <2>4, <2>15 DEF PlanGaveUp, PlanTypeOK, planFiles, planPast
  <2>16. CASE PlanCrash(p)
    BY <2>4, <2>16 DEF PlanCrash, PlanTypeOK, planFiles, planPast
  <2> QED BY <1>2, <2>6, <2>7, <2>8, <2>9, <2>10, <2>11, <2>12, <2>13, <2>14, <2>15, <2>16 DEF PlanStep
<1> QED BY <1>1, <1>2 DEF PlanNext, PlanStep

\* What a step of p leaves alone: the others' knowledge and locks, and the file of every
\* plan, but for one that p writes under the lock and that is not applied.
PlanApart(p) ==
  /\ \A q \in PlanClients \ {p} :
       /\ planPc'[q] = planPc[q] /\ planCall'[q] = planCall[q] /\ planLoc'[q] = planLoc[q]
       /\ planLock = q => planLock' = q
  /\ planLost \subseteq planLost' /\ planArchived \subseteq planArchived'
  /\ \A i \in PlanIds \ planLost' :
       PlanKept(i)' = PlanKept(i) \/ (planLock = p /\ PlanKept(i) # {"applied"})

LEMMA OthersStaySane ==
  ASSUME PlanInv, NEW p, PlanApart(p)
  PROVE  \A q \in PlanClients \ {p} : PlanSane(q)'
<1> SUFFICES ASSUME NEW q \in PlanClients \ {p} PROVE PlanSane(q)'
  OBVIOUS
<1> DEFINE l == planLoc[q]
<1>1. PlanSane(q)
  BY DEF PlanInv
<1>2. planPc'[q] = planPc[q] /\ planCall'[q] = planCall[q] /\ planLoc'[q] = l
  BY DEF PlanApart
<1>3. l.id \in PlanIds /\ l.id \notin planLost' /\ PlanKept(l.id) = {"applied"}
        => PlanKept(l.id)' = {"applied"}
  BY DEF PlanApart
<1>4. l.id \in PlanIds /\ l.id \notin planLost' /\ planLock = q
        => PlanKept(l.id)' = PlanKept(l.id) /\ planLock' = q
  BY DEF PlanApart
<1>5. planLock = q => planLock' = q
  BY DEF PlanApart
<1>6. planLost \subseteq planLost' /\ planArchived \subseteq planArchived'
  BY DEF PlanApart
<1>8. /\ planPc[q] \in {"save", "rewrite", "applied", "failed"} => l.id \in PlanIds
      /\ planPc[q] = "save" => l.form \in PlanForms
      /\ planCall[q] = "write" => planPc[q] \in {"save", "applied", "failed"}
  BY <1>1 DEF PlanSane
<1>9. planCall[q] = "write" =>
        /\ planLock' = q
        /\ l.id \notin planLost' =>
             /\ planPc[q] = "save" => PlanKept(l.id)' = {}
             /\ planPc[q] \in {"applied", "failed"} => PlanKept(l.id)' = {"active"}
  BY <1>1, <1>4, <1>5, <1>6, <1>8 DEF PlanSane
<1>10. \/ planPc[q] \in {"save", "applied"} /\ planCall[q] = "done" /\ l.ret = "applied"
       \/ planPc[q] = "rewrite" /\ l.status = "applied"
       => l.id \in planLost' \/ PlanKept(l.id)' = {"applied"}
  BY <1>1, <1>3, <1>6, <1>8 DEF PlanSane
<1>11. planPc[q] = "applied" => PlanStrings \cap UNION l.ops \subseteq planArchived'
  BY <1>1, <1>6 DEF PlanSane
<1> QED BY <1>2, <1>8, <1>9, <1>10, <1>11 DEF PlanSane

\* A step that leaves files, archive and history alone.
LEMMA FilesStay ==
  ASSUME PlanInv, UNCHANGED <<planFile, planSent, planLost>>,
         planStubbed' \cap PlanStrings \subseteq planArchived'
  PROVE  PlanBroken' /\ PlanHasOneStatus' /\ StubsAreRecoverable'
         /\ \A i \in PlanIds : PlanKept(i)' = PlanKept(i)
  BY DEF PlanInv, PlanBroken, PlanHasOneStatus, StubsAreRecoverable, PlanKept, PlanDamaged

\* A quarantine changes no plan.
LEMMA QuarantineStays ==
  ASSUME PlanInv, NEW I, PlanQuarantine(I), UNCHANGED <<planArchived, planPast>>
  PROVE  PlanBroken' /\ PlanHasOneStatus' /\ StubsAreRecoverable'
         /\ \A i \in PlanIds : PlanKept(i)' = PlanKept(i)
<1>1. \A i \in PlanIds : PlanKept(i)' = PlanKept(i) /\ PlanDamaged(i)' \subseteq PlanDamaged(i)
  BY QuarantineKeeps DEF PlanInv
<1> QED BY <1>1 DEF PlanInv, PlanBroken, PlanHasOneStatus, StubsAreRecoverable, planPast

\* A call that returns gives up the lock and nobody else's.
LEMMA Returned ==
  ASSUME PlanTypeOK, NEW p \in PlanClients, NEW l, PlanReturn(p, l)
  PROVE  /\ planPc'[p] = planPc[p] /\ planCall'[p] = "done" /\ planLoc'[p] = l
         /\ \A q \in PlanClients \ {p} :
              /\ planPc'[q] = planPc[q] /\ planCall'[q] = planCall[q] /\ planLoc'[q] = planLoc[q]
              /\ planLock = q => planLock' = q
  BY PlanGone DEF PlanReturn

LEMMA LocateStep ==
  ASSUME PlanInv, NEW p \in PlanClients, NEW writes, NEW same, planPc[p] \in {"save", "applied", "failed"},
         planLock = p, UNCHANGED <<planArchived, planPast>>,
         PlanLocate(p, planLoc[p].id, writes, same),
         \A K \in writes : /\ planPc[p] = "save" => K = {}
                           /\ planPc[p] # "save" => K = {"active"}
  PROVE  PlanApart(p) /\ PlanSane(p)' /\ PlanBroken' /\ PlanHasOneStatus' /\ StubsAreRecoverable'
<1> USE DEF PlanInv
<1> DEFINE l == planLoc[p]
<1>0. /\ PlanSane(p) /\ l \in PlanLocal
      /\ UNCHANGED <<planArchived, planLost>>
  BY DEF PlanTypeOK, planPast
<1>1. CASE PlanReturn(p, [l EXCEPT !.ret = "bypassed"])
           /\ (UNCHANGED planFile \/ PlanQuarantine({l.id}))
  <2>1. PlanBroken' /\ PlanHasOneStatus' /\ StubsAreRecoverable'
        /\ \A i \in PlanIds : PlanKept(i)' = PlanKept(i)
    BY <1>1, QuarantineStays DEF PlanQuarantine
  <2>2. planLoc'[p].ret = "bypassed" /\ planLoc'[p].id = l.id /\ planLoc'[p].form = l.form
        /\ planLoc'[p].ops = l.ops
    BY <1>0, <1>1, Returned DEF PlanLocal
  <2>3. PlanSane(p)'
    BY <1>0, <1>1, <2>2, Returned DEF PlanSane
  <2>4. PlanApart(p)
    BY <1>0, <1>1, <2>1, Returned DEF PlanApart
  <2> QED BY <2>1, <2>3, <2>4
<1>2. CASE /\ UNCHANGED planFile /\ PlanKept(l.id) \in writes
           /\ PlanGo(p, planPc[p], "write", l) /\ UNCHANGED planLock
  <2>1. PlanBroken' /\ PlanHasOneStatus' /\ StubsAreRecoverable'
        /\ \A i \in PlanIds : PlanKept(i)' = PlanKept(i)
    BY <1>2, QuarantineStays DEF PlanQuarantine
  <2>2. planPc'[p] = planPc[p] /\ planCall'[p] = "write" /\ planLoc'[p] = l
    BY <1>2, PlanGone
  <2>3. PlanSane(p)'
    BY <1>0, <1>2, <2>1, <2>2 DEF PlanSane
  <2>4. PlanApart(p)
    BY <1>0, <1>2, <2>1, PlanGone DEF PlanApart
  <2> QED BY <2>1, <2>3, <2>4
<1>3. CASE UNCHANGED planFile
           /\ \E s \in same : PlanKept(l.id) = {s} /\ PlanReturn(p, [l EXCEPT !.ret = s])
  <2>1. PlanBroken' /\ PlanHasOneStatus' /\ StubsAreRecoverable'
        /\ \A i \in PlanIds : PlanKept(i)' = PlanKept(i)
    BY <1>3, QuarantineStays DEF PlanQuarantine
  <2>2. PICK s \in same : PlanKept(l.id) = {s} /\ PlanReturn(p, [l EXCEPT !.ret = s])
    BY <1>3
  <2>3. planLoc'[p].ret = s /\ planLoc'[p].id = l.id /\ planLoc'[p].form = l.form
        /\ planLoc'[p].ops = l.ops
    BY <1>0, <2>2, Returned DEF PlanLocal
  <2>4. PlanSane(p)'
    BY <1>0, <2>1, <2>2, <2>3, Returned DEF PlanSane
  <2>5. PlanApart(p)
    BY <1>0, <2>1, <2>2, Returned DEF PlanApart
  <2> QED BY <2>1, <2>4, <2>5
<1> QED BY <1>1, <1>2, <1>3 DEF PlanLocate

LEMMA ReadStep ==
  ASSUME PlanInv, NEW p \in PlanClients, PlanRead(p)
  PROVE  PlanApart(p) /\ PlanSane(p)' /\ PlanBroken' /\ PlanHasOneStatus' /\ StubsAreRecoverable'
<1> DEFINE l == planLoc[p]
<1>0. planLock = p /\ UNCHANGED <<planArchived, planPast>>
  BY DEF PlanRead
<1>1. CASE PlanSave(p)
  <2>0. PICK same : same = {s \in PlanStatuses : planFile[l.id][s] = l.form}
    OBVIOUS
  <2>1. planPc[p] = "save" /\ PlanLocate(p, l.id, {{}}, same)
    BY <1>1, <2>0 DEF PlanSave
  <2>2. \A K \in {{}} : K = {}
    OBVIOUS
  <2> QED BY <1>0, <2>1, <2>2, LocateStep
<1>2. CASE PlanTransition(p)
  <2>0. PICK same, writes : same = {planPc[p]} /\ writes = {{"active"}}
    OBVIOUS
  <2>1. planPc[p] \in {"applied", "failed"} /\ PlanLocate(p, l.id, writes, same)
    BY <1>2, <2>0 DEF PlanTransition
  <2>2. \A K \in writes : /\ planPc[p] = "save" => K = {}
                          /\ planPc[p] # "save" => K = {"active"}
    BY <2>0, <2>1
  <2>3. planPc[p] \in {"save", "applied", "failed"}
    BY <2>1
  <2> QED BY <1>0, <2>1, <2>2, <2>3, LocateStep
<1>3. CASE PlanLoad(p)
  <2> DEFINE active == {i \in PlanIds : planFile[i]["active"] # PlanNone}
  <2>1. PICK k : PlanReturn(p, k)
    BY <1>3 DEF PlanLoad
  <2>2. PlanQuarantine(active)
    BY <1>3 DEF PlanLoad, PlanQuarantine
  <2>3. PlanBroken' /\ PlanHasOneStatus' /\ StubsAreRecoverable'
        /\ \A i \in PlanIds : PlanKept(i)' = PlanKept(i)
    BY <1>0, <2>2, QuarantineStays
  <2>4. planPc'[p] = "load" /\ planCall'[p] = "done"
    BY <1>3, <2>1, Returned DEF PlanInv, PlanLoad
  <2>5. PlanSane(p)'
    BY <2>4 DEF PlanSane
  <2>6. PlanApart(p)
    BY <1>0, <2>1, <2>3, Returned DEF PlanInv, PlanApart, planPast
  <2> QED BY <2>3, <2>5, <2>6
<1> QED BY <1>1, <1>2, <1>3 DEF PlanRead

LEMMA WriteStep ==
  ASSUME PlanInv, NEW p \in PlanClients, PlanWrite(p)
  PROVE  PlanApart(p) /\ PlanSane(p)' /\ PlanBroken' /\ PlanHasOneStatus' /\ StubsAreRecoverable'
<1> USE DEF PlanInv
<1> DEFINE l == planLoc[p]
<1>i. PICK i : i = l.id
  OBVIOUS
<1>0. /\ PlanSane(p) /\ l \in PlanLocal /\ planLock = p
      /\ UNCHANGED <<planArchived, planSent, planStubbed, planLost>>
      /\ planCall[p] = "write"
  BY DEF PlanTypeOK, PlanWrite, PlanSane, planPast
<1>1. StubsAreRecoverable'
  BY <1>0 DEF StubsAreRecoverable
<1>2. CASE UNCHANGED planFile /\ PlanReturn(p, [l EXCEPT !.ret = "bypassed"])
  <2>1. PlanBroken' /\ PlanHasOneStatus' /\ \A j \in PlanIds : PlanKept(j)' = PlanKept(j)
    BY <1>0, <1>1, <1>2, FilesStay DEF StubsAreRecoverable
  <2>2. planLoc'[p].ret = "bypassed" /\ planLoc'[p].id = l.id /\ planLoc'[p].form = l.form
        /\ planLoc'[p].ops = l.ops
    BY <1>0, <1>2, Returned DEF PlanLocal
  <2>3. PlanSane(p)'
    BY <1>0, <1>2, <2>2, Returned DEF PlanSane
  <2>4. PlanApart(p)
    BY <1>0, <1>2, <2>1, Returned DEF PlanApart
  <2> QED BY <1>1, <2>1, <2>3, <2>4
<1>3. CASE /\ planPc[p] = "save" /\ planFile' = [planFile EXCEPT ![l.id]["active"] = l.form]
           /\ PlanReturn(p, [l EXCEPT !.ret = "active"])
  <2>1. i \in PlanIds /\ l.form \in PlanForms /\ (i \notin planLost => PlanKept(i) = {})
    BY <1>0, <1>3, <1>i DEF PlanSane
  <2>2. \A j \in PlanIds : \A s \in PlanStatuses :
          planFile'[j][s] = IF j = i /\ s = "active" THEN l.form ELSE planFile[j][s]
    BY <1>3, <1>i, <2>1 DEF PlanTypeOK, PlanStatuses
  <2>3. \A j \in PlanIds : j # i => PlanKept(j)' = PlanKept(j) /\ PlanDamaged(j)' = PlanDamaged(j)
    BY <2>2 DEF PlanKept, PlanDamaged
  <2>4. i \notin planLost => PlanKept(i)' = {"active"}
    BY <2>1, <2>2 DEF PlanKept, PlanStatuses
  <2>5. PlanDamaged(i)' \subseteq PlanDamaged(i)
    BY <2>1, <2>2, PlanAssumption DEF PlanDamaged
  <2>6. PlanBroken'
    BY <1>0, <2>3, <2>5 DEF PlanBroken
  <2>7. PlanHasOneStatus'
    BY <1>0, <2>1, <2>3, <2>4 DEF PlanHasOneStatus
  <2>8. planLoc'[p].ret = "active" /\ planLoc'[p].id = i /\ planLoc'[p].form = l.form
    BY <1>0, <1>3, <1>i, Returned DEF PlanLocal
  <2>9. PlanSane(p)'
    BY <1>3, <2>1, <2>8, Returned DEF PlanSane
  <2>10. PlanApart(p)
    BY <1>0, <1>3, <2>1, <2>3, Returned DEF PlanApart
  <2> QED BY <1>1, <2>6, <2>7, <2>9, <2>10
<1>4. CASE /\ planPc[p] \in {"applied", "failed"}
           /\ planFile' = [planFile EXCEPT ![l.id][planPc[p]] = planFile[l.id]["active"],
                                           ![l.id]["active"]  = PlanNone]
           /\ PlanReturn(p, [l EXCEPT !.ret = planPc[p]])
  <2> DEFINE to == planPc[p]
  <2>1. i \in PlanIds /\ (i \notin planLost => PlanKept(i) = {"active"})
    BY <1>0, <1>4, <1>i DEF PlanSane
  <2>2. \A j \in PlanIds : \A s \in PlanStatuses :
          planFile'[j][s] = IF j # i THEN planFile[j][s]
                            ELSE IF s = "active" THEN PlanNone
                            ELSE IF s = to THEN planFile[i]["active"] ELSE planFile[i][s]
    BY <1>4, <1>i, <2>1 DEF PlanTypeOK, PlanStatuses
  <2>3. \A j \in PlanIds : j # i => PlanKept(j)' = PlanKept(j) /\ PlanDamaged(j)' = PlanDamaged(j)
    BY <2>2 DEF PlanKept, PlanDamaged
  <2>4. i \notin planLost => PlanKept(i)' = {to}
    <3> SUFFICES ASSUME i \notin planLost PROVE PlanKept(i)' = {to}
      OBVIOUS
    <3>1. planFile[i]["active"] \in PlanForms /\ \A s \in PlanStatuses \ {"active"} : planFile[i][s] \notin PlanForms
      BY <2>1 DEF PlanKept
    <3>2. \A s \in PlanStatuses : planFile'[i][s] \in PlanForms <=> s = to
      BY <1>4, <2>1, <2>2, <3>1, PlanAssumption DEF PlanStatuses
    <3>3. to \in PlanStatuses
      BY <1>4 DEF PlanStatuses
    <3> QED BY <3>2, <3>3 DEF PlanKept
  <2>5. PlanDamaged(i)' # {} => PlanDamaged(i) # {}
    BY <2>1, <2>2, PlanAssumption DEF PlanDamaged, PlanStatuses
  <2>6. PlanBroken'
    BY <1>0, <2>3, <2>5 DEF PlanBroken
  <2>7. PlanHasOneStatus'
    BY <1>0, <2>1, <2>3, <2>4 DEF PlanHasOneStatus
  <2>8. planLoc'[p].ret = to /\ planLoc'[p].id = i /\ planLoc'[p].form = l.form
        /\ planLoc'[p].ops = l.ops
    BY <1>0, <1>4, <1>i, Returned DEF PlanLocal
  <2>9. PlanSane(p)'
    BY <1>0, <1>4, <2>1, <2>4, <2>8, Returned DEF PlanSane
  <2>10. PlanApart(p)
    BY <1>0, <1>4, <2>1, <2>3, Returned DEF PlanApart
  <2> QED BY <1>1, <2>6, <2>7, <2>9, <2>10
<1> QED BY <1>2, <1>3, <1>4 DEF PlanWrite

\* A request of the gateway goes on: files and history of the plans stay as they are.
LEMMA GatewayStep ==
  ASSUME PlanInv, NEW p \in PlanClients, NEW label, NEW call, NEW k, PlanGo(p, label, call, k),
         UNCHANGED <<planFile, planSent, planLost>>, planArchived \subseteq planArchived',
         planStubbed' = planStubbed,
         \A q \in PlanClients \ {p} : planLock = q => planLock' = q,
         label \in {"save", "rewrite", "applied", "failed"} => k.id \in PlanIds,
         label = "save" => k.form \in PlanForms,
         call \notin {"write", "done"},
         label = "rewrite" /\ k.status = "applied" => k.id \in planLost \/ PlanKept(k.id) = {"applied"},
         label = "applied" => PlanStrings \cap UNION k.ops \subseteq planArchived'
  PROVE  PlanApart(p) /\ PlanSane(p)' /\ PlanBroken' /\ PlanHasOneStatus' /\ StubsAreRecoverable'
<1>1. planStubbed' \cap PlanStrings \subseteq planArchived'
  BY DEF PlanInv, StubsAreRecoverable
<1>2. /\ PlanBroken' /\ PlanHasOneStatus' /\ StubsAreRecoverable'
      /\ \A i \in PlanIds : PlanKept(i)' = PlanKept(i)
  BY <1>1, FilesStay
<1>3. /\ planPc'[p] = label /\ planCall'[p] = call /\ planLoc'[p] = k
      /\ \A q \in PlanClients \ {p} :
           planPc'[q] = planPc[q] /\ planCall'[q] = planCall[q] /\ planLoc'[q] = planLoc[q]
  BY PlanGone DEF PlanInv
<1>4. PlanApart(p)
  BY <1>2, <1>3 DEF PlanApart
<1>5. PlanSane(p)'
  BY <1>2, <1>3 DEF PlanSane
<1> QED BY <1>2, <1>4, <1>5

\* An overlay goes upstream: its plan is applied and its items are archived.
LEMMA SendStep ==
  ASSUME PlanInv, NEW p \in PlanClients, NEW k, PlanSend(k), PlanEnd(p),
         UNCHANGED <<planLock, planFile, planLost>>, planArchived \subseteq planArchived',
         k.id \in PlanIds, k.id \in planLost \/ PlanKept(k.id) = {"applied"},
         PlanStrings \cap UNION k.ops \subseteq planArchived'
  PROVE  PlanApart(p) /\ PlanSane(p)' /\ PlanBroken' /\ PlanHasOneStatus' /\ StubsAreRecoverable'
<1>1. \A i \in PlanIds : PlanKept(i)' = PlanKept(i) /\ PlanDamaged(i)' = PlanDamaged(i)
  BY DEF PlanKept, PlanDamaged
<1>2. PlanBroken'
  BY <1>1 DEF PlanInv, PlanBroken
<1>3. PlanHasOneStatus'
  BY <1>1 DEF PlanInv, PlanHasOneStatus, PlanSend
<1>4. StubsAreRecoverable'
  BY DEF PlanInv, StubsAreRecoverable, PlanSend
<1>5. /\ planPc'[p] = "idle" /\ planCall'[p] = "none"
      /\ \A q \in PlanClients \ {p} :
           planPc'[q] = planPc[q] /\ planCall'[q] = planCall[q] /\ planLoc'[q] = planLoc[q]
  BY PlanGone DEF PlanInv, PlanEnd
<1>6. PlanApart(p)
  BY <1>1, <1>5 DEF PlanApart
<1>7. PlanSane(p)'
  BY <1>5 DEF PlanSane
<1> QED BY <1>2, <1>3, <1>4, <1>6, <1>7

LEMMA RequestStep ==
  ASSUME PlanInv, NEW p \in PlanClients, PlanStep(p)
  PROVE  PlanApart(p) /\ PlanSane(p)' /\ PlanBroken' /\ PlanHasOneStatus' /\ StubsAreRecoverable'
<1> DEFINE l == planLoc[p]
           Goal == PlanApart(p) /\ PlanSane(p)' /\ PlanBroken' /\ PlanHasOneStatus' /\ StubsAreRecoverable'
<1>0. l \in PlanLocal /\ PlanSane(p) /\ PlanTypeOK
  BY DEF PlanInv, PlanTypeOK
<1>e. ASSUME PlanEnd(p), UNCHANGED <<planFile, planSent, planStubbed, planLost>>,
             planArchived \subseteq planArchived', \A q \in PlanClients \ {p} : planLock = q => planLock' = q
      PROVE  Goal
  BY <1>e, GatewayStep DEF PlanEnd
<1>a. ASSUME NEW k \in PlanLocal, NEW label \in PlanCalls, PlanAsk(p, label, k),
             UNCHANGED <<planLock, planFile, planSent, planStubbed, planLost>>,
             planArchived \subseteq planArchived',
             label # "load" => k.id \in PlanIds, label = "save" => k.form \in PlanForms,
             label = "applied" => PlanStrings \cap UNION k.ops \subseteq planArchived'
      PROVE  Goal
  <2>1. /\ [k EXCEPT !.ret = "none"].id = k.id /\ [k EXCEPT !.ret = "none"].form = k.form
        /\ [k EXCEPT !.ret = "none"].ops = k.ops
    BY DEF PlanLocal
  <2>2. PICK m : m = [k EXCEPT !.ret = "none"]
    OBVIOUS
  <2>3. PlanGo(p, label, "open", m)
    BY <1>a, <2>2 DEF PlanAsk
  <2>4. /\ label # "rewrite"
        /\ label # "load" => m.id \in PlanIds
        /\ label = "save" => m.form \in PlanForms
        /\ label = "applied" => PlanStrings \cap UNION m.ops \subseteq planArchived'
    BY <1>a, <2>1, <2>2 DEF PlanCalls
  <2>5. UNCHANGED <<planFile, planSent, planLost>> /\ planArchived \subseteq planArchived'
        /\ planStubbed' = planStubbed /\ \A q \in PlanClients \ {p} : planLock = q => planLock' = q
    BY <1>a
  <2>6. label \in {"save", "rewrite", "applied", "failed"} => m.id \in PlanIds
    BY <2>4
  <2>7. "open" \notin {"write", "done"}
    OBVIOUS
  <2> HIDE <1>a, <2>2, <2>1
  <2> QED BY <2>3, <2>4, <2>5, <2>6, <2>7, GatewayStep
<1>1. CASE PlanLock(p)
  <2>1. UNCHANGED <<planFile, planArchived, planSent, planStubbed, planLost>>
    BY <1>1 DEF PlanLock, planFiles, planPast
  <2>2. PlanBroken' /\ PlanHasOneStatus' /\ StubsAreRecoverable'
        /\ \A i \in PlanIds : PlanKept(i)' = PlanKept(i)
    BY <2>1, FilesStay DEF PlanInv, StubsAreRecoverable
  <2>3. CASE planLock = PlanNone /\ planLock' = p /\ UNCHANGED <<planPc, planCall, planLoc>>
    <3>1. PlanApart(p)
      BY <2>1, <2>2, <2>3, PlanAssumption DEF PlanApart
    <3>2. PlanSane(p)'
      BY <1>0, <1>1, <2>1, <2>2, <2>3 DEF PlanSane, PlanLock
    <3> QED BY <2>2, <3>1, <3>2
  <2>4. CASE PlanReturn(p, [l EXCEPT !.ret = "bypassed"])
    <3>1. planLoc'[p].ret = "bypassed" /\ planLoc'[p].id = l.id /\ planLoc'[p].form = l.form
          /\ planLoc'[p].ops = l.ops /\ planLoc'[p].status = l.status
      BY <1>0, <2>4, Returned DEF PlanLocal
    <3>2. PlanSane(p)'
      BY <1>0, <2>1, <2>2, <2>4, <3>1, Returned DEF PlanSane
    <3>3. PlanApart(p)
      BY <1>0, <2>1, <2>2, <2>4, Returned DEF PlanApart
    <3> QED BY <2>2, <3>2, <3>3
  <2> QED BY <1>1, <2>3, <2>4 DEF PlanLock
<1>2. CASE PlanRead(p)
  BY <1>2, ReadStep
<1>3. CASE PlanWrite(p)
  BY <1>3, WriteStep
<1>4. CASE PlanBegin(p)
  <2>1. UNCHANGED <<planLock, planFile, planArchived, planSent, planStubbed, planLost>>
    BY <1>4 DEF PlanBegin, planFiles
  <2>2. CASE PlanAsk(p, "load", PlanNoLocal)
    BY <1>a, <2>1, <2>2, PlanNoLocalTyped DEF PlanCalls
  <2>3. CASE \E i \in PlanLifecycle, f \in PlanForms :
               PlanAsk(p, "save", [PlanNoLocal EXCEPT !.id = i, !.form = f])
    <3>1. PICK i \in PlanLifecycle, f \in PlanForms :
            PlanAsk(p, "save", [PlanNoLocal EXCEPT !.id = i, !.form = f])
      BY <2>3
    <3>2. PICK k : k = [PlanNoLocal EXCEPT !.id = i, !.form = f]
      OBVIOUS
    <3>3. k \in PlanLocal /\ k.id = i /\ k.form = f
      BY <3>2, PlanNoLocalTyped DEF PlanLocal, PlanIds
    <3> QED BY <1>a, <2>1, <3>1, <3>2, <3>3 DEF PlanCalls, PlanIds
  <2> QED BY <1>4, <2>2, <2>3 DEF PlanBegin
<1>5. CASE PlanTake(p)
  <2>1. UNCHANGED <<planLock, planFile, planArchived, planSent, planStubbed, planLost>>
    BY <1>5 DEF PlanTake, planFiles
  <2>2. PICK i \in PlanHeuristic, f \in PlanForms :
          LET k == [PlanNoLocal EXCEPT !.id = i, !.form = f] IN
          \/ PlanAsk(p, "save", [k EXCEPT !.replay = TRUE])
          \/ PlanGo(p, "rewrite", "none", [k EXCEPT !.status = "active"])
          \/ PlanAsk(p, "save", k)
    BY <1>5 DEF PlanTake
  <2>3. PICK k1, k2, k3 :
          /\ k1 = [PlanNoLocal EXCEPT !.id = i, !.form = f]
          /\ k2 = [[PlanNoLocal EXCEPT !.id = i, !.form = f] EXCEPT !.replay = TRUE]
          /\ k3 = [[PlanNoLocal EXCEPT !.id = i, !.form = f] EXCEPT !.status = "active"]
    OBVIOUS
  <2>4. /\ k1 \in PlanLocal /\ k1.id = i /\ k1.form = f
        /\ k2 \in PlanLocal /\ k2.id = i /\ k2.form = f
        /\ k3 \in PlanLocal /\ k3.id = i /\ k3.form = f /\ k3.status = "active"
    BY <2>3, PlanNoLocalTyped DEF PlanLocal, PlanIds, PlanStatuses
  <2>5. CASE PlanAsk(p, "save", k1) \/ PlanAsk(p, "save", k2)
    BY <1>a, <2>1, <2>4, <2>5 DEF PlanCalls, PlanIds
  <2>6. CASE PlanGo(p, "rewrite", "none", k3)
    BY <2>1, <2>4, <2>6, GatewayStep DEF PlanIds
  <2> QED BY <2>2, <2>3, <2>5, <2>6
<1>6. CASE PlanPass(p)
  BY <1>e, <1>6 DEF PlanPass, planFiles, planPast
<1>7. CASE PlanSaved(p)
  <2>1. UNCHANGED <<planLock, planFile, planArchived, planSent, planStubbed, planLost>>
    BY <1>7 DEF PlanSaved, planFiles, planPast
  <2>2. CASE PlanEnd(p)
    BY <1>e, <2>1, <2>2
  <2>3. CASE \/ PlanGo(p, "rewrite", "none", [l EXCEPT !.status = "active"])
             \/ /\ l.ret \in {"active", "applied"}
                /\ PlanGo(p, "rewrite", "none", [l EXCEPT !.status = l.ret])
    <3>1. PICK st, k : /\ st = "active" \/ (st = l.ret /\ l.ret \in {"active", "applied"})
                       /\ k = [l EXCEPT !.status = st] /\ PlanGo(p, "rewrite", "none", k)
      BY <2>3
    <3>2. k.id = l.id /\ k.status = st
      BY <1>0, <3>1 DEF PlanLocal
    <3>3. l.id \in PlanIds
      BY <1>0, <1>7 DEF PlanSaved, PlanAnswered, PlanSane
    <3>4. st = "applied" => l.id \in planLost \/ PlanKept(l.id) = {"applied"}
      BY <1>0, <1>7, <3>1 DEF PlanSaved, PlanAnswered, PlanSane
    <3>5. k.id \in PlanIds /\ (k.status = "applied" => k.id \in planLost \/ PlanKept(k.id) = {"applied"})
      BY <3>2, <3>3, <3>4 DEF PlanKept
    <3>6. PlanGo(p, "rewrite", "none", k)
      BY <3>1
    <3>7. UNCHANGED <<planFile, planSent, planLost>> /\ planArchived \subseteq planArchived'
          /\ planStubbed' = planStubbed /\ \A q \in PlanClients \ {p} : planLock = q => planLock' = q
      BY <2>1
    <3> HIDE <3>1, <2>1
    <3> QED BY <3>5, <3>6, <3>7, GatewayStep
  <2> QED BY <1>7, <2>2, <2>3 DEF PlanSaved
<1>8. CASE PlanRewrite(p)
  <2>1. PICK ops \in SUBSET PlanOperations, fails \in SUBSET PlanStrings :
          LET k == [l EXCEPT !.ops = PlanApplies(ops, fails)] IN
          /\ planArchived' = planArchived \cup ((PlanStrings \cap UNION ops) \ fails)
          /\ \/ k.ops = {} /\ PlanEnd(p) /\ UNCHANGED <<planSent, planStubbed>>
             \/ /\ k.ops # {} /\ k.status = "active"
                /\ PlanAsk(p, "applied", k) /\ UNCHANGED <<planSent, planStubbed>>
             \/ /\ k.ops # {} /\ k.status = "applied"
                /\ PlanSend(k) /\ PlanEnd(p)
    BY <1>8 DEF PlanRewrite
  <2>2. UNCHANGED <<planLock, planFile, planLost>> /\ planArchived \subseteq planArchived'
    BY <1>8, <2>1 DEF PlanRewrite
  <2>3. PICK k : k = [l EXCEPT !.ops = PlanApplies(ops, fails)]
    OBVIOUS
  <2>4. /\ k \in PlanLocal /\ k.id = l.id /\ k.status = l.status /\ k.ops = PlanApplies(ops, fails)
    BY <1>0, <2>3 DEF PlanLocal, PlanApplies
  <2>5. PlanStrings \cap UNION k.ops \subseteq planArchived'
    BY <2>1, <2>4 DEF PlanApplies
  <2>6. k.id \in PlanIds /\ (k.status = "applied" => k.id \in planLost \/ PlanKept(k.id) = {"applied"})
    BY <1>0, <1>8, <2>4 DEF PlanRewrite, PlanSane
  <2>7. CASE PlanEnd(p) /\ UNCHANGED <<planSent, planStubbed>>
    BY <1>e, <2>2, <2>7
  <2>8. CASE PlanAsk(p, "applied", k) /\ UNCHANGED <<planSent, planStubbed>>
    BY <1>a, <2>2, <2>4, <2>5, <2>6, <2>8 DEF PlanCalls
  <2>9. CASE k.status = "applied" /\ PlanSend(k) /\ PlanEnd(p)
    BY <2>2, <2>5, <2>6, <2>9, SendStep
  <2> QED BY <2>1, <2>3, <2>7, <2>8, <2>9
<1>9. CASE PlanMarked(p)
  <2>1. UNCHANGED <<planLock, planFile, planArchived, planLost>>
    BY <1>9 DEF PlanMarked, planFiles
  <2>2. /\ l.id \in PlanIds /\ PlanStrings \cap UNION l.ops \subseteq planArchived
        /\ l.ret = "applied" => l.id \in planLost \/ PlanKept(l.id) = {"applied"}
    BY <1>0, <1>9 DEF PlanMarked, PlanAnswered, PlanSane
  <2>3. PICK k : k = l
    OBVIOUS
  <2>4. CASE l.ret = "applied" /\ PlanSend(l) /\ PlanEnd(p)
    <3>1. PlanSend(k)
      BY <2>3, <2>4
    <3> QED BY <2>1, <2>2, <2>3, <2>4, <3>1, SendStep
  <2>5. CASE PlanAsk(p, "failed", l) /\ UNCHANGED <<planSent, planStubbed>>
    BY <1>0, <1>a, <2>1, <2>2, <2>3, <2>5 DEF PlanCalls
  <2> QED BY <1>9, <2>4, <2>5 DEF PlanMarked
<1>10. CASE PlanGaveUp(p)
  BY <1>e, <1>10 DEF PlanGaveUp, planFiles, planPast
<1>11. CASE PlanCrash(p)
  BY <1>e, <1>11 DEF PlanCrash, planFiles, planPast
<1> QED BY <1>1, <1>2, <1>3, <1>4, <1>5, <1>6, <1>7, <1>8, <1>9, <1>10, <1>11 DEF PlanStep

LEMMA DamageStep ==
  ASSUME PlanInv, PlanDamage
  PROVE  PlanApart(PlanNone) /\ PlanBroken' /\ PlanHasOneStatus' /\ StubsAreRecoverable'
<1>1. PICK i \in PlanIds : \E s \in PlanKept(i) :
        planFile' = [planFile EXCEPT ![i][s] = PlanBad] /\ planLost' = planLost \cup {i}
  BY DEF PlanDamage
<1>2. UNCHANGED <<planLock, planArchived, planPc, planCall, planLoc, planSent, planStubbed>>
  BY DEF PlanDamage
<1>3. \A j \in PlanIds \ {i} : planFile'[j] = planFile[j]
  BY <1>1 DEF PlanInv, PlanTypeOK
<1>4. \A j \in PlanIds \ {i} : PlanKept(j)' = PlanKept(j) /\ PlanDamaged(j)' = PlanDamaged(j)
  BY <1>3 DEF PlanKept, PlanDamaged
<1>5. PlanBroken'
  BY <1>1, <1>4 DEF PlanInv, PlanBroken
<1>6. PlanHasOneStatus'
  BY <1>1, <1>2, <1>4 DEF PlanInv, PlanHasOneStatus
<1>7. StubsAreRecoverable'
  BY <1>2 DEF PlanInv, StubsAreRecoverable
<1>8. PlanApart(PlanNone)
  BY <1>1, <1>2, <1>4 DEF PlanApart
<1> QED BY <1>5, <1>6, <1>7, <1>8

LEMMA PlanStart == PlanInit => PlanInv
<1> SUFFICES ASSUME PlanInit PROVE PlanInv
  OBVIOUS
<1>1. \A i \in PlanIds : PlanKept(i) = {} /\ PlanDamaged(i) = {}
  BY PlanAssumption DEF PlanInit, PlanKept, PlanDamaged
<1>2. PlanTypeOK
  BY PlanAssumption, PlanNoLocalTyped DEF PlanInit, PlanTypeOK, PlanCalls
<1>3. PlanBroken /\ PlanHasOneStatus /\ StubsAreRecoverable
  BY <1>1 DEF PlanInit, PlanBroken, PlanHasOneStatus, StubsAreRecoverable
<1>4. \A p \in PlanClients : PlanSane(p)
  BY DEF PlanInit, PlanSane
<1> QED BY <1>2, <1>3, <1>4 DEF PlanInv

LEMMA PlanInvStep ==
  ASSUME PlanInv, PlanNext
  PROVE  PlanInv'
<1>1. PlanTypeOK'
  BY PlanTypeStep
<1>2. CASE PlanDamage
  BY <1>1, <1>2, DamageStep, OthersStaySane, PlanAssumption DEF PlanInv
<1>3. ASSUME NEW p \in PlanClients, PlanStep(p) PROVE PlanInv'
  BY <1>1, <1>3, RequestStep, OthersStaySane DEF PlanInv
<1> QED BY <1>2, <1>3 DEF PlanNext, PlanStep

LEMMA PlanStutters ==
  ASSUME PlanInv, UNCHANGED planVars
  PROVE  PlanInv'
  BY DEF PlanInv, PlanTypeOK, PlanBroken, PlanHasOneStatus, StubsAreRecoverable, PlanSane,
         PlanKept, PlanDamaged, planVars

\* The invariant of the plan store and the gateway's requests.
THEOREM PlanInvariance == PlanSpec => []PlanInv
  BY PlanStart, PlanInvStep, PlanStutters, PTL DEF PlanSpec

\* A plan has one status, and only an applied one was used, for any number of requests,
\* plans, crashes and failed writes, as long as its file is not damaged.
THEOREM PlansHaveOneStatus == PlanSpec => []PlanHasOneStatus
<1>1. PlanInv => PlanHasOneStatus
  BY DEF PlanInv
<1> QED BY <1>1, PlanInvariance, PTL

\* Whatever string an overlay took away is in the archive.
THEOREM NothingIsLost == PlanSpec => []StubsAreRecoverable
<1>1. PlanInv => StubsAreRecoverable
  BY DEF PlanInv
<1> QED BY <1>1, PlanInvariance, PTL

-------------------------------------------------------------------------------
\* Where an operation goes on when the lock is released.
ClaudeDue(label, l) == IF label \in {"release", "unlink"} THEN l.next ELSE label

\* What an operation carries fits the point it has reached.
ClaudeFits(label, l) ==
  /\ label \in {"release", "unlink"} => l.next \in {"idle", "publish", "lock", "record"}
  /\ ClaudeDue(label, l) = "idle" <=> l.errand = "none"
  /\ l.errand # "none" => l.plan \in ClPlans
  /\ ClaudeDue(label, l) = "publish" => l.errand = "write"
  /\ ClaudeDue(label, l) \in {"prepare", "overlay", "upstream", "settle"} => l.errand = "run"
  /\ ClaudeDue(label, l) = "append" => l.errand \in {"write", "close"}
  /\ ClaudeDue(label, l) = "record" => l.errand = "close" /\ l.result \in {"stale", "failed"}

\* What it knows of its plan stays true, whoever else gets the lock.
ClaudeKnows(label, l) ==
  /\ l.errand = "close" /\ ClaudeDue(label, l) # "record" =>
       l.result \in Terminal /\ clReceipt[l.plan] = l.result
  /\ ClaudeDue(label, l) \in {"publish", "prepare", "overlay", "upstream", "settle"} =>
       clJournal[l.plan] # "none"
  /\ ClaudeDue(label, l) = "settle" => l.plan \in clAccepted

\* Every operation at work, wherever it is.
ClaudeCarries ==
  \A p \in ClClients : ClaudeFits(clPc[p], clLoc[p]) /\ ClaudeKnows(clPc[p], clLoc[p])

\* The points between taking the lock and having dropped it.
ClaudeCritical == {"read", "append", "prepare", "overlay", "upstream", "settle",
                   "release", "unlink"}

\* The owner of the lock is in its section; unless a lock was stolen, nobody else is in one.
ClaudeLocked ==
  \A p \in ClClients :
    /\ clLock = p => clPc[p] \in ClaudeCritical
    /\ clPc[p] \in ClaudeCritical => clLock = p \/ clStolen

\* Unless a lock was stolen, a line is appended to the journal that was read.
ClaudeFound ==
  \A p \in ClClients : clPc[p] = "append" /\ ~clStolen =>
    IF clLoc[p].errand = "write" THEN ClaudeVacant(ClaudePlan(p))
                                 ELSE clJournal[ClaudePlan(p)] = "scheduled"

\* A plan is applied only after it had a schedule.
ClaudeAppliedWasOpen == \A q \in ClPlans : clReceipt[q] = "applied" => clJournal[q] # "none"

ClaudeInv ==
  /\ ClaudeTypeOK
  /\ ClaudeCarries
  /\ ClaudeLocked /\ ClaudeFound /\ ClaudeAppliedWasOpen
  /\ ClaudeJournalFollowsReceipts /\ ClaudeAppliedWasAccepted /\ ClaudeOneStory

\* Where the steps take an operation, and what it carries there.
ClaudeStays == {<<"lock", "read">>, <<"lock", "break">>, <<"break", "lock">>,
                <<"prepare", "overlay">>, <<"overlay", "upstream">>, <<"upstream", "settle">>,
                <<"release", "unlink">>, <<"record", "lock">>}

ClaudeMoves(p) ==
  LET l == clLoc[p] IN
  \/ \E label \in ClaudeLabels : <<clPc[p], label>> \in ClaudeStays /\ ClaudeGo(p, label, l)
  \/ clPc[p] = "read" /\ l.errand \in {"write", "close"} /\ ClaudeGo(p, "append", l)
  \/ clPc[p] = "read" /\ l.errand = "run" /\ ClaudeGo(p, "prepare", l)
  \/ clPc[p] \in {"read", "append"} /\ l.errand = "write" /\ ClaudeRelease(p, "publish", l)
  \/ clPc[p] \in {"release", "unlink"} /\ ClaudeGo(p, l.next, [l EXCEPT !.next = "idle"])
  \/ clPc[p] = "publish" /\ \E s \in Terminal : ClaudeGo(p, "lock", ClaudeClosing(p, s))
  \/ clPc[p] \in {"prepare", "settle"}
       /\ \E s \in Terminal : ClaudeRelease(p, "lock", ClaudeClosing(p, s))
  \/ clPc[p] \in {"prepare", "overlay"}
     /\ \E s \in {"stale", "failed"} : ClaudeRelease(p, "record", ClaudeClosing(p, s))
  \/ \E q \in ClPlans, e \in {"write", "run"} :
       ClaudeGo(p, "lock", [ClaudeIdle EXCEPT !.plan = q, !.errand = e])
  \/ ClaudeRelease(p, "idle", ClaudeIdle)
  \/ ClaudeLeave(p)

\* The steps of one operation.
ClaudeStep(p) ==
  \/ ClaudeApprove(p) \/ ClaudeRequest(p) \/ ClaudeAcquire(p)
  \/ ClaudeOnwards(p) \/ ClaudeCrash(p) \/ ClaudeWriteFails(p)

-------------------------------------------------------------------------------
\* An operation that has nothing in its hands is well typed.
LEMMA ClaudeIdleTyped == ClaudeIdle \in ClaudeLocal
BY DEF ClaudeIdle, ClaudeLocal, ClaudeErrands, ClaudeLabels

\* The invariant of the clean execution holds when nothing is scheduled yet.
LEMMA ClaudeStart == ClaudeInit => ClaudeInv
<1> SUFFICES ASSUME ClaudeInit PROVE ClaudeInv
  OBVIOUS
<1> USE ClaudeCleanAssumption DEF ClaudeInit
<1>1. ClaudeTypeOK
  <2>1. clReceipt \in [ClPlans -> Status] /\ clJournal \in [ClPlans -> ClaudeEntries]
    BY DEF Status, ClaudeEntries
  <2>2. clLock \in ClaudeOwners /\ clFaults \in 0..ClMaxFaults
    BY DEF ClaudeOwners
  <2>3. clPc \in [ClClients -> ClaudeLabels] /\ clLoc \in [ClClients -> ClaudeLocal]
    BY ClaudeIdleTyped DEF ClaudeLabels
  <2> QED BY <2>1, <2>2, <2>3 DEF ClaudeTypeOK
<1>2. ClaudeCarries
  BY DEF ClaudeCarries, ClaudeFits, ClaudeKnows, ClaudeDue, ClaudeIdle
<1>3. ClaudeLocked /\ ClaudeFound
  BY DEF ClaudeLocked, ClaudeFound, ClaudeCritical
<1>4. ClaudeAppliedWasOpen /\ ClaudeJournalFollowsReceipts /\ ClaudeAppliedWasAccepted
  BY DEF ClaudeAppliedWasOpen, ClaudeJournalFollowsReceipts, ClaudeAppliedWasAccepted,
     ClaudeEnded, Terminal
<1>5. ClaudeOneStory
  BY DEF ClaudeOneStory
<1> QED BY <1>1, <1>2, <1>3, <1>4, <1>5 DEF ClaudeInv

\* What a step does to control point and knowledge of its operation.
LEMMA ClaudeGone ==
  ASSUME ClaudeTypeOK, NEW p \in ClClients, NEW label, NEW l, ClaudeGo(p, label, l)
  PROVE  /\ clPc'[p] = label /\ clLoc'[p] = l
         /\ \A r \in ClClients \ {p} : clPc'[r] = clPc[r] /\ clLoc'[r] = clLoc[r]
BY DEF ClaudeTypeOK, ClaudeGo

\* Wherever a step takes an operation, its control point and its locals stay typed.
LEMMA ClaudeGoTyped ==
  ASSUME ClaudeTypeOK, NEW p \in ClClients, NEW label \in ClaudeLabels, NEW l \in ClaudeLocal,
         ClaudeGo(p, label, l)
  PROVE  clPc' \in [ClClients -> ClaudeLabels] /\ clLoc' \in [ClClients -> ClaudeLocal]
BY DEF ClaudeTypeOK, ClaudeGo

\* To note where to go on after the release changes nothing else an operation carries.
LEMMA ClaudeNextTyped ==
  ASSUME NEW l \in ClaudeLocal, NEW label \in ClaudeLabels
  PROVE  /\ [l EXCEPT !.next = label] \in ClaudeLocal
         /\ [l EXCEPT !.next = label].plan = l.plan /\ [l EXCEPT !.next = label].errand = l.errand
         /\ [l EXCEPT !.next = label].result = l.result /\ [l EXCEPT !.next = label].next = label
BY DEF ClaudeLocal

\* An operation that is to close a schedule keeps its plan, and knows the result.
LEMMA ClaudeClosingTyped ==
  ASSUME ClaudeTypeOK, NEW p \in ClClients, NEW s \in Terminal
  PROVE  /\ ClaudeClosing(p, s) \in ClaudeLocal
         /\ ClaudeClosing(p, s).plan = ClaudePlan(p) /\ ClaudeClosing(p, s).errand = "close"
         /\ ClaudeClosing(p, s).result = s /\ ClaudeClosing(p, s).next = clLoc[p].next
<1>1. clLoc[p] \in ClaudeLocal
  BY DEF ClaudeTypeOK
<1> QED BY <1>1 DEF ClaudeLocal, ClaudeClosing, ClaudePlan, ClaudeErrands

\* An operation that releases the lock keeps what it carries and knows where to go on.
LEMMA ClaudeReleased ==
  ASSUME ClaudeTypeOK, NEW p \in ClClients, NEW label \in ClaudeLabels, NEW l \in ClaudeLocal,
         ClaudeRelease(p, label, l)
  PROVE  /\ clPc' \in [ClClients -> ClaudeLabels] /\ clLoc' \in [ClClients -> ClaudeLocal]
         /\ clPc'[p] = "release" /\ clLoc'[p].next = label
         /\ clLoc'[p].plan = l.plan /\ clLoc'[p].errand = l.errand /\ clLoc'[p].result = l.result
         /\ label = "idle" /\ l = ClaudeIdle => clLoc'[p] = ClaudeIdle
         /\ \A r \in ClClients \ {p} : clPc'[r] = clPc[r] /\ clLoc'[r] = clLoc[r]
<1> DEFINE k == [l EXCEPT !.next = label]
<1>1. k \in ClaudeLocal /\ k.plan = l.plan /\ k.errand = l.errand /\ k.result = l.result
        /\ k.next = label
  BY ClaudeNextTyped
<1>2. label = "idle" /\ l = ClaudeIdle => k = ClaudeIdle
  BY DEF ClaudeIdle
<1>3. ClaudeGo(p, "release", k) /\ "release" \in ClaudeLabels
  BY DEF ClaudeRelease, ClaudeLabels
<1> HIDE DEF k
<1> QED BY <1>1, <1>2, <1>3, ClaudeGone, ClaudeGoTyped

\* Each move leaves the others alone and leads to a point that fits what is carried.
LEMMA ClaudeMovesTyped ==
  ASSUME ClaudeTypeOK, NEW p \in ClClients, ClaudeFits(clPc[p], clLoc[p]), ClaudeMoves(p)
  PROVE  /\ clPc' \in [ClClients -> ClaudeLabels] /\ clLoc' \in [ClClients -> ClaudeLocal]
         /\ \A r \in ClClients \ {p} : clPc'[r] = clPc[r] /\ clLoc'[r] = clLoc[r]
         /\ ClaudeFits(clPc'[p], clLoc'[p])
<1> DEFINE l == clLoc[p]
           Goal == /\ clPc' \in [ClClients -> ClaudeLabels] /\ clLoc' \in [ClClients -> ClaudeLocal]
                   /\ \A r \in ClClients \ {p} : clPc'[r] = clPc[r] /\ clLoc'[r] = clLoc[r]
                   /\ ClaudeFits(clPc'[p], clLoc'[p])
<1>1. l \in ClaudeLocal /\ l.next \in ClaudeLabels /\ clPc[p] \in ClaudeLabels
  BY DEF ClaudeTypeOK, ClaudeLocal
<1>2. ASSUME NEW label \in ClaudeLabels, NEW k \in ClaudeLocal, ClaudeGo(p, label, k),
               ClaudeFits(label, k)
      PROVE  Goal
  BY <1>2, ClaudeGone, ClaudeGoTyped
<1>3. ASSUME NEW label \in {"idle", "publish", "lock", "record"}, NEW k \in ClaudeLocal,
               ClaudeRelease(p, label, k),
             ClaudeFits(label, k)
      PROVE  Goal
  <2>1. label \in ClaudeLabels
    BY DEF ClaudeLabels
  <2>2. ClaudeFits("release", clLoc'[p])
    BY <1>3, <2>1, ClaudeReleased DEF ClaudeFits, ClaudeDue
  <2> QED BY <1>3, <2>1, <2>2, ClaudeReleased
<1> SUFFICES Goal
  OBVIOUS
<1> HIDE DEF Goal
<1>4. CASE \E label \in ClaudeLabels : <<clPc[p], label>> \in ClaudeStays /\ ClaudeGo(p, label, l)
  <2>1. PICK label \in ClaudeLabels : <<clPc[p], label>> \in ClaudeStays /\ ClaudeGo(p, label, l)
    BY <1>4
  <2>2. ClaudeFits(label, l)
    BY <2>1 DEF ClaudeFits, ClaudeDue, ClaudeStays
  <2> QED BY <1>1, <1>2, <2>1, <2>2 DEF ClaudeGo
<1>5. CASE clPc[p] = "read" /\ l.errand \in {"write", "close"} /\ ClaudeGo(p, "append", l)
  <2>1. ClaudeFits("append", l) /\ "append" \in ClaudeLabels
    BY <1>5 DEF ClaudeFits, ClaudeDue, ClaudeLabels
  <2> QED BY <1>1, <1>2, <1>5, <2>1 DEF ClaudeGo
<1>6. CASE clPc[p] = "read" /\ l.errand = "run" /\ ClaudeGo(p, "prepare", l)
  <2>1. ClaudeFits("prepare", l) /\ "prepare" \in ClaudeLabels
    BY <1>6 DEF ClaudeFits, ClaudeDue, ClaudeLabels
  <2> QED BY <1>1, <1>2, <1>6, <2>1 DEF ClaudeGo
<1>7. CASE clPc[p] \in {"read", "append"} /\ l.errand = "write" /\ ClaudeRelease(p, "publish", l)
  <2>1. ClaudeFits("publish", l)
    BY <1>7 DEF ClaudeFits, ClaudeDue
  <2> QED BY <1>1, <1>3, <1>7, <2>1 DEF ClaudeRelease, ClaudeGo
<1>8. CASE clPc[p] \in {"release", "unlink"} /\ ClaudeGo(p, l.next, [l EXCEPT !.next = "idle"])
  <2> DEFINE k == [l EXCEPT !.next = "idle"]
  <2>1. "idle" \in ClaudeLabels
    BY DEF ClaudeLabels
  <2>2. k \in ClaudeLocal /\ k.plan = l.plan /\ k.errand = l.errand /\ k.result = l.result
          /\ k.next = "idle"
    BY <1>1, <2>1, ClaudeNextTyped
  <2> HIDE DEF k
  <2>3. ClaudeFits(l.next, k)
    BY <1>8, <2>2 DEF ClaudeFits, ClaudeDue
  <2> QED BY <1>1, <1>2, <1>8, <2>2, <2>3 DEF k, ClaudeGo
<1>9. ASSUME NEW s \in Terminal
      PROVE  /\ clPc[p] = "publish" /\ ClaudeGo(p, "lock", ClaudeClosing(p, s)) => Goal
             /\ clPc[p] \in {"prepare", "settle"}
                  /\ ClaudeRelease(p, "lock", ClaudeClosing(p, s)) => Goal
             /\ clPc[p] \in {"prepare", "overlay"} /\ s \in {"stale", "failed"}
                /\ ClaudeRelease(p, "record", ClaudeClosing(p, s)) => Goal
  <2> DEFINE k == ClaudeClosing(p, s)
  <2>1. k \in ClaudeLocal /\ k.plan = l.plan /\ k.errand = "close" /\ k.result = s
          /\ k.next = l.next
    BY ClaudeClosingTyped DEF ClaudePlan
  <2> HIDE DEF k
  <2>2. clPc[p] \in {"publish", "prepare", "settle", "overlay"} => l.plan \in ClPlans
    BY DEF ClaudeFits, ClaudeDue
  <2>3. clPc[p] \in {"publish", "prepare", "settle", "overlay"} =>
          /\ ClaudeFits("lock", k)
          /\ s \in {"stale", "failed"} => ClaudeFits("record", k)
    BY <2>1, <2>2 DEF ClaudeFits, ClaudeDue
  <2>4. "lock" \in ClaudeLabels
    BY DEF ClaudeLabels
  <2> QED BY <1>2, <1>3, <2>1, <2>3, <2>4 DEF k, ClaudeGo, ClaudeRelease
<1>10. CASE \E q \in ClPlans, e \in {"write", "run"} :
              ClaudeGo(p, "lock", [ClaudeIdle EXCEPT !.plan = q, !.errand = e])
  <2>1. PICK q \in ClPlans, e \in {"write", "run"} :
              ClaudeGo(p, "lock", [ClaudeIdle EXCEPT !.plan = q, !.errand = e])
    BY <1>10
  <2> DEFINE k == [ClaudeIdle EXCEPT !.plan = q, !.errand = e]
  <2>2. k \in ClaudeLocal /\ k.plan = q /\ k.errand = e /\ "lock" \in ClaudeLabels
    BY DEF ClaudeIdle, ClaudeLocal, ClaudeErrands, ClaudeLabels
  <2>3. ClaudeGo(p, "lock", k)
    BY <2>1
  <2> HIDE DEF k
  <2>4. ClaudeFits("lock", k)
    BY <2>2 DEF ClaudeFits, ClaudeDue
  <2> QED BY <1>2, <2>2, <2>3, <2>4
<1>11. CASE ClaudeRelease(p, "idle", ClaudeIdle) \/ ClaudeLeave(p)
  <2>1. ClaudeFits("idle", ClaudeIdle) /\ "idle" \in ClaudeLabels
    BY DEF ClaudeFits, ClaudeDue, ClaudeIdle, ClaudeLabels
  <2> QED BY <1>2, <1>3, <1>11, <2>1, ClaudeIdleTyped DEF ClaudeLeave
<1>12. \A s \in {"stale", "failed"} : s \in Terminal
  BY DEF Terminal
<1> QED BY <1>4, <1>5, <1>6, <1>7, <1>8, <1>9, <1>10, <1>11, <1>12 DEF ClaudeMoves

\* Every step of an operation is one of the moves.
LEMMA ClaudeStepMoves ==
  ASSUME ClaudeInv, NEW p \in ClClients, ClaudeStep(p)
  PROVE  ClaudeMoves(p)
<1>1. ClaudeFits(clPc[p], clLoc[p]) /\ ClaudeKnows(clPc[p], clLoc[p])
  BY DEF ClaudeInv, ClaudeCarries
<1>2. clLoc[p].errand \in ClaudeErrands
  BY DEF ClaudeInv, ClaudeTypeOK, ClaudeLocal
<1>3. CASE ClaudeApprove(p) \/ ClaudeRequest(p)
  BY <1>3 DEF ClaudeApprove, ClaudeRequest, ClaudeMoves
<1>4. CASE ClaudeAcquire(p) \/ ClaudeJudge(p) \/ ClaudeBreak(p) \/ ClaudeAccept(p)
  BY <1>4 DEF ClaudeAcquire, ClaudeJudge, ClaudeBreak, ClaudeAccept, ClaudeMoves, ClaudeStays,
     ClaudeLabels
<1>5. CASE ClaudeCompare(p) \/ ClaudeDrop(p)
  BY <1>5 DEF ClaudeCompare, ClaudeDrop, ClaudeMoves, ClaudeStays, ClaudeLabels
<1>6. CASE ClaudeRead(p)
  BY <1>6 DEF ClaudeRead, ClaudeMoves
<1>7. CASE ClaudeAppend(p)
  BY <1>1, <1>7 DEF ClaudeAppend, ClaudeMoves
<1>8. CASE ClaudePublish(p)
  BY <1>8 DEF ClaudePublish, ClaudeMoves, ClaudeEnded
<1>9. CASE ClaudePrepare(p)
  BY <1>9 DEF ClaudePrepare, ClaudeReplay, ClaudeMoves, ClaudeStays, ClaudeLabels
<1>10. CASE ClaudeOverlay(p)
  BY <1>10 DEF ClaudeOverlay, ClaudeMoves, ClaudeStays, ClaudeLabels
<1>11. CASE ClaudeRecord(p)
  BY <1>11 DEF ClaudeRecord, ClaudeMoves, ClaudeStays, ClaudeLabels
<1>12. CASE ClaudeReject(p) \/ ClaudeBusy(p) \/ ClaudeCrash(p) \/ ClaudeWriteFails(p)
  BY <1>12 DEF ClaudeReject, ClaudeBusy, ClaudeCrash, ClaudeWriteFails, ClaudeMoves
<1>13. CASE ClaudeSettle(p)
  BY <1>13 DEF ClaudeSettle, ClaudeMoves, Terminal
<1> QED BY <1>3, <1>4, <1>5, <1>6, <1>7, <1>8, <1>9, <1>10, <1>11, <1>12, <1>13
        DEF ClaudeStep, ClaudeOnwards

\* The plan an operation at work has in its hands.
LEMMA ClaudeHasPlan ==
  ASSUME ClaudeInv, NEW p \in ClClients,
         clPc[p] \in {"publish", "record", "settle", "append", "prepare", "upstream", "overlay",
           "lock", "read"}
  PROVE  ClaudePlan(p) \in ClPlans
BY DEF ClaudeInv, ClaudeCarries, ClaudeFits, ClaudeDue, ClaudePlan

\* The receipt of q becomes s: along the table, to scheduled and applied only from where
\* the journal has the plan, and to applied only when the upstream has taken it.
ClaudeWritten(q, s) ==
  /\ clReceipt' = [clReceipt EXCEPT ![q] = s]
  /\ UNCHANGED clAccepted
  /\ <<clReceipt[q], s>> \in Transitions
  /\ s \in {"scheduled", "applied"} => clJournal[q] # "none"
  /\ s = "applied" => q \in clAccepted /\ \E p \in ClClients : ClaudeSettle(p) /\ ClaudePlan(p) = q

\* A step writes at most one receipt, as the table allows.
LEMMA ClaudeReceiptWritten ==
  ASSUME ClaudeInv, ClaudeNext
  PROVE  clReceipt' = clReceipt \/ \E q \in ClPlans, s \in Status : ClaudeWritten(q, s)
<1> DEFINE Goal == clReceipt' = clReceipt \/ \E q \in ClPlans, s \in Status : ClaudeWritten(q, s)
<1> SUFFICES Goal
  OBVIOUS
<1>2. CASE clReceipt' = clReceipt
  BY <1>2
<1>3. ASSUME NEW q \in ClPlans, NEW s \in Status, clReceipt' = [clReceipt EXCEPT ![q] = s],
             UNCHANGED clAccepted, <<clReceipt[q], s>> \in Transitions,
             s \in {"scheduled", "applied"} => clJournal[q] # "none",
             s = "applied" => q \in clAccepted /\ \E p \in ClClients : ClaudeSettle(p)
               /\ ClaudePlan(p) = q
      PROVE  Goal
  BY <1>3 DEF ClaudeWritten
<1> HIDE DEF Goal
<1>4. CASE ClaudeCancel
  BY <1>3, <1>4 DEF ClaudeCancel, ClaudeSetReceipt, Status, Transitions, clPast
<1>5. ASSUME NEW p \in ClClients, ClaudeApprove(p)
      PROVE  Goal
  <2>1. /\ UNCHANGED clAccepted
        /\ \E q \in ClPlans : IF clReceipt[q] = "analyzed" THEN ClaudeSetReceipt(q, "approved")
                                                          ELSE UNCHANGED clReceipt
    BY <1>5 DEF ClaudeApprove, clPast
  <2> QED BY <1>2, <1>3, <2>1 DEF ClaudeSetReceipt, Status, Transitions
<1>6. ASSUME NEW p \in ClClients, ClaudePublish(p)
      PROVE  Goal
  <2>1. ClaudePlan(p) \in ClPlans /\ clJournal[ClaudePlan(p)] # "none"
    BY <1>6, ClaudeHasPlan DEF ClaudePublish, ClaudeInv, ClaudeCarries, ClaudeKnows, ClaudeDue,
       ClaudePlan
  <2>2. CASE ClaudeSays(p) = "approved" /\ ClaudeSetReceipt(ClaudePlan(p), "scheduled")
    <3>1. PICK q \in ClPlans : q = ClaudePlan(p)
      BY <2>1
    <3> QED BY <1>3, <1>6, <2>1, <2>2, <3>1 DEF ClaudePublish, ClaudeSetReceipt, ClaudeSays, Status,
           Transitions, clPast
  <2> QED BY <1>2, <1>6, <2>2 DEF ClaudePublish
<1>7. ASSUME NEW p \in ClClients, ClaudeRecord(p)
      PROVE  Goal
  <2>1. ClaudePlan(p) \in ClPlans /\ clLoc[p].result \in {"stale", "failed"}
    BY <1>7, ClaudeHasPlan DEF ClaudeRecord, ClaudeInv, ClaudeCarries, ClaudeFits, ClaudeDue
  <2>2. CASE <<ClaudeSays(p), clLoc[p].result>> \in Transitions
             /\ ClaudeSetReceipt(ClaudePlan(p), clLoc[p].result)
    <3>1. PICK q \in ClPlans : q = ClaudePlan(p)
      BY <2>1
    <3>2. PICK s \in {"stale", "failed"} : s = clLoc[p].result
      BY <2>1
    <3> QED BY <1>3, <1>7, <2>2, <3>1, <3>2 DEF ClaudeRecord, ClaudeSetReceipt, ClaudeSays, Status, clPast
  <2> QED BY <1>2, <1>7, <2>2 DEF ClaudeRecord
<1>8. ASSUME NEW p \in ClClients, ClaudeSettle(p)
      PROVE  Goal
  <2>1. ClaudePlan(p) \in ClPlans /\ clJournal[ClaudePlan(p)] # "none"
          /\ ClaudePlan(p) \in clAccepted
    BY <1>8, ClaudeHasPlan DEF ClaudeSettle, ClaudeInv, ClaudeCarries, ClaudeKnows, ClaudeDue,
       ClaudePlan
  <2>2. CASE ClaudeSays(p) = "scheduled" /\ ClaudeSetReceipt(ClaudePlan(p), "applied")
    <3>1. PICK q \in ClPlans : q = ClaudePlan(p)
      BY <2>1
    <3> QED BY <1>3, <1>8, <2>1, <2>2, <3>1 DEF ClaudeSettle, ClaudeSetReceipt, ClaudeSays, Status,
           Transitions, clPast
  <2> QED BY <1>2, <1>8, <2>2 DEF ClaudeSettle
<1>9. ASSUME ~ClaudeCancel, \A p \in ClClients : ~ClaudeApprove(p) /\ ~ClaudePublish(p)
               /\ ~ClaudeRecord(p) /\ ~ClaudeSettle(p)
      PROVE  clReceipt' = clReceipt
  BY <1>9 DEF ClaudeNext, ClaudeOnwards, ClaudeAge, ClaudeRequest, ClaudeForward, ClaudeAcquire,
     ClaudeBusy, ClaudeJudge,
     ClaudeBreak, ClaudeCompare, ClaudeDrop, ClaudeRead, ClaudeAppend, ClaudePrepare,
     ClaudeOverlay, ClaudeAccept,
     ClaudeReject, ClaudeCrash, ClaudeWriteFails, clDisk, clVars
<1> QED BY <1>2, <1>4, <1>5, <1>6, <1>7, <1>8, <1>9

\* A receipt moves along the table, to scheduled and applied only from where the
\* journal has the plan, and to applied only when the upstream has taken it.
LEMMA ClaudeReceiptMoves ==
  ASSUME ClaudeInv, ClaudeNext
  PROVE  /\ clReceipt' \in [ClPlans -> Status]
         /\ \A q \in ClPlans : clReceipt'[q] # clReceipt[q] =>
              /\ <<clReceipt[q], clReceipt'[q]>> \in Transitions
              /\ clReceipt'[q] \in {"scheduled", "applied"} => clJournal[q] # "none"
              /\ clReceipt'[q] = "applied" =>
                   q \in clAccepted /\ \E p \in ClClients : ClaudeSettle(p) /\ ClaudePlan(p) = q
<1>1. clReceipt \in [ClPlans -> Status]
  BY DEF ClaudeInv, ClaudeTypeOK
<1> QED BY <1>1, ClaudeReceiptWritten DEF ClaudeWritten

\* A record follows in the journal, and repeats what the receipt says already.
LEMMA ClaudeJournalMoves ==
  ASSUME ClaudeInv, ClaudeNext
  PROVE  /\ clJournal' \in [ClPlans -> ClaudeEntries]
         /\ \A q \in ClPlans : clJournal'[q] # clJournal[q] =>
              \/ clJournal[q] = "none" /\ clJournal'[q] = "scheduled"
              \/ clJournal[q] = "scheduled" /\ clJournal'[q] = "committed"
                   /\ clReceipt[q] = "applied"
              \/ clJournal[q] = "scheduled" /\ clJournal'[q] \in ClaudeEnded
                   /\ clReceipt[q] = clJournal'[q]
<1>1. clJournal \in [ClPlans -> ClaudeEntries]
  BY DEF ClaudeInv, ClaudeTypeOK
<1>2. CASE clJournal' = clJournal
  BY <1>1, <1>2
<1>3. ASSUME NEW p \in ClClients, ClaudeAppend(p), clJournal' # clJournal
      PROVE  /\ clJournal' \in [ClPlans -> ClaudeEntries]
             /\ \A q \in ClPlans : clJournal'[q] # clJournal[q] =>
                  \/ clJournal[q] = "none" /\ clJournal'[q] = "scheduled"
                  \/ clJournal[q] = "scheduled" /\ clJournal'[q] = "committed"
                       /\ clReceipt[q] = "applied"
                  \/ clJournal[q] = "scheduled" /\ clJournal'[q] \in ClaudeEnded
                       /\ clReceipt[q] = clJournal'[q]
  <2> DEFINE q == ClaudePlan(p)
             e == ClaudeEntry(clLoc[p])
  <2>1. clPc[p] = "append" /\ ClaudeAccepts(clJournal[q], e)
          /\ clJournal' = [clJournal EXCEPT ![q] = e]
    BY <1>3 DEF ClaudeAppend
  <2>2. q \in ClPlans
    BY <2>1, ClaudeHasPlan
  <2>3. \/ clLoc[p].errand = "write" /\ e = "scheduled"
        \/ /\ clLoc[p].errand = "close" /\ clLoc[p].result \in Terminal
                /\ clReceipt[q] = clLoc[p].result
           /\ e = IF clLoc[p].result = "applied" THEN "committed" ELSE clLoc[p].result
    <3>1. ClaudeFits("append", clLoc[p]) /\ ClaudeKnows("append", clLoc[p])
      BY <2>1 DEF ClaudeInv, ClaudeCarries
    <3> QED BY <3>1 DEF ClaudeFits, ClaudeKnows, ClaudeDue, ClaudeEntry, ClaudePlan
  <2>4. e \in ClaudeEntries /\ (e = "scheduled" \/ (e = "committed" /\ clReceipt[q] = "applied")
                                \/ (e \in ClaudeEnded /\ clReceipt[q] = e))
    BY <2>3 DEF ClaudeEntries, ClaudeEnded, Terminal
  <2> HIDE DEF q, e
  <2>5. e = "scheduled" => clJournal[q] \in {"none", "scheduled"} \/ clJournal[q] = e
    BY <2>1 DEF ClaudeAccepts
  <2>6. clJournal[q] \in {"none", "scheduled"} \/ clJournal[q] = e
    BY <2>1 DEF ClaudeAccepts
  <2>7. clJournal[q] = "none" => e = "scheduled"
    BY <2>1 DEF ClaudeAccepts
  <2> QED BY <1>1, <2>1, <2>2, <2>4, <2>6, <2>7
<1>4. ASSUME \A p \in ClClients : ~ClaudeAppend(p)
      PROVE  clJournal' = clJournal
  BY <1>4 DEF ClaudeNext, ClaudeOnwards, ClaudeAge, ClaudeRequest, ClaudeForward, ClaudeAcquire,
     ClaudeBusy, ClaudeJudge,
     ClaudeBreak, ClaudeCompare, ClaudeDrop, ClaudeRead, ClaudePrepare, ClaudeOverlay, ClaudeAccept,
     ClaudeReject, ClaudeCrash, ClaudeWriteFails, clDisk, clVars, ClaudeCancel, ClaudeApprove,
     ClaudePublish, ClaudeRecord, ClaudeSettle
<1> QED BY <1>2, <1>3, <1>4

\* A step is one operation's, or leaves all of them where they are.
LEMMA ClaudeNextCases ==
  ASSUME ClaudeInv, ClaudeNext
  PROVE  \/ UNCHANGED clProc
         \/ \E p \in ClClients : ClaudeStep(p)
BY DEF ClaudeNext, ClaudeStep, ClaudeCancel, ClaudeAge, ClaudeForward, clVars, clProc

\* What the upstream took and what was lost on the way is never forgotten.
LEMMA ClaudeAcceptedGrows ==
  ASSUME ClaudeInv, ClaudeNext
  PROVE  clAccepted \subseteq clAccepted' /\ clAccepted' \subseteq ClPlans
           /\ clLost \subseteq clLost' /\ clLost' \subseteq ClPlans
<1>1. clAccepted \subseteq ClPlans /\ clLost \subseteq ClPlans
  BY DEF ClaudeInv, ClaudeTypeOK
<1>2. ASSUME NEW p \in ClClients, ClaudeAccept(p)
      PROVE  clAccepted \subseteq clAccepted' /\ clAccepted' \subseteq ClPlans /\ clLost' = clLost
  BY <1>1, <1>2, ClaudeHasPlan DEF ClaudeAccept
<1>3. ASSUME NEW p \in ClClients, ClaudeGiveUp(p)
      PROVE  clLost \subseteq clLost' /\ clLost' \subseteq ClPlans
  <2>1. clLoc[p].errand = "close" => ClaudePlan(p) \in ClPlans
    BY DEF ClaudeInv, ClaudeCarries, ClaudeFits, ClaudePlan
  <2> QED BY <1>1, <1>3, <2>1 DEF ClaudeGiveUp
<1>4. ASSUME NEW p \in ClClients, ClaudeBusy(p) \/ ClaudeCrash(p) \/ ClaudeWriteFails(p)
      PROVE  clAccepted' = clAccepted /\ clLost \subseteq clLost' /\ clLost' \subseteq ClPlans
  BY <1>3, <1>4 DEF ClaudeBusy, ClaudeCrash, ClaudeWriteFails
<1>5. ASSUME NEW p \in ClClients, ClaudeRead(p)
      PROVE  clAccepted' = clAccepted /\ clLost \subseteq clLost' /\ clLost' \subseteq ClPlans
  BY <1>1, <1>3, <1>5 DEF ClaudeRead
<1>6. ASSUME \A p \in ClClients : ~ClaudeAccept(p) /\ ~ClaudeBusy(p) /\ ~ClaudeCrash(p)
               /\ ~ClaudeWriteFails(p) /\ ~ClaudeRead(p)
      PROVE  clAccepted' = clAccepted /\ clLost' = clLost
  BY <1>6 DEF ClaudeNext, ClaudeOnwards, ClaudeAge, ClaudeRequest, ClaudeForward, ClaudeAcquire,
     ClaudeJudge,
     ClaudeBreak, ClaudeCompare, ClaudeDrop, ClaudeAppend, ClaudePrepare, ClaudeOverlay,
     ClaudeReject,
     ClaudeCancel, ClaudeApprove, ClaudePublish, ClaudeRecord, ClaudeSettle, clPast, clVars
<1> QED BY <1>1, <1>2, <1>4, <1>5, <1>6

\* What an operation knows of its plan after its own step is what it has just read or
\* written under the lock, or what it knew before.
LEMMA ClaudeKnowsStep ==
  ASSUME ClaudeInv, ClaudeNext, NEW p \in ClClients, ClaudeStep(p)
  PROVE  ClaudeKnows(clPc[p], clLoc[p])'
<1> DEFINE l == clLoc[p]
<1>1. ClaudeFits(clPc[p], l) /\ ClaudeKnows(clPc[p], l)
  BY DEF ClaudeInv, ClaudeCarries
<1>2. l \in ClaudeLocal /\ l.next \in ClaudeLabels /\ clPc[p] \in ClaudeLabels
  BY DEF ClaudeInv, ClaudeTypeOK, ClaudeLocal
<1>3. \A q \in ClPlans : clReceipt[q] \in Terminal => clReceipt'[q] = clReceipt[q]
  BY ClaudeReceiptMoves DEF Transitions, Terminal
<1>4. \A q \in ClPlans : clJournal[q] # "none" => clJournal'[q] # "none"
  BY ClaudeJournalMoves DEF ClaudeEnded, Terminal
<1>5. clAccepted \subseteq clAccepted'
  BY ClaudeAcceptedGrows
<1>6. clPc[p] \notin {"idle", "record"} /\ ClaudeDue(clPc[p], l) # "idle" => l.plan \in ClPlans
  BY <1>1 DEF ClaudeFits
<1>7. CASE ClaudeLeave(p) \/ ClaudeRelease(p, "idle", ClaudeIdle)
  <2>1. clLoc'[p] = ClaudeIdle /\ clPc'[p] \in {"idle", "release"}
    BY <1>7, ClaudeGone, ClaudeReleased, ClaudeIdleTyped DEF ClaudeLeave, ClaudeInv, ClaudeLabels
  <2> QED BY <2>1 DEF ClaudeKnows, ClaudeDue, ClaudeIdle
<1>8. CASE ClaudeApprove(p) \/ ClaudeRequest(p)
  <2>1. PICK q \in ClPlans, e \in {"write", "run"} :
              ClaudeGo(p, "lock", [ClaudeIdle EXCEPT !.plan = q, !.errand = e])
    BY <1>8 DEF ClaudeApprove, ClaudeRequest
  <2>2. clPc'[p] = "lock" /\ clLoc'[p].errand = e
    <3>1. clPc'[p] = "lock" /\ clLoc'[p] = [ClaudeIdle EXCEPT !.plan = q, !.errand = e]
      BY <2>1, ClaudeGone DEF ClaudeInv
    <3>2. [ClaudeIdle EXCEPT !.plan = q, !.errand = e].errand = e
      BY DEF ClaudeIdle
    <3> QED BY <3>1, <3>2
  <2> QED BY <2>2 DEF ClaudeKnows, ClaudeDue
<1>9. ASSUME NEW label \in {"read", "break", "lock", "append", "overlay", "upstream", "unlink"},
             ClaudeGo(p, label, l), clPc[p] \notin {"idle", "record", "unlink"},
             label \in {"overlay", "upstream"} => clPc[p] \in {"prepare", "overlay"},
             label = "unlink" <=> clPc[p] = "release"
      PROVE  ClaudeKnows(clPc[p], clLoc[p])'
  <2>1. clPc'[p] = label /\ clLoc'[p] = l
    BY <1>9, ClaudeGone DEF ClaudeInv
  <2> QED BY <1>1, <1>3, <1>4, <1>5, <1>9, <2>1 DEF ClaudeKnows, ClaudeDue, ClaudeFits
<1>10. CASE ClaudeAcquire(p) \/ ClaudeJudge(p) \/ ClaudeBreak(p)
  BY <1>9, <1>10 DEF ClaudeAcquire, ClaudeJudge, ClaudeBreak
<1>11. CASE clPc[p] \in {"release", "unlink"} /\ ClaudeGo(p, l.next, [l EXCEPT !.next = "idle"])
  <2>1. clPc'[p] = l.next /\ clLoc'[p] = [l EXCEPT !.next = "idle"]
    BY <1>11, ClaudeGone DEF ClaudeInv
  <2>2. clLoc'[p].plan = l.plan /\ clLoc'[p].errand = l.errand /\ clLoc'[p].result = l.result
    BY <1>2, <2>1 DEF ClaudeLocal
  <2> QED BY <1>1, <1>3, <1>4, <1>5, <1>11, <2>1, <2>2 DEF ClaudeKnows, ClaudeDue, ClaudeFits
<1>12. CASE ClaudeCompare(p) \/ ClaudeDrop(p)
  BY <1>9, <1>11, <1>12 DEF ClaudeCompare, ClaudeDrop
<1>13. CASE ClaudeRead(p)
  <2>1. CASE ClaudeGo(p, "append", l)
    BY <1>9, <1>13, <2>1 DEF ClaudeRead
  <2>2. CASE clJournal[l.plan] = "scheduled" /\ l.errand = "write" /\ ClaudeRelease(p, "publish", l)
    <3>1. clPc'[p] = "release" /\ clLoc'[p].next = "publish" /\ clLoc'[p].plan = l.plan
            /\ clLoc'[p].errand = l.errand
      BY <1>2, <2>2, ClaudeReleased DEF ClaudeInv, ClaudeLabels
    <3>2. l.plan \in ClPlans
      BY <1>13, ClaudeHasPlan DEF ClaudeRead, ClaudePlan
    <3> QED BY <1>4, <2>2, <3>1, <3>2 DEF ClaudeKnows, ClaudeDue
  <2>3. CASE l.errand = "run" /\ ClaudeReady(l.plan) /\ ClaudeGo(p, "prepare", l)
    <3>1. clPc'[p] = "prepare" /\ clLoc'[p] = l
      BY <2>3, ClaudeGone DEF ClaudeInv
    <3>2. l.plan \in ClPlans /\ clJournal[l.plan] = "scheduled"
      BY <1>13, <2>3, ClaudeHasPlan DEF ClaudeRead, ClaudePlan, ClaudeReady
    <3> QED BY <1>4, <2>3, <3>1, <3>2 DEF ClaudeKnows, ClaudeDue
  <2> QED BY <1>7, <1>13, <2>1, <2>2, <2>3 DEF ClaudeRead, ClaudePlan
<1>14. CASE ClaudeAppend(p)
  <2>1. CASE l.errand = "write" /\ ClaudeRelease(p, "publish", l)
    <3>1. clPc'[p] = "release" /\ clLoc'[p].next = "publish" /\ clLoc'[p].plan = l.plan
            /\ clLoc'[p].errand = l.errand
      BY <1>2, <2>1, ClaudeReleased DEF ClaudeInv, ClaudeLabels
    <3>2. l.plan \in ClPlans /\ clJournal \in [ClPlans -> ClaudeEntries]
      BY <1>14, ClaudeHasPlan DEF ClaudeAppend, ClaudePlan, ClaudeInv, ClaudeTypeOK
    <3>3. clJournal'[l.plan] # "none"
      BY <1>14, <2>1, <3>2 DEF ClaudeAppend, ClaudePlan, ClaudeEntry, ClaudeAccepts
    <3> QED BY <2>1, <3>1, <3>3 DEF ClaudeKnows, ClaudeDue
  <2> QED BY <1>7, <1>14, <2>1 DEF ClaudeAppend
<1>15. CASE ClaudePublish(p)
  <2>1. CASE ClaudeSays(p) \in Terminal /\ ClaudeGo(p, "lock", ClaudeClosing(p, ClaudeSays(p)))
    <3>1. clPc'[p] = "lock" /\ clLoc'[p].plan = l.plan /\ clLoc'[p].result = ClaudeSays(p)
      BY <2>1, ClaudeGone, ClaudeClosingTyped DEF ClaudeInv, ClaudePlan
    <3>2. l.plan \in ClPlans
      BY <1>15, ClaudeHasPlan DEF ClaudePublish, ClaudePlan
    <3> QED BY <1>3, <2>1, <3>1, <3>2 DEF ClaudeKnows, ClaudeDue, ClaudeSays, ClaudePlan
  <2> QED BY <1>7, <1>15, <2>1 DEF ClaudePublish, ClaudeEnded
<1>16. ASSUME NEW s \in {"stale", "failed"}, ClaudeRelease(p, "record", ClaudeClosing(p, s))
       PROVE  ClaudeKnows(clPc[p], clLoc[p])'
  <2>1. clPc'[p] = "release" /\ clLoc'[p].next = "record"
    <3>1. s \in Terminal /\ "record" \in ClaudeLabels
      BY DEF Terminal, ClaudeLabels
    <3> QED BY <1>16, <3>1, ClaudeReleased, ClaudeClosingTyped DEF ClaudeInv
  <2> QED BY <2>1 DEF ClaudeKnows, ClaudeDue
<1>17. CASE ClaudePrepare(p)
  <2>1. CASE ClaudeSays(p) \in Terminal /\ ClaudeRelease(p, "lock", ClaudeClosing(p, ClaudeSays(p)))
    <3>1. clPc'[p] = "release" /\ clLoc'[p].next = "lock" /\ clLoc'[p].plan = l.plan
            /\ clLoc'[p].result = ClaudeSays(p)
      BY <2>1, ClaudeReleased, ClaudeClosingTyped DEF ClaudeInv, ClaudePlan, ClaudeLabels
    <3>2. l.plan \in ClPlans
      BY <1>17, ClaudeHasPlan DEF ClaudePrepare, ClaudePlan
    <3> QED BY <1>3, <2>1, <3>1, <3>2 DEF ClaudeKnows, ClaudeDue, ClaudeSays, ClaudePlan
  <2> QED BY <1>7, <1>9, <1>16, <1>17, <2>1 DEF ClaudePrepare, ClaudeReplay
<1>18. CASE ClaudeOverlay(p)
  BY <1>9, <1>16, <1>18 DEF ClaudeOverlay
<1>19. CASE ClaudeRecord(p)
  <2>1. CASE ClaudeSetReceipt(ClaudePlan(p), l.result) /\ ClaudeGo(p, "lock", l)
    <3>1. clPc'[p] = "lock" /\ clLoc'[p] = l
      BY <2>1, ClaudeGone DEF ClaudeInv
    <3>2. l.plan \in ClPlans /\ l.result \in {"stale", "failed"}
            /\ clReceipt \in [ClPlans -> Status]
      BY <1>1, <1>19, ClaudeHasPlan DEF ClaudeRecord, ClaudePlan, ClaudeInv, ClaudeTypeOK,
         ClaudeFits, ClaudeDue
    <3>3. clReceipt'[l.plan] = l.result
      BY <2>1, <3>2 DEF ClaudeSetReceipt, ClaudePlan
    <3> QED BY <3>1, <3>2, <3>3 DEF ClaudeKnows, ClaudeDue, Terminal
  <2> QED BY <1>7, <1>19, <2>1 DEF ClaudeRecord
<1>20. CASE ClaudeAccept(p)
  <2>1. clPc'[p] = "settle" /\ clLoc'[p] = l
    BY <1>20, ClaudeGone DEF ClaudeAccept, ClaudeInv
  <2>2. l.plan \in clAccepted' /\ l.plan \in ClPlans /\ l.errand = "run"
          /\ clJournal[l.plan] # "none"
    BY <1>1, <1>20, ClaudeHasPlan DEF ClaudeAccept, ClaudePlan, ClaudeFits, ClaudeKnows, ClaudeDue
  <2> QED BY <1>4, <2>1, <2>2 DEF ClaudeKnows, ClaudeDue
<1>21. CASE ClaudeSettle(p)
  <2>1. CASE ClaudeSetReceipt(ClaudePlan(p), "applied")
               /\ ClaudeRelease(p, "lock", ClaudeClosing(p, "applied"))
    <3>1. "applied" \in Terminal /\ "lock" \in ClaudeLabels
      BY DEF Terminal, ClaudeLabels
    <3>2. clPc'[p] = "release" /\ clLoc'[p].next = "lock" /\ clLoc'[p].plan = l.plan
            /\ clLoc'[p].result = "applied"
      BY <2>1, <3>1, ClaudeReleased, ClaudeClosingTyped DEF ClaudeInv, ClaudePlan
    <3>3. l.plan \in ClPlans /\ clReceipt \in [ClPlans -> Status]
      BY <1>21, ClaudeHasPlan DEF ClaudeSettle, ClaudePlan, ClaudeInv, ClaudeTypeOK
    <3>4. clReceipt'[l.plan] = "applied"
      BY <2>1, <3>3 DEF ClaudeSetReceipt, ClaudePlan
    <3> QED BY <3>1, <3>2, <3>4 DEF ClaudeKnows, ClaudeDue
  <2> QED BY <1>7, <1>21, <2>1 DEF ClaudeSettle
<1>22. CASE ClaudeReject(p) \/ ClaudeBusy(p) \/ ClaudeCrash(p) \/ ClaudeWriteFails(p)
  BY <1>7, <1>22 DEF ClaudeReject, ClaudeBusy, ClaudeCrash, ClaudeWriteFails
<1> QED BY <1>8, <1>10, <1>12, <1>13, <1>14, <1>15, <1>17, <1>18, <1>19, <1>20, <1>21, <1>22
        DEF ClaudeStep, ClaudeOnwards

\* Nobody else changes what an operation knows: results are final, journals only grow.
LEMMA ClaudeCarriesStep ==
  ASSUME ClaudeInv, ClaudeNext
  PROVE  ClaudeCarries'
<1> SUFFICES ASSUME NEW r \in ClClients
             PROVE  ClaudeFits(clPc[r], clLoc[r])' /\ ClaudeKnows(clPc[r], clLoc[r])'
  BY DEF ClaudeCarries
<1>1. \A p \in ClClients : ClaudeFits(clPc[p], clLoc[p]) /\ ClaudeKnows(clPc[p], clLoc[p])
  BY DEF ClaudeInv, ClaudeCarries
<1>2. CASE UNCHANGED <<clPc[r], clLoc[r]>>
  <2>1. ClaudeFits(clPc[r], clLoc[r])'
    BY <1>1, <1>2 DEF ClaudeFits, ClaudeDue
  <2>2. \A q \in ClPlans : clReceipt[q] \in Terminal => clReceipt'[q] = clReceipt[q]
    BY ClaudeReceiptMoves DEF Transitions, Terminal
  <2>3. \A q \in ClPlans : clJournal[q] # "none" => clJournal'[q] # "none"
    BY ClaudeJournalMoves DEF ClaudeEnded, Terminal
  <2>4. clAccepted \subseteq clAccepted'
    BY ClaudeAcceptedGrows
  <2>5. ClaudeKnows(clPc[r], clLoc[r])'
    BY <1>1, <1>2, <2>2, <2>3, <2>4 DEF ClaudeFits, ClaudeKnows, ClaudeDue
  <2> QED BY <2>1, <2>5
<1>3. ASSUME NEW p \in ClClients, ClaudeStep(p), p # r
      PROVE  UNCHANGED <<clPc[r], clLoc[r]>>
  BY <1>1, <1>3, ClaudeStepMoves, ClaudeMovesTyped DEF ClaudeInv
<1>4. CASE ClaudeStep(r)
  BY <1>1, <1>4, ClaudeStepMoves, ClaudeMovesTyped, ClaudeKnowsStep DEF ClaudeInv
<1> QED BY <1>2, <1>3, <1>4, ClaudeNextCases DEF clProc

-------------------------------------------------------------------------------
\* The closing of an applied plan goes on, or its marker is lost.
LEMMA ClaudeMarkingStep ==
  ASSUME ClaudeInv, ClaudeNext, NEW q \in ClPlans, ClaudeMarking(q)
  PROVE  ClaudeMarking(q)' \/ q \in clLost' \/ clJournal'[q] # "scheduled"
<1>1. PICK r \in ClClients : ClaudePlan(r) = q /\ clLoc[r].errand = "close"
        /\ clLoc[r].result = "applied"
  BY DEF ClaudeMarking
<1>2. ClaudeFits(clPc[r], clLoc[r]) /\ ClaudeKnows(clPc[r], clLoc[r])
  BY DEF ClaudeInv, ClaudeCarries
<1>3. CASE clLoc'[r] = clLoc[r]
  BY <1>1, <1>3 DEF ClaudeMarking, ClaudePlan
<1>4. ASSUME NEW p \in ClClients, ClaudeStep(p), p # r
      PROVE  clLoc'[r] = clLoc[r]
  BY <1>4, ClaudeStepMoves, ClaudeMovesTyped DEF ClaudeInv, ClaudeCarries
<1>5. CASE ClaudeStep(r)
  <2>1. clPc[r] \in {"lock", "break", "read", "append", "release", "unlink"}
          /\ ClaudeDue(clPc[r], clLoc[r]) # "idle"
    <3>1. clPc[r] \in ClaudeLabels
      BY DEF ClaudeInv, ClaudeTypeOK
    <3> QED BY <1>1, <1>2, <3>1 DEF ClaudeFits, ClaudeDue, ClaudeLabels
  <2>2. CASE ClaudeGiveUp(r)
    BY <1>1, <2>2 DEF ClaudeGiveUp
  <2>3. CASE \E label \in ClaudeLabels : ClaudeGo(r, label, clLoc[r])
    BY <1>3, <2>3, ClaudeGone DEF ClaudeInv
  <2>4. CASE ClaudeGo(r, clLoc[r].next, [clLoc[r] EXCEPT !.next = "idle"])
    <3>1. clLoc'[r] = [clLoc[r] EXCEPT !.next = "idle"] /\ clLoc[r] \in ClaudeLocal
      BY <2>4, ClaudeGone DEF ClaudeInv, ClaudeTypeOK
    <3>2. clLoc'[r].plan = clLoc[r].plan /\ clLoc'[r].errand = clLoc[r].errand
            /\ clLoc'[r].result = clLoc[r].result
      BY <3>1 DEF ClaudeLocal
    <3> QED BY <1>1, <3>2 DEF ClaudeMarking, ClaudePlan
  <2>5. CASE ClaudeAppend(r)
    <3>1. ClaudeEntry(clLoc[r]) = "committed"
      BY <1>1 DEF ClaudeEntry
    <3>2. clJournal \in [ClPlans -> ClaudeEntries]
      BY DEF ClaudeInv, ClaudeTypeOK
    <3> QED BY <1>1, <2>5, <3>1, <3>2 DEF ClaudeAppend, ClaudeAccepts
  <2>6. CASE ClaudeAcquire(r) \/ ClaudeBusy(r) \/ ClaudeJudge(r) \/ ClaudeBreak(r)
               \/ ClaudeCompare(r) \/ ClaudeDrop(r)
    BY <2>2, <2>3, <2>4, <2>6 DEF ClaudeAcquire, ClaudeBusy, ClaudeJudge, ClaudeBreak,
       ClaudeCompare, ClaudeDrop, ClaudeLabels
  <2>7. CASE ClaudeRead(r)
    BY <1>1, <2>2, <2>3, <2>7 DEF ClaudeRead, ClaudeLabels
  <2>8. CASE ClaudeCrash(r) \/ ClaudeWriteFails(r)
    BY <2>2, <2>8 DEF ClaudeCrash, ClaudeWriteFails
  <2>9. ~(ClaudeApprove(r) \/ ClaudeRequest(r) \/ ClaudePublish(r) \/ ClaudePrepare(r)
            \/ ClaudeOverlay(r)
          \/ ClaudeRecord(r) \/ ClaudeAccept(r) \/ ClaudeReject(r) \/ ClaudeSettle(r))
    BY <2>1 DEF ClaudeApprove, ClaudeRequest, ClaudePublish, ClaudePrepare, ClaudeOverlay,
       ClaudeRecord,
       ClaudeAccept, ClaudeReject, ClaudeSettle
  <2> QED BY <1>5, <2>5, <2>6, <2>7, <2>8, <2>9 DEF ClaudeStep, ClaudeOnwards
<1> QED BY <1>3, <1>4, <1>5, ClaudeNextCases DEF clProc

\* An operation that settles is the one that marks.
LEMMA ClaudeSettleMarks ==
  ASSUME ClaudeInv, NEW p \in ClClients, NEW q, ClaudeSettle(p), ClaudePlan(p) = q,
         clReceipt' # clReceipt
  PROVE  ClaudeMarking(q)'
<1>1. "applied" \in Terminal /\ "lock" \in ClaudeLabels
  BY DEF Terminal, ClaudeLabels
<1>2. ClaudeRelease(p, "lock", ClaudeClosing(p, "applied"))
  BY DEF ClaudeSettle
<1>3. clLoc'[p].plan = clLoc[p].plan /\ clLoc'[p].errand = "close" /\ clLoc'[p].result = "applied"
  BY <1>1, <1>2, ClaudeReleased, ClaudeClosingTyped DEF ClaudeInv, ClaudePlan
<1> QED BY <1>3 DEF ClaudeMarking, ClaudePlan

\* Journal, receipts and history keep what is said about them.
LEMMA ClaudeDiskStep ==
  ASSUME ClaudeInv, ClaudeNext
  PROVE  ClaudeJournalFollowsReceipts' /\ ClaudeAppliedWasAccepted' /\ ClaudeAppliedWasOpen'
<1> SUFFICES ASSUME NEW q \in ClPlans
             PROVE  /\ clReceipt'[q] = "scheduled" => clJournal'[q] # "none"
                    /\ clJournal'[q] = "committed" => clReceipt'[q] = "applied"
                    /\ clJournal'[q] \in ClaudeEnded => clReceipt'[q] = clJournal'[q]
                    /\ clReceipt'[q] = "applied" /\ clJournal'[q] = "scheduled" =>
                         ClaudeMarking(q)' \/ q \in clLost'
                    /\ clReceipt'[q] = "applied" => q \in clAccepted' /\ clJournal'[q] # "none"
  BY DEF ClaudeJournalFollowsReceipts, ClaudeAppliedWasAccepted, ClaudeAppliedWasOpen
<1>1. /\ clReceipt[q] = "scheduled" => clJournal[q] # "none"
      /\ clJournal[q] = "committed" => clReceipt[q] = "applied"
      /\ clJournal[q] \in ClaudeEnded => clReceipt[q] = clJournal[q]
      /\ clReceipt[q] = "applied" /\ clJournal[q] = "scheduled" => ClaudeMarking(q) \/ q \in clLost
      /\ clReceipt[q] = "applied" => q \in clAccepted /\ clJournal[q] # "none"
  BY DEF ClaudeInv, ClaudeJournalFollowsReceipts, ClaudeAppliedWasAccepted, ClaudeAppliedWasOpen
<1>2. clReceipt'[q] # clReceipt[q] =>
        /\ <<clReceipt[q], clReceipt'[q]>> \in Transitions
        /\ clReceipt'[q] \in {"scheduled", "applied"} => clJournal[q] # "none"
        /\ clReceipt'[q] = "applied" =>
             q \in clAccepted /\ \E p \in ClClients : ClaudeSettle(p) /\ ClaudePlan(p) = q
  BY ClaudeReceiptMoves
<1>3. clJournal'[q] # clJournal[q] =>
        \/ clJournal[q] = "none" /\ clJournal'[q] = "scheduled"
        \/ clJournal[q] = "scheduled" /\ clJournal'[q] = "committed" /\ clReceipt[q] = "applied"
        \/ clJournal[q] = "scheduled" /\ clJournal'[q] \in ClaudeEnded
             /\ clReceipt[q] = clJournal'[q]
  BY ClaudeJournalMoves
<1>4. clAccepted \subseteq clAccepted' /\ clLost \subseteq clLost'
  BY ClaudeAcceptedGrows
<1>5. clReceipt[q] \in Terminal => clReceipt'[q] = clReceipt[q]
  BY <1>2 DEF Transitions, Terminal
<1>6. clReceipt'[q] = "scheduled" => clJournal'[q] # "none"
  BY <1>1, <1>2, <1>3 DEF ClaudeEnded, Terminal
<1>7. clJournal'[q] = "committed" => clReceipt'[q] = "applied"
  BY <1>1, <1>3, <1>5 DEF ClaudeEnded, Terminal
<1>8. clJournal'[q] \in ClaudeEnded => clReceipt'[q] = clJournal'[q]
  BY <1>1, <1>3, <1>5 DEF ClaudeEnded, Terminal
<1>9. clReceipt'[q] = "applied" => q \in clAccepted' /\ clJournal'[q] # "none"
  BY <1>1, <1>2, <1>3, <1>4 DEF ClaudeEnded, Terminal
<1>10. ASSUME clReceipt'[q] = "applied", clJournal'[q] = "scheduled"
       PROVE  ClaudeMarking(q)' \/ q \in clLost'
  <2>1. CASE clReceipt[q] # "applied"
    <3>1. PICK p \in ClClients : ClaudeSettle(p) /\ ClaudePlan(p) = q
      BY <1>2, <1>10, <2>1
    <3>2. clReceipt' # clReceipt
      BY <1>10, <2>1
    <3> QED BY <3>1, <3>2, ClaudeSettleMarks
  <2>2. CASE clReceipt[q] = "applied"
    <3>1. clJournal[q] = "scheduled"
      BY <1>1, <1>3, <1>10, <2>2
    <3> QED BY <1>1, <1>4, <1>10, <2>2, <3>1, ClaudeMarkingStep
  <2> QED BY <2>1, <2>2
<1> QED BY <1>6, <1>7, <1>8, <1>9, <1>10

-------------------------------------------------------------------------------
\* Files and locks keep their types.
LEMMA ClaudeTypeStep ==
  ASSUME ClaudeInv, ClaudeNext
  PROVE  ClaudeTypeOK'
<1>1. clReceipt' \in [ClPlans -> Status] /\ clJournal' \in [ClPlans -> ClaudeEntries]
  BY ClaudeReceiptMoves, ClaudeJournalMoves
<1>2. clAccepted' \subseteq ClPlans /\ clLost' \subseteq ClPlans
  BY ClaudeAcceptedGrows
<1>3. clPc' \in [ClClients -> ClaudeLabels] /\ clLoc' \in [ClClients -> ClaudeLocal]
  <2>1. CASE UNCHANGED clProc
    BY <2>1 DEF clProc, ClaudeInv, ClaudeTypeOK
  <2>2. ASSUME NEW p \in ClClients, ClaudeStep(p)
        PROVE  clPc' \in [ClClients -> ClaudeLabels] /\ clLoc' \in [ClClients -> ClaudeLocal]
    BY <2>2, ClaudeStepMoves, ClaudeMovesTyped DEF ClaudeInv, ClaudeCarries
  <2> QED BY <2>1, <2>2, ClaudeNextCases
<1>4. clMalformed' \in BOOLEAN
  <2>1. clMalformed' \in {clMalformed, TRUE}
    BY DEF ClaudeNext, ClaudeOnwards, ClaudeAge, ClaudeRequest, ClaudeForward, ClaudeAcquire,
       ClaudeBusy, ClaudeJudge,
       ClaudeBreak, ClaudeCompare, ClaudeDrop, ClaudeRead, ClaudeAppend, ClaudePrepare,
       ClaudeOverlay, ClaudeAccept,
       ClaudeReject, ClaudeCrash, ClaudeWriteFails, clDisk, clVars, ClaudeCancel, ClaudeApprove,
       ClaudePublish,
       ClaudeRecord, ClaudeSettle
  <2> QED BY <2>1 DEF ClaudeInv, ClaudeTypeOK
<1>5. clLock' \in ClaudeOwners /\ clAged' \in BOOLEAN /\ clStolen' \in BOOLEAN
  <2>1. clLock \in ClaudeOwners /\ clAged \in BOOLEAN /\ clStolen \in BOOLEAN
    BY DEF ClaudeInv, ClaudeTypeOK
  <2>2. CASE UNCHANGED clFile
    BY <2>1, <2>2 DEF clFile
  <2>3. ASSUME NEW p \in ClClients, ClaudeUnlink(p)
        PROVE  clLock' \in ClaudeOwners /\ clAged' \in BOOLEAN /\ clStolen' \in BOOLEAN
    BY <2>1, <2>3 DEF ClaudeUnlink, ClaudeOwners
  <2>4. ASSUME NEW p \in ClClients, ClaudeAcquire(p) \/ ClaudeCrash(p) \/ ClaudeAge
        PROVE  clLock' \in ClaudeOwners /\ clAged' \in BOOLEAN /\ clStolen' \in BOOLEAN
    BY <2>1, <2>4 DEF ClaudeAcquire, ClaudeCrash, ClaudeAge, ClaudeOwners
  <2>5. CASE ClaudeAge
    BY <2>1, <2>5 DEF ClaudeAge, ClaudeOwners
  <2>6. \/ UNCHANGED clFile \/ ClaudeAge
        \/ \E p \in ClClients : ClaudeUnlink(p) \/ ClaudeAcquire(p) \/ ClaudeCrash(p)
    BY DEF ClaudeNext, ClaudeOnwards, ClaudeRequest, ClaudeForward, ClaudeBusy, ClaudeJudge,
       ClaudeBreak, ClaudeCompare, ClaudeDrop, ClaudeRead, ClaudeAppend, ClaudePrepare,
       ClaudeOverlay, ClaudeAccept,
       ClaudeReject, ClaudeWriteFails, clFile, clVars, ClaudeCancel, ClaudeApprove, ClaudePublish,
       ClaudeRecord, ClaudeSettle
  <2> QED BY <2>2, <2>3, <2>4, <2>5, <2>6
<1>6. clFaults' \in 0..ClMaxFaults
  <2>1. clFaults \in 0..ClMaxFaults /\ ClMaxFaults \in Nat
    BY ClaudeCleanAssumption DEF ClaudeInv, ClaudeTypeOK
  <2>2. clFaults' = clFaults \/ ClaudeFault
    BY DEF ClaudeNext, ClaudeOnwards, ClaudeAge, ClaudeRequest, ClaudeForward, ClaudeAcquire,
       ClaudeBusy, ClaudeJudge,
       ClaudeBreak, ClaudeCompare, ClaudeDrop, ClaudeRead, ClaudeAppend, ClaudePrepare,
       ClaudeOverlay, ClaudeAccept,
       ClaudeReject, ClaudeCrash, ClaudeWriteFails, clVars, ClaudeCancel, ClaudeApprove,
       ClaudePublish,
       ClaudeRecord, ClaudeSettle
  <2> QED BY <2>1, <2>2 DEF ClaudeFault
<1> QED BY <1>1, <1>2, <1>3, <1>4, <1>5, <1>6 DEF ClaudeTypeOK

\* The lock is taken when it is free, and leaves its owner with the section or by
\* an unlink of somebody else.
LEMMA ClaudeLockedStep ==
  ASSUME ClaudeInv, ClaudeNext
  PROVE  ClaudeLocked' /\ (clStolen => clStolen')
<1> USE DEF ClaudeCritical
<1>0. /\ clLock \in ClaudeOwners /\ clStolen \in BOOLEAN
      /\ \A r \in ClClients :
           /\ clPc[r] \in ClaudeLabels
           /\ clLock = r => clPc[r] \in ClaudeCritical
           /\ clPc[r] \in ClaudeCritical => clLock = r \/ clStolen
           /\ r # "free" /\ r # "dead"
  BY ClaudeCleanAssumption DEF ClaudeInv, ClaudeTypeOK, ClaudeLocked
<1>1. CASE UNCHANGED <<clProc, clLock, clStolen>>
  BY <1>0, <1>1 DEF ClaudeLocked, clProc
<1>2. ASSUME NEW p \in ClClients, ClaudeStep(p)
      PROVE  ClaudeLocked' /\ (clStolen => clStolen')
  <2>1. \A r \in ClClients \ {p} : clPc'[r] = clPc[r]
    BY <1>2, ClaudeStepMoves, ClaudeMovesTyped DEF ClaudeInv, ClaudeCarries
  <2>2. ASSUME clPc[p] \in ClaudeCritical <=> clPc'[p] \in ClaudeCritical, UNCHANGED clFile
        PROVE  ClaudeLocked' /\ (clStolen => clStolen')
    BY <1>0, <2>1, <2>2 DEF ClaudeLocked, clFile
  <2>3. ASSUME NEW label, NEW k, ClaudeGo(p, label, k)
        PROVE  clPc'[p] = label
    BY <2>3, ClaudeGone DEF ClaudeInv
  <2>4. ASSUME NEW label, NEW k, ClaudeRelease(p, label, k)
        PROVE  clPc'[p] = "release"
    BY <2>3, <2>4 DEF ClaudeRelease
  <2>5. CASE ClaudeAcquire(p)
    <3>1. clPc'[p] = "read"
      BY <2>3, <2>5 DEF ClaudeAcquire
    <3> QED BY <1>0, <2>1, <2>5, <3>1 DEF ClaudeAcquire, ClaudeLocked
  <2>6. CASE ClaudeBreak(p)
    <3>1. clPc'[p] = "lock"
      BY <2>3, <2>6 DEF ClaudeBreak
    <3> QED BY <1>0, <2>1, <2>6, <3>1 DEF ClaudeBreak, ClaudeUnlink, ClaudeLocked, ClaudeOwners
  <2>7. clPc[p] \in {"release", "unlink"} => clLoc[p].next \in {"idle", "publish", "lock", "record"}
    BY DEF ClaudeInv, ClaudeCarries, ClaudeFits
  <2>8. CASE ClaudeCompare(p)
    <3>1. clPc'[p] = IF clLock = p THEN "unlink" ELSE clLoc[p].next
      BY <2>3, <2>8 DEF ClaudeCompare
    <3> QED BY <1>0, <2>1, <2>7, <2>8, <3>1 DEF ClaudeCompare, ClaudeLocked, clFile
  <2>9. CASE ClaudeDrop(p)
    <3>1. clPc'[p] = clLoc[p].next
      BY <2>3, <2>9 DEF ClaudeDrop
    <3> QED BY <1>0, <2>1, <2>7, <2>9, <3>1 DEF ClaudeDrop, ClaudeUnlink, ClaudeLocked, ClaudeOwners
  <2>10. CASE ClaudeCrash(p)
    <3>1. clPc'[p] = "idle"
      BY <2>3, <2>10 DEF ClaudeCrash, ClaudeLeave
    <3> QED BY <1>0, <2>1, <2>10, <3>1 DEF ClaudeCrash, ClaudeLocked
  <2>11. CASE ClaudeApprove(p) \/ ClaudeRequest(p) \/ ClaudeBusy(p) \/ ClaudeJudge(p)
                \/ ClaudePublish(p) \/ ClaudeRecord(p)
    BY <2>2, <2>3, <2>11 DEF ClaudeApprove, ClaudeRequest, ClaudeBusy, ClaudeJudge,
       ClaudePublish, ClaudeRecord, ClaudeLeave, clFile
  <2>12. CASE ClaudeRead(p) \/ ClaudeAppend(p) \/ ClaudePrepare(p) \/ ClaudeOverlay(p)
              \/ ClaudeAccept(p) \/ ClaudeReject(p) \/ ClaudeSettle(p)
    BY <2>2, <2>3, <2>4, <2>12 DEF ClaudeRead, ClaudeAppend, ClaudePrepare, ClaudeReplay,
       ClaudeOverlay, ClaudeAccept,
       ClaudeReject, ClaudeSettle, clFile
  <2>13. CASE ClaudeWriteFails(p)
    BY <2>2, <2>3, <2>4, <2>13 DEF ClaudeWriteFails, ClaudeLeave, clFile
  <2> QED BY <1>2, <2>5, <2>6, <2>8, <2>9, <2>10, <2>11, <2>12, <2>13 DEF ClaudeStep, ClaudeOnwards
<1> QED BY <1>1, <1>2 DEF ClaudeNext, ClaudeStep, ClaudeCancel, ClaudeAge, ClaudeForward,
   clVars, clProc, clFile

\* While no lock was stolen, whoever is in the section is alone, and what it found
\* in the journal is still there when it appends.
LEMMA ClaudeSoleStep ==
  ASSUME ClaudeInv, ClaudeNext
  PROVE  ClaudeFound' /\ ClaudeOneStory'
<1>1. ClaudeLocked' /\ (clStolen => clStolen')
  BY ClaudeLockedStep
<1>2. CASE clStolen'
  BY <1>2 DEF ClaudeFound, ClaudeOneStory
<1>3. CASE ~clStolen'
  <2>1. /\ ~clMalformed
        /\ \A q, r \in ClPlans : clJournal[q] = "scheduled" /\ clJournal[r] = "scheduled" => q = r
    BY <1>1, <1>3 DEF ClaudeInv, ClaudeOneStory
  <2>2. \A p, o \in ClClients : clPc[p] \in ClaudeCritical /\ clPc[o] \in ClaudeCritical => p = o
    BY <1>1, <1>3 DEF ClaudeInv, ClaudeLocked
  <2>3. \A p, o \in ClClients : clPc'[p] \in ClaudeCritical /\ clPc'[o] \in ClaudeCritical => p = o
    BY <1>1, <1>3 DEF ClaudeLocked
  <2>4. \A p \in ClClients : clPc[p] = "append" =>
          IF clLoc[p].errand = "write" THEN ClaudeVacant(ClaudePlan(p))
                                       ELSE clJournal[ClaudePlan(p)] = "scheduled"
    BY <1>1, <1>3 DEF ClaudeInv, ClaudeFound
  <2>5. ASSUME ~clMalformed',
               \A q, r \in ClPlans : clJournal'[q] = "scheduled"
                 /\ clJournal'[r] = "scheduled" => q = r
        PROVE  ClaudeOneStory'
    BY <2>3, <2>5 DEF ClaudeOneStory, ClaudeCritical
  <2>6. ASSUME NEW p \in ClClients, ClaudeStep(p)
        PROVE  \A r \in ClClients \ {p} : clPc'[r] = clPc[r] /\ clLoc'[r] = clLoc[r]
    BY <2>6, ClaudeStepMoves, ClaudeMovesTyped DEF ClaudeInv, ClaudeCarries
  <2>7. ASSUME NEW p \in ClClients, ClaudeAppend(p)
        PROVE  ClaudeFound' /\ ClaudeOneStory'
    <3> DEFINE q == ClaudePlan(p)
               e == ClaudeEntry(clLoc[p])
    <3>1. clPc[p] = "append" /\ q \in ClPlans
      BY <2>7, ClaudeHasPlan DEF ClaudeAppend
    <3>2. clLoc[p].errand \in {"write", "close"}
          /\ (clLoc[p].errand = "close" => clLoc[p].result \in Terminal)
      BY <3>1 DEF ClaudeInv, ClaudeCarries, ClaudeFits, ClaudeKnows, ClaudeDue
    <3>3. \/ e = "scheduled" /\ clJournal[q] = "none"
               /\ \A r \in ClPlans : clJournal[r] # "scheduled"
          \/ e # "scheduled" /\ clJournal[q] = "scheduled"
      BY <2>4, <3>1, <3>2 DEF ClaudeEntry, ClaudeVacant, Terminal
    <3>4. ClaudeAccepts(clJournal[q], e)
      BY <3>3 DEF ClaudeAccepts
    <3>5. clJournal' = [clJournal EXCEPT ![q] = e] /\ UNCHANGED clMalformed
      BY <2>7, <3>4 DEF ClaudeAppend
    <3>6. clJournal \in [ClPlans -> ClaudeEntries]
      BY DEF ClaudeInv, ClaudeTypeOK
    <3>7. \A r, o \in ClPlans : clJournal'[r] = "scheduled" /\ clJournal'[o] = "scheduled" => r = o
      <4> HIDE DEF q, e
      <4> QED BY <2>1, <3>1, <3>3, <3>5, <3>6
    <3>8. ClaudeOneStory'
      BY <2>1, <2>5, <3>5, <3>7
    <3>9. clPc'[p] = "release"
      BY <2>7, ClaudeGone DEF ClaudeAppend, ClaudeRelease, ClaudeInv
    <3>10. \A o \in ClClients : clPc'[o] # "append"
      BY <2>2, <2>6, <2>7, <3>1, <3>9 DEF ClaudeStep, ClaudeOnwards, ClaudeCritical
    <3> QED BY <3>8, <3>10 DEF ClaudeFound
  <2>8. ASSUME \A p \in ClClients : ~ClaudeAppend(p)
        PROVE  ClaudeFound' /\ ClaudeOneStory'
    <3>1. UNCHANGED <<clJournal, clMalformed>>
      BY <2>8 DEF ClaudeNext, ClaudeOnwards, ClaudeAge, ClaudeRequest, ClaudeForward,
         ClaudeAcquire, ClaudeBusy,
         ClaudeJudge, ClaudeBreak, ClaudeCompare, ClaudeDrop, ClaudeRead, ClaudePrepare,
         ClaudeOverlay, ClaudeAccept,
         ClaudeReject, ClaudeCrash, ClaudeWriteFails, clDisk, clVars, ClaudeCancel,
         ClaudeApprove, ClaudePublish,
         ClaudeRecord, ClaudeSettle
    <3>2. ClaudeOneStory'
      BY <2>1, <2>5, <3>1
    <3>3. ASSUME NEW o \in ClClients, clPc'[o] = "append"
          PROVE  IF clLoc'[o].errand = "write" THEN ClaudeVacant(ClaudePlan(o))'
                                               ELSE clJournal'[ClaudePlan(o)'] = "scheduled"
      <4>1. CASE clPc[o] = "append" /\ clLoc'[o] = clLoc[o]
        BY <2>4, <3>1, <4>1 DEF ClaudeVacant, ClaudePlan
      <4>2. CASE ClaudeStep(o)
        <5>1. ASSUME NEW label, NEW k, ClaudeGo(o, label, k)
              PROVE  label = "append" /\ clLoc'[o] = k
          BY <3>3, <5>1, ClaudeGone DEF ClaudeInv
        <5>2. ASSUME NEW label, NEW k, ClaudeRelease(o, label, k)
              PROVE  FALSE
          BY <5>1, <5>2 DEF ClaudeRelease
        <5>3. clPc[o] \in {"release", "unlink"} => clLoc[o].next # "append"
          BY DEF ClaudeInv, ClaudeCarries, ClaudeFits
        <5>4. CASE ClaudeRead(o)
          <6>1. \/ clLoc[o].errand = "write" /\ ClaudeVacant(ClaudePlan(o))
                \/ clLoc[o].errand = "close" /\ clJournal[ClaudePlan(o)] = "scheduled"
            BY <5>1, <5>2, <5>4 DEF ClaudeRead
          <6>2. clLoc'[o] = clLoc[o]
            BY <5>1, <5>2, <5>4 DEF ClaudeRead
          <6> QED BY <3>1, <6>1, <6>2 DEF ClaudeVacant, ClaudePlan
        <5>5. ~ClaudeCompare(o) /\ ~ClaudeDrop(o)
          BY <5>1, <5>3 DEF ClaudeCompare, ClaudeDrop
        <5>6. ~(ClaudeApprove(o) \/ ClaudeRequest(o))
          <6> SUFFICES ASSUME ClaudeApprove(o) \/ ClaudeRequest(o)
                       PROVE  FALSE
            OBVIOUS
          <6>1. PICK q \in ClPlans, e \in {"write", "run"} :
                  ClaudeGo(o, "lock", [ClaudeIdle EXCEPT !.plan = q, !.errand = e])
            BY DEF ClaudeApprove, ClaudeRequest
          <6> QED BY <5>1, <6>1
        <5>6a. ~(ClaudeAcquire(o) \/ ClaudeBusy(o) \/ ClaudeJudge(o) \/ ClaudeBreak(o)
                   \/ ClaudeAccept(o) \/ ClaudeCrash(o))
          BY <5>1 DEF ClaudeAcquire, ClaudeBusy, ClaudeJudge, ClaudeBreak, ClaudeAccept,
             ClaudeCrash, ClaudeLeave
        <5>6b. ~(ClaudePublish(o) \/ ClaudeRecord(o))
          BY <5>1 DEF ClaudePublish, ClaudeRecord, ClaudeLeave
        <5>7. ~(ClaudePrepare(o) \/ ClaudeOverlay(o) \/ ClaudeReject(o) \/ ClaudeSettle(o)
                  \/ ClaudeWriteFails(o))
          BY <5>1, <5>2 DEF ClaudePrepare, ClaudeReplay, ClaudeOverlay, ClaudeReject,
             ClaudeSettle, ClaudeWriteFails, ClaudeLeave
        <5> QED BY <2>8, <4>2, <5>4, <5>5, <5>6, <5>7, <5>6a, <5>6b DEF ClaudeStep, ClaudeOnwards
      <4> QED BY <2>6, <3>3, <4>1, <4>2, ClaudeNextCases DEF clProc
    <3> QED BY <3>2, <3>3 DEF ClaudeFound
  <2> QED BY <2>7, <2>8
<1> QED BY <1>2, <1>3

\* Every step of the clean execution keeps the invariant.
LEMMA ClaudeInvStep == ClaudeInv /\ [ClaudeNext]_clVars => ClaudeInv'
<1> SUFFICES ASSUME ClaudeInv, [ClaudeNext]_clVars PROVE ClaudeInv'
  OBVIOUS
<1>1. CASE ClaudeNext
  BY <1>1, ClaudeTypeStep, ClaudeCarriesStep, ClaudeLockedStep, ClaudeSoleStep, ClaudeDiskStep
     DEF ClaudeInv
<1>2. CASE UNCHANGED clVars
  BY <1>2 DEF clVars, ClaudeInv, ClaudeTypeOK, ClaudeCarries, ClaudeFits, ClaudeKnows,
     ClaudeDue, ClaudeLocked, ClaudeFound,
     ClaudeVacant, ClaudePlan, ClaudeAppliedWasOpen, ClaudeJournalFollowsReceipts,
     ClaudeAppliedWasAccepted, ClaudeOneStory,
     ClaudeMarking
<1> QED BY <1>1, <1>2

\* The invariant of the clean execution of Claude Code, for any number of operations,
\* plans and faults.
THEOREM ClaudeInvariance == ClaudeSpec => []ClaudeInv
BY ClaudeStart, ClaudeInvStep, PTL DEF ClaudeSpec

\* Journal, receipts, lock file and operations of the clean execution of Claude Code
\* are well typed.
THEOREM ClaudeTypeCorrect == ClaudeSpec => []ClaudeTypeOK
<1>1. ClaudeInv => ClaudeTypeOK
  BY DEF ClaudeInv
<1> QED BY <1>1, ClaudeInvariance, PTL

\* The journal of schedules never runs ahead of the shared receipts, and an applied
\* plan stays open in it only when its marker is on the way or was lost.
THEOREM JournalFollows == ClaudeSpec => []ClaudeJournalFollowsReceipts
<1>1. ClaudeInv => ClaudeJournalFollowsReceipts
  BY DEF ClaudeInv
<1> QED BY <1>1, ClaudeInvariance, PTL

\* As long as no lock file was unlinked under a live owner there is one open schedule
\* and one overlay on its way, and the readers of the journal accept it.
THEOREM OneStoryIsTold == ClaudeSpec => []ClaudeOneStory
<1>1. ClaudeInv => ClaudeOneStory
  BY DEF ClaudeInv
<1> QED BY <1>1, ClaudeInvariance, PTL

\* A plan is reported as applied only after the upstream took a request without the
\* selected items, stolen locks or not.
THEOREM AppliedWasAccepted == ClaudeSpec => []ClaudeAppliedWasAccepted
<1>1. ClaudeInv => ClaudeAppliedWasAccepted
  BY DEF ClaudeInv
<1> QED BY <1>1, ClaudeInvariance, PTL

-------------------------------------------------------------------------------
(* The clean execution of Claude Code is one of CleanExecution.            *)

\* An overlay on its way belongs to a plan that was published.
ClaudePublished ==
  \A p \in ClClients : clPc[p] \in {"overlay", "upstream", "settle"} =>
    clReceipt[ClaudePlan(p)] \notin {"analyzed", "approved"}

\* A published plan stays published, and only a published one is prepared.
LEMMA ClaudePublishedStep ==
  ASSUME ClaudeInv, ClaudePublished, ClaudeNext
  PROVE  ClaudePublished'
<1>1. \A q \in ClPlans : clReceipt[q] \notin {"analyzed", "approved"} =>
        clReceipt'[q] \notin {"analyzed", "approved"}
  BY ClaudeReceiptMoves DEF Transitions
<1>2. ASSUME NEW p \in ClClients, clPc'[p] \in {"overlay", "upstream", "settle"}
      PROVE  \E q \in ClPlans : q = clLoc'[p].plan /\ clReceipt[q] \notin {"analyzed", "approved"}
  <2>1. CASE clPc'[p] = clPc[p] /\ clLoc'[p] = clLoc[p]
    BY <1>2, <2>1, ClaudeHasPlan DEF ClaudePublished, ClaudePlan
  <2>2. CASE ClaudeStep(p)
    <3>1. ClaudeMoves(p) /\ ClaudeFits(clPc[p], clLoc[p])
      BY <2>2, ClaudeStepMoves DEF ClaudeInv, ClaudeCarries
    <3>2. \A label, l : ClaudeGo(p, label, l) => clPc'[p] = label /\ clLoc'[p] = l
      BY ClaudeGone DEF ClaudeInv
    <3>3. clPc[p] \in {"prepare", "overlay", "upstream"} /\ clLoc'[p] = clLoc[p]
      <4>1. \A label \in {"idle", "lock", "append", "prepare", "release"} : \A l : ~ClaudeGo(p, label, l)
        BY <1>2, <3>2
      <4>2. clPc[p] \in {"release", "unlink"} =>
              ~ClaudeGo(p, clLoc[p].next, [clLoc[p] EXCEPT !.next = "idle"])
        BY <1>2, <3>1, <3>2 DEF ClaudeFits
      <4>3. \A label, l : ~ClaudeRelease(p, label, l)
        BY <4>1 DEF ClaudeRelease
      <4>4. PICK label : <<clPc[p], label>> \in ClaudeStays /\ ClaudeGo(p, label, clLoc[p])
        BY <3>1, <4>1, <4>2, <4>3 DEF ClaudeMoves, ClaudeLeave
      <4>. QED  BY <1>2, <3>2, <4>4 DEF ClaudeStays
    <3>4. clPc[p] = "prepare" => ClaudeSays(p) = "scheduled"
      <4>1. CASE clPc[p] = "prepare"
        <5>1. clPc'[p] # "idle" /\ clPc'[p] # "release"
          BY <1>2
        <5>2. ~ClaudeWriteFails(p) /\ ~ClaudeCrash(p)
          BY <3>2, <4>1, <5>1 DEF ClaudeWriteFails, ClaudeCrash, ClaudeLeave
        <5>3. ClaudePrepare(p)
          BY <2>2, <4>1, <5>2 DEF ClaudeStep, ClaudeOnwards, ClaudeApprove, ClaudeRequest, ClaudeAcquire,
             ClaudeBusy, ClaudeJudge, ClaudeBreak, ClaudeCompare, ClaudeDrop, ClaudeRead, ClaudeAppend,
             ClaudePublish, ClaudeOverlay, ClaudeRecord, ClaudeAccept, ClaudeReject, ClaudeSettle
        <5>. QED  BY <3>2, <5>1, <5>3 DEF ClaudePrepare, ClaudeReplay, ClaudeRelease
      <4>. QED  BY <4>1
    <3>. QED  BY <3>3, <3>4, ClaudeHasPlan DEF ClaudePublished, ClaudeSays, ClaudePlan
  <2>3. CASE ~ClaudeStep(p)
    <3>1. UNCHANGED clProc \/ \E o \in ClClients \ {p} : ClaudeStep(o)
      BY <2>3, ClaudeNextCases
    <3>2. ASSUME NEW o \in ClClients \ {p}, ClaudeStep(o)
          PROVE  clPc'[p] = clPc[p] /\ clLoc'[p] = clLoc[p]
      <4>1. ClaudeMoves(o) /\ ClaudeFits(clPc[o], clLoc[o])
        BY <3>2, ClaudeStepMoves DEF ClaudeInv, ClaudeCarries
      <4>. QED  BY <4>1, ClaudeMovesTyped DEF ClaudeInv
    <3>. QED  BY <2>1, <3>1, <3>2 DEF clProc
  <2>. QED  BY <2>2, <2>3
<1>. QED  BY <1>1, <1>2 DEF ClaudePublished, ClaudePlan

\* What the upstream takes is an overlay of a published plan.
LEMMA ClaudeAcceptedStep ==
  ASSUME ClaudeInv, ClaudePublished, ClaudeNext, clAccepted' # clAccepted
  PROVE  \E q \in ClPlans : ClaudeExecution!CarryOut(q)
<1>1. PICK p \in ClClients : ClaudeAccept(p)
  BY DEF ClaudeNext, ClaudeOnwards, ClaudeAge, ClaudeRequest, ClaudeForward, ClaudeAcquire,
     ClaudeBusy, ClaudeJudge, ClaudeBreak, ClaudeCompare, ClaudeDrop, ClaudeRead, ClaudeAppend,
     ClaudePrepare, ClaudeOverlay, ClaudeReject, ClaudeCrash, ClaudeWriteFails, ClaudeCancel,
     ClaudeApprove, ClaudePublish, ClaudeRecord, ClaudeSettle, clPast, clVars
<1>2. PICK q \in ClPlans : q = ClaudePlan(p)
  BY <1>1, ClaudeHasPlan DEF ClaudeAccept
<1>3. clReceipt[q] \notin {"analyzed", "approved"}
  BY <1>1, <1>2 DEF ClaudeAccept, ClaudePublished
<1>4. clAccepted' = clAccepted \cup {q} /\ UNCHANGED clReceipt
  BY <1>1, <1>2 DEF ClaudeAccept, clDisk
<1>. QED  BY <1>3, <1>4 DEF ClaudeExecution!CarryOut

\* A step of the gateway or of the CLI is one of the execution, or changes nothing of it.
LEMMA ClaudeExecutesStep ==
  ClaudeInv /\ ClaudePublished /\ [ClaudeNext]_clVars
    => [ClaudeExecution!Next]_(ClaudeExecution!vars)
<1>. SUFFICES ASSUME ClaudeInv, ClaudePublished, ClaudeNext, ~UNCHANGED <<clReceipt, clAccepted>>
              PROVE  ClaudeExecution!Next
  BY DEF clVars, ClaudeExecution!vars
<1>1. CASE clAccepted' # clAccepted
  BY <1>1, ClaudeAcceptedStep DEF ClaudeExecution!Next
<1>2. CASE clReceipt' # clReceipt
  <2>1. PICK q \in ClPlans, s \in Status : ClaudeWritten(q, s)
    BY <1>2, ClaudeReceiptWritten
  <2>2. ClaudeExecution!Advance(q) \/ ClaudeExecution!Report(q)
    BY <2>1 DEF ClaudeWritten, ClaudeExecution!Advance, ClaudeExecution!Report, ClaudeExecution!Status,
       ClaudeExecution!Transitions, Status, Transitions
  <2>. QED  BY <2>2 DEF ClaudeExecution!Next
<1>. QED  BY <1>1, <1>2

\* The gateway executes plans as CleanExecution promises, for any number of requests,
\* approvals, plans, crashes and stolen locks.
THEOREM ClaudeRefinement == ClaudeSpec => ClaudeExecutes
<1>1. ClaudeInit => ClaudePublished /\ ClaudeExecution!Init
  BY DEF ClaudeInit, ClaudePublished, ClaudeExecution!Init
<1>2. ClaudeInv /\ ClaudePublished /\ [ClaudeNext]_clVars => ClaudePublished'
  <2>1. ASSUME ClaudePublished, UNCHANGED clVars PROVE ClaudePublished'
    BY <2>1 DEF clVars, ClaudePublished, ClaudePlan
  <2>. QED  BY <2>1, ClaudePublishedStep
<1>. QED
  BY <1>1, <1>2, ClaudeInvariance, ClaudeExecutesStep, PTL
  DEF ClaudeSpec, ClaudeExecutes, ClaudeExecution!Spec
===============================================================================
