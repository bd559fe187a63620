-------------------------- MODULE CodexJournalProofs ---------------------------
(***************************************************************************)
(* The lock of the journal, its numbers and its histories.  As long as no  *)
(* recovery file is taken from the process that uses it, a recovery is     *)
(* exclusive like a lock: its file is in place until it ends, so whoever   *)
(* is about to remove the lock file saw a dead owner, whose file nobody    *)
(* else replaces.  A history that is read back is told in four places: by  *)
(* the answers of the provider, by the entries, by what the requests in    *)
(* flight know, and by the responses that are taken for kept.  All four    *)
(* tell the same story; a chain is then right turn by turn.                *)
(***************************************************************************)
EXTENDS JournalLock, CodexJournal, FiniteSetTheorems, WellFoundedInduction, TLAPS

JlRecovering == {"name", "rejudge", "remove", "unclaim", "drop"}

\* The lock file of a process that is taking, holding or releasing the lock is its own.
LockInPlace     == \A p \in JlProcs : jlPc[p] \in JlHolding \cup {"owner"} => jlLock.of = p
RecoveryInPlace == \A p \in JlProcs : jlPc[p] \in JlRecovering => jlRecovery.of = p
RemovedIsStale  == \A p \in JlProcs : jlPc[p] = "remove" => JlStale(jlLock, FALSE)
LiveIsYoung     == jlLock.of \in JlProcs => ~jlLock.old

LockInv == JournalLockTypeOK /\ (jlTaken \/ (/\ LockInPlace /\ RecoveryInPlace
                                             /\ RemovedIsStale /\ LiveIsYoung))

\* A file stays one when it changes hands, is named or grows old.
LEMMA FileEdits ==
  ASSUME NEW f \in JlFiles
  PROVE  /\ \A o \in JlProcs \cup {JlLeft, JlDead} : [f EXCEPT !.of = o] \in JlFiles
         /\ [f EXCEPT !.named = TRUE] \in JlFiles /\ [f EXCEPT !.old = TRUE] \in JlFiles
BY DEF JlFiles

\* No step makes a file, process or control point ill typed.
LEMMA LockTypeStep == JournalLockTypeOK /\ [JournalLockNext]_jlVars => JournalLockTypeOK'
<1> SUFFICES ASSUME JournalLockTypeOK, [JournalLockNext]_jlVars PROVE JournalLockTypeOK'
  OBVIOUS
<1> USE DEF JournalLockTypeOK, JlLabels, JlHolding, JlGoto, jlPaths
<1>n. JlNoFile \in JlFiles /\ \A p \in JlProcs : JlNew(p) \in JlFiles
  BY DEF JlNoFile, JlNew, JlFiles
<1>e. \A p \in JlProcs, f \in JlFiles : JlWith(p, f) \in JlFiles /\ JlAbandon(p, f) \in JlFiles
  BY FileEdits DEF JlWith, JlAbandon
<1>1. ASSUME NEW p \in JlProcs, JlCall(p) \/ JlJudge(p) \/ JlRejudge(p) \/ JlReclaim(p) \/ JlRelease(p)
      PROVE  JournalLockTypeOK'
  BY <1>1 DEF JlCall, JlJudge, JlRejudge, JlReclaim, JlRelease
<1>2. ASSUME NEW p \in JlProcs, JlStat(p) PROVE JournalLockTypeOK'
  BY <1>2 DEF JlStat
<1>3. ASSUME NEW p \in JlProcs, JlOpen(p) \/ JlOwner(p) \/ JlClaim(p) PROVE JournalLockTypeOK'
  BY <1>3, <1>n, <1>e DEF JlOpen, JlOwner, JlClaim
<1>4. ASSUME NEW p \in JlProcs, JlRemove(p) \/ JlUnlock(p) PROVE JournalLockTypeOK'
  BY <1>4, <1>n DEF JlRemove, JlUnlock
<1>5. ASSUME NEW p \in JlProcs, JlName(p) PROVE JournalLockTypeOK'
  BY <1>5, <1>e DEF JlName, JlOthers
<1>6. ASSUME NEW p \in JlProcs, JlUnclaim(p) \/ JlDrop(p) PROVE JournalLockTypeOK'
  BY <1>6, <1>n, <1>e DEF JlUnclaim, JlDrop, JlRetries, JlOthers
<1>7. ASSUME NEW p \in JlProcs, JlTake(p) PROVE JournalLockTypeOK'
  BY <1>7, <1>n DEF JlTake
<1>8. ASSUME NEW p \in JlProcs, JlCheck(p) PROVE JournalLockTypeOK'
  <2>1. /\ jlClaimed' = [jlClaimed EXCEPT ![p] = JlNoFile]
        /\ jlNext' = [jlNext EXCEPT ![p] = "open"] /\ UNCHANGED jlLock
    BY <1>8 DEF JlCheck
  <2>2. CASE JlStale(jlClaimed[p], TRUE)
    <3>1. jlPc' = [jlPc EXCEPT ![p] = jlNext[p]] /\ UNCHANGED <<jlRecovery, jlTaken>>
      BY <1>8, <2>2 DEF JlCheck
    <3>. QED  BY <1>n, <2>1, <3>1
  <2>3. CASE ~JlStale(jlClaimed[p], TRUE)
    <3>1. jlPc' = [jlPc EXCEPT ![p] = "idle"] /\ jlRecovery' = jlClaimed[p]
      BY <1>8, <2>3 DEF JlCheck
    <3>2. jlTaken' \in BOOLEAN
      BY <1>8, <2>3, Zenon DEF JlCheck
    <3>. QED  BY <1>n, <2>1, <3>1, <3>2
  <2>. QED  BY <2>2, <2>3
<1>9. ASSUME NEW p \in JlProcs, JlCrash(p) PROVE JournalLockTypeOK'
  <2>1. PICK gone \in {{p}, {p, JlLeft}} :
          LET after(f) == IF f.of \in gone THEN [f EXCEPT !.of = JlDead] ELSE f
          IN  /\ jlLock'     = after(jlLock)
              /\ jlRecovery' = after(jlRecovery)
              /\ jlClaimed'  = [q \in JlProcs |-> IF q = p THEN JlNoFile ELSE after(jlClaimed[q])]
    BY <1>9 DEF JlCrash
  <2>. DEFINE after(f) == IF f.of \in gone THEN [f EXCEPT !.of = JlDead] ELSE f
  <2>2. \A f \in JlFiles : after(f) \in JlFiles
    BY FileEdits
  <2>3. jlLock' = after(jlLock) /\ jlRecovery' = after(jlRecovery)
        /\ jlClaimed' = [q \in JlProcs |-> IF q = p THEN JlNoFile ELSE after(jlClaimed[q])]
    BY <2>1
  <2>. HIDE DEF after
  <2>. QED  BY <2>2, <2>3, <1>9, <1>n DEF JlCrash
<1>10. CASE JlAge
  BY <1>10, FileEdits DEF JlAge
<1>11. CASE UNCHANGED jlVars
  BY <1>11 DEF jlVars
<1>. QED
  BY <1>1, <1>2, <1>3, <1>4, <1>5, <1>6, <1>7, <1>8, <1>9, <1>10, <1>11 DEF JournalLockNext

LEMMA LockStep == LockInv /\ [JournalLockNext]_jlVars => LockInv'
<1> SUFFICES ASSUME LockInv, [JournalLockNext]_jlVars PROVE LockInv'
  OBVIOUS
<1>t. JournalLockTypeOK /\ JournalLockTypeOK'
  BY LockTypeStep DEF LockInv
<1> DEFINE Good == LockInPlace /\ RecoveryInPlace /\ RemovedIsStale /\ LiveIsYoung
<1> SUFFICES ASSUME ~jlTaken' PROVE Good'
  BY <1>t DEF LockInv
<1>k. ~jlTaken
  <2>1. ASSUME NEW p \in JlProcs, JlTake(p) \/ JlCheck(p) PROVE ~jlTaken
    BY <2>1 DEF JlTake, JlCheck
  <2>. QED
    BY <2>1, <1>t DEF JournalLockNext, jlVars, JlCall, JlStat, JlOpen, JlOwner, JlJudge, JlClaim,
       JlName, JlRejudge, JlRemove, JlUnclaim, JlDrop, JlReclaim, JlRelease, JlUnlock, JlCrash,
       JlAge
<1>g. Good
  BY <1>k DEF LockInv
<1> USE <1>t, <1>g, JournalLockAssumption DEF JournalLockTypeOK, JlFiles, JlGoto, JlHolding, JlRecovering,
       JlNoFile, JlNew, jlPaths, LockInPlace, RecoveryInPlace, RemovedIsStale, LiveIsYoung
<1>1. ASSUME NEW p \in JlProcs, JlCall(p) \/ JlStat(p) \/ JlJudge(p) \/ JlReclaim(p) PROVE Good'
  BY <1>1 DEF JlCall, JlStat, JlJudge, JlReclaim, JlStale, JlThere
<1>2. ASSUME NEW p \in JlProcs, JlOpen(p) PROVE Good'
  BY <1>2 DEF JlOpen, JlStale, JlThere
<1>3. ASSUME NEW p \in JlProcs, JlOwner(p) PROVE Good'
  BY <1>3 DEF JlOwner, JlWith, JlStale, JlThere
<1>4. ASSUME NEW p \in JlProcs, JlClaim(p) PROVE Good'
  BY <1>4 DEF JlClaim, JlStale, JlThere
<1>5. ASSUME NEW p \in JlProcs, JlName(p) PROVE Good'
  <2>1. jlPc[p] = "name" /\ UNCHANGED jlLock /\ jlPc' \in {[jlPc EXCEPT ![p] = l] : l \in {"rejudge", "idle"}}
    BY <1>5 DEF JlName
  <2>2. LockInPlace' /\ LiveIsYoung'
    BY <2>1
  <2>3. RemovedIsStale'
    BY <2>1 DEF JlStale, JlThere
  <2>4. RecoveryInPlace'
    <3>1. \A q \in JlProcs : jlPc'[q] \in JlRecovering => jlRecovery.of = q
      BY <2>1
    <3>2. CASE jlRecovery.of = p
      <4>1. \A q \in JlProcs : q # p => jlPc'[q] \notin JlRecovering
        BY <3>1, <3>2
      <4>2. jlPc'[p] \in JlRecovering => jlRecovery'.of = p
        <5>1. CASE jlPc'[p] = "idle"
          BY <5>1
        <5>2. CASE jlPc'[p] # "idle"
          <6>1. jlRecovery' = JlWith(p, jlRecovery)
            BY <1>5, <5>2 DEF JlName
          <6>. QED  BY <6>1, <3>2 DEF JlWith
        <5>. QED  BY <5>1, <5>2
      <4>. QED  BY <4>1, <4>2
    <3>. QED  BY <2>1, <3>2
  <2>. QED  BY <2>2, <2>3, <2>4
<1>6. ASSUME NEW p \in JlProcs, JlRejudge(p) PROVE Good'
  BY <1>6 DEF JlRejudge, JlStale, JlThere
<1>7. ASSUME NEW p \in JlProcs, JlRemove(p) PROVE Good'
  BY <1>7 DEF JlRemove, JlStale, JlThere
<1>8. ASSUME NEW p \in JlProcs, JlUnclaim(p) \/ JlDrop(p) PROVE Good'
  BY <1>8 DEF JlUnclaim, JlDrop, JlRetries, JlStale, JlThere
<1>9. ASSUME NEW p \in JlProcs, JlTake(p) PROVE Good'
  BY <1>9 DEF JlTake, JlStale, JlThere
<1>10. ASSUME NEW p \in JlProcs, JlCheck(p) PROVE Good'
  BY <1>10 DEF JlCheck, JlStale, JlThere
<1>11. ASSUME NEW p \in JlProcs, JlRelease(p) \/ JlUnlock(p) PROVE Good'
  BY <1>11 DEF JlRelease, JlUnlock, JlStale, JlThere
<1>12. ASSUME NEW p \in JlProcs, JlCrash(p) PROVE Good'
  BY <1>12 DEF JlCrash, JlStale, JlThere
<1>13. CASE JlAge
  BY <1>13 DEF JlAge, JlStale, JlThere
<1>14. CASE UNCHANGED jlVars
  BY <1>14 DEF jlVars, JlStale, JlThere
<1>. QED
  BY <1>1, <1>2, <1>3, <1>4, <1>5, <1>6, <1>7, <1>8, <1>9, <1>10, <1>11, <1>12, <1>13, <1>14
  DEF JournalLockNext

\* The inductive invariant of the journal lock: a recovery whose file was not taken from
\* it is alone, and removes only a file that no living process will use.
THEOREM JournalLockInvariance == JournalLockSpec => []LockInv
<1>1. JournalLockInit => LockInv
  <2>. SUFFICES ASSUME JournalLockInit PROVE LockInv
    OBVIOUS
  <2>1. JournalLockTypeOK
    BY DEF JournalLockInit, JournalLockTypeOK, JlFiles, JlNoFile, JlLabels, JlHolding
  <2>2. LockInPlace /\ RecoveryInPlace /\ RemovedIsStale
    BY DEF JournalLockInit, LockInPlace, RecoveryInPlace, RemovedIsStale, JlHolding, JlRecovering
  <2>3. LiveIsYoung
    BY DEF JournalLockInit, LiveIsYoung, JlNoFile
  <2>. QED  BY <2>1, <2>2, <2>3 DEF LockInv
<1>. QED  BY <1>1, LockStep, PTL DEF JournalLockSpec

\* One process at a time writes the journal, with its lock file in place, for any number
\* of processes, deaths and failed writes, unless a recovery file was taken in use.
THEOREM JournalIsWrittenByOne == JournalLockSpec => []JournalLockExclusive
<1>1. LockInv => JournalLockExclusive
  BY DEF LockInv, LockInPlace, JournalLockExclusive, JlHolding
<1>. QED  BY <1>1, JournalLockInvariance, PTL

\* What a process comes to hold was open under its own name, so nobody else had it; all other
\* steps let go of the lock or leave those who hold it alone.
LEMMA StepJlHolders ==
  LockInv /\ [JournalLockNext]_jlVars => [JlMutex!Next]_(JlMutex!vars)
<1> SUFFICES ASSUME LockInv, JournalLockNext PROVE [JlMutex!Next]_(JlMutex!vars)
  BY DEF jlVars, JlHolders, JlMutex!vars
<1> USE DEF JlMutex!vars, JlMutex!Next, JlHolders, JlHolding, JlGoto
<1>t. jlPc \in [JlProcs -> JlLabels] /\ jlNext \in [JlProcs -> {"open", "judge"}] /\ jlTaken \in BOOLEAN
  BY DEF LockInv, JournalLockTypeOK
<1>1. ASSUME NEW p \in JlProcs,
             \/ JlCall(p) \/ JlStat(p) \/ JlOpen(p) \/ JlJudge(p) \/ JlClaim(p) \/ JlName(p)
             \/ JlRejudge(p) \/ JlRemove(p) \/ JlUnclaim(p) \/ JlDrop(p) \/ JlReclaim(p)
      PROVE  UNCHANGED <<JlHolders, jlTaken>>
  BY <1>1, <1>t DEF JlCall, JlStat, JlOpen, JlJudge, JlClaim, JlName, JlRejudge, JlRemove,
     JlUnclaim, JlDrop, JlReclaim, JlRetries
<1>2. ASSUME NEW p \in JlProcs, JlRelease(p) \/ JlUnlock(p) \/ JlCrash(p)
      PROVE  JlMutex!LetGo(p) \/ UNCHANGED <<JlHolders, jlTaken>>
  <2>1. /\ UNCHANGED jlTaken
        /\ \/ jlPc' = [jlPc EXCEPT ![p] = "idle"]
           \/ jlPc[p] = "held" /\ jlPc' = [jlPc EXCEPT ![p] = "unlock"]
    BY <1>2 DEF JlRelease, JlUnlock, JlCrash
  <2>. QED  BY <2>1, <1>t DEF JlMutex!LetGo
<1>3. ASSUME NEW p \in JlProcs, JlTake(p) \/ JlCheck(p)
      PROVE  UNCHANGED JlHolders /\ jlTaken' \in {jlTaken, TRUE}
  BY <1>3, <1>t DEF JlTake, JlCheck
<1>4. ASSUME NEW p \in JlProcs, JlOwner(p)
      PROVE  JlMutex!Take(p) \/ UNCHANGED <<JlHolders, jlTaken>>
  <2>1. jlTaken \/ JlHolders = {}
    BY <1>4 DEF LockInv, LockInPlace, JlOwner
  <2>2. UNCHANGED jlTaken /\ JlHolders' \in {JlHolders, JlHolders \cup {p}}
    BY <1>4, <1>t DEF JlOwner
  <2>. QED  BY <2>1, <2>2 DEF JlMutex!Take
<1>5. CASE JlAge
  BY <1>5 DEF JlAge
<1>. QED
  BY <1>1, <1>2, <1>3, <1>4, <1>5 DEF JournalLockNext, JlMutex!Break

\* The lock of the journal is the mutex CodexJournal takes it for, for any number of
\* processes, until a recovery file is taken from the process that uses it.
THEOREM JournalLockRefinement == JournalLockSpec => JournalLockIsMutex
<1>1. JournalLockInit => JlMutex!Init
  BY DEF JournalLockInit, JlMutex!Init, JlHolders, JlHolding
<1>. QED
  BY <1>1, JournalLockInvariance, StepJlHolders, PTL
  DEF JournalLockSpec, JournalLockIsMutex, JlMutex!Spec

-------------------------------------------------------------------------------
(***************************************************************************)
(* The numbers of the turns.  Whatever is appended, the pairs of an id and *)
(* its number change only when an id is new, and then its number is larger *)
(* than all others.  A response that the journal knows, or is about to be  *)
(* told, belongs to a request that was numbered before the response could  *)
(* be continued.                                                           *)
(***************************************************************************)
\* The shape of the entries, whatever the payloads are (members of B).
RequestsOf(B) == [kind : {"request"}, id : JrIds, ord : Nat \ {0}, status : JrStatuses, input : B]
EntriesOf(B)  == RequestsOf(B) \cup JrResponses
AnswersOf(B)  == [id : JrIds \cup {JrNone}, kind : JrKinds, holds : B]
LocalsOf(B)   == [id : JrIds \cup {JrNone}, journaled : BOOLEAN, kind : JrKinds, input : B,
                  answer : JrHeads, status : JrStatuses]

ShapedBy(B) ==
  /\ JrNone \in B
  /\ jrJournal \in Seq(EntriesOf(B))
  /\ jrAnswers \in Seq(AnswersOf(B)) /\ Len(jrAnswers) <= JrMaxAnswers
  /\ jrKnown \in SUBSET (1..Len(jrAnswers))
  /\ jrPc  \in [JrClients -> JrLabels]
  /\ jrLoc \in [JrClients -> LocalsOf(B)]
  /\ \A p \in JrClients : jrLoc[p].answer \in 0..Len(jrAnswers)

Shaped == \E B : ShapedBy(B)

Numbers == {[id |-> jrJournal[k].id, ord |-> jrJournal[k].ord] :
            k \in {l \in DOMAIN jrJournal : jrJournal[l].kind = "request"}}

Numbered ==
  /\ \A m, n \in Numbers : m.id = n.id <=> m.ord = n.ord
  /\ \A n \in Numbers : n.ord <= Cardinality(JrSeenIds) /\ n.id.prev <= Len(jrAnswers)

\* r answers the request i, and what continues r has larger numbers.
Answered(r, i) ==
  /\ r \in 1..Len(jrAnswers) /\ jrAnswers[r].id = i /\ i \in JrSeenIds
  /\ \A m, n \in Numbers : m.id = i /\ n.id.prev = r => m.ord < n.ord

AnsweredByClients ==
  \A p \in JrClients :
    LET l == jrLoc[p]
    IN  /\ jrPc[p] \in {"response", "status"} => l.journaled
        /\ l.journaled => l.id \in JrSeenIds
        /\ l.journaled /\ l.answer # 0 => Answered(l.answer, l.id)

AnsweredInJournal ==
  \A k \in DOMAIN jrJournal :
    LET e == jrJournal[k]
    IN  e.kind = "response" =>
          /\ e.prev \in {0, e.id.prev} /\ e.id \in JrSeenIds
          /\ e.answer # 0 => Answered(e.answer, e.id)

NumbersInv == Shaped /\ Numbered /\ AnsweredByClients /\ AnsweredInJournal

-------------------------------------------------------------------------------
\* Where there is a number there is a least one.
LEMMA LeastNumber ==
  ASSUME NEW S \in SUBSET Nat, S # {}
  PROVE  \E n \in S : \A m \in S : n <= m
<1>. DEFINE R == OpToRel(<, Nat)
<1>1. \A x, y \in Nat : y < x => <<y, x>> \in R
  BY DEF OpToRel
<1>2. IsWellFoundedOn(R, Nat)
  BY NatLessThanWellFounded
<1>. HIDE DEF R
<1>3. PICK n \in S : \A m \in S : ~(<<m, n>> \in R)
  BY <1>2, WFMin
<1>4. ASSUME NEW m \in S PROVE n <= m
  <2>1. ~(m < n)
    BY <1>1, <1>3, Zenon
  <2>. QED  BY <2>1
<1>. QED  BY <1>4

\* JrLast finds the last of some entries.
LEMMA LastOfEntries ==
  ASSUME NEW N \in Nat, NEW S \in SUBSET (1..N), S # {}
  PROVE  JrLast(S) \in S
<1>. DEFINE T == {N - k : k \in S}
<1>1. T \in SUBSET Nat /\ T # {}
  <2>1. \A k \in S : N - k \in Nat
    OBVIOUS
  <2>. QED  BY <2>1
<1>. HIDE DEF T
<1>2. PICK x \in T : \A y \in T : x <= y
  BY <1>1, LeastNumber
<1>3. \E k \in S : \A l \in S : l <= k
  BY <1>2 DEF T
<1>. QED  BY <1>3 DEF JrLast

LEMMA ShapeGrows ==
  ASSUME NEW B, NEW C, B \subseteq C, ShapedBy(B)
  PROVE  ShapedBy(C)
<1>1. EntriesOf(B) \subseteq EntriesOf(C) /\ AnswersOf(B) \subseteq AnswersOf(C)
      /\ LocalsOf(B) \subseteq LocalsOf(C)
  BY DEF EntriesOf, RequestsOf, AnswersOf, LocalsOf
<1>2. jrJournal \in Seq(EntriesOf(C))
  BY <1>1 DEF ShapedBy
<1>3. jrAnswers \in Seq(AnswersOf(C))
  BY <1>1 DEF ShapedBy
<1>4. jrLoc \in [JrClients -> LocalsOf(C)]
  BY <1>1 DEF ShapedBy
<1>. QED  BY <1>2, <1>3, <1>4 DEF ShapedBy

\* What the journal says of a request, for one shape of its entries.
LEMMA RequestsAreSeen ==
  ASSUME NEW B, ShapedBy(B)
  PROVE  /\ IsFiniteSet(JrSeenIds) /\ JrSeenIds \subseteq JrIds
         /\ Numbers \subseteq [id : JrSeenIds, ord : Nat]
         /\ \A i : i \in JrSeenIds <=> JrOf(i) # {}
         /\ \A i \in JrSeenIds : /\ JrEntry(i) \in RequestsOf(B) /\ JrEntry(i).id = i
                                 /\ [id |-> i, ord |-> JrEntry(i).ord] \in Numbers
<1>. DEFINE R == {l \in DOMAIN jrJournal : jrJournal[l].kind = "request"}
<1>j. jrJournal \in Seq(EntriesOf(B)) /\ Len(jrJournal) \in Nat /\ DOMAIN jrJournal = 1..Len(jrJournal)
  BY DEF ShapedBy
<1>1. \A k \in R : jrJournal[k] \in RequestsOf(B)
  BY <1>j DEF EntriesOf, JrResponses
<1>2. IsFiniteSet(R)
  <2>1. IsFiniteSet(1..Len(jrJournal))
    BY <1>j, FS_Interval
  <2>2. R \in SUBSET (1..Len(jrJournal))
    BY <1>j
  <2>. HIDE DEF R
  <2>. QED  BY <2>1, <2>2, FS_Subset
<1>3. IsFiniteSet(JrSeenIds)
  <2>. DEFINE f == [k \in R |-> jrJournal[k].id]
  <2>1. f \in Surjection(R, JrSeenIds)
    BY DEF JrSeenIds, Surjection
  <2>. HIDE DEF R, f
  <2>. QED  BY <1>2, <2>1, FS_Surjection
<1>4. JrSeenIds \subseteq JrIds
  BY <1>1 DEF JrSeenIds, RequestsOf
<1>5. Numbers \subseteq [id : JrSeenIds, ord : Nat]
  BY <1>1 DEF Numbers, JrSeenIds, RequestsOf
<1>6. \A i : i \in JrSeenIds <=> JrOf(i) # {}
  BY DEF JrSeenIds, JrOf
<1>7. ASSUME NEW i \in JrSeenIds
      PROVE  /\ JrEntry(i) \in RequestsOf(B) /\ JrEntry(i).id = i
             /\ [id |-> i, ord |-> JrEntry(i).ord] \in Numbers
  <2>1. JrOf(i) \in SUBSET (1..Len(jrJournal)) /\ JrOf(i) # {}
    BY <1>6, <1>j DEF JrOf
  <2>2. JrLast(JrOf(i)) \in JrOf(i)
    BY <2>1, <1>j, LastOfEntries
  <2>3. JrLast(JrOf(i)) \in R /\ JrEntry(i).id = i
    BY <2>2 DEF JrOf, JrEntry
  <2>. QED  BY <2>3, <1>1 DEF JrEntry, Numbers
<1>. QED  BY <1>3, <1>4, <1>5, <1>6, <1>7

LEMMA Appending ==
  ASSUME NEW B, jrJournal \in Seq(EntriesOf(B)), NEW e \in EntriesOf(B),
         jrJournal' = Append(jrJournal, e)
  PROVE  /\ jrJournal' \in Seq(EntriesOf(B))
         /\ \A k \in DOMAIN jrJournal' : \/ k \in DOMAIN jrJournal /\ jrJournal'[k] = jrJournal[k]
                                         \/ k \notin DOMAIN jrJournal /\ jrJournal'[k] = e
         /\ e.kind = "request" =>
              /\ Numbers' = Numbers \cup {[id |-> e.id, ord |-> e.ord]}
              /\ JrSeenIds' = JrSeenIds \cup {e.id}
         /\ e.kind = "response" => Numbers' = Numbers /\ JrSeenIds' = JrSeenIds
<1>1. /\ jrJournal' \in Seq(EntriesOf(B))
      /\ \A k \in DOMAIN jrJournal : k \in DOMAIN jrJournal' /\ jrJournal'[k] = jrJournal[k]
      /\ Len(jrJournal) + 1 \in DOMAIN jrJournal' /\ jrJournal'[Len(jrJournal) + 1] = e
      /\ \A k \in DOMAIN jrJournal' : k \in DOMAIN jrJournal \/ k = Len(jrJournal) + 1
      /\ Len(jrJournal) + 1 \notin DOMAIN jrJournal
  OBVIOUS
<1>2. \A k \in DOMAIN jrJournal' : \/ k \in DOMAIN jrJournal /\ jrJournal'[k] = jrJournal[k]
                                   \/ k \notin DOMAIN jrJournal /\ jrJournal'[k] = e
  BY <1>1
<1>3. ASSUME e.kind = "request"
      PROVE  /\ Numbers' = Numbers \cup {[id |-> e.id, ord |-> e.ord]}
             /\ JrSeenIds' = JrSeenIds \cup {e.id}
  <2>1. {l \in DOMAIN jrJournal' : jrJournal'[l].kind = "request"}
        = {l \in DOMAIN jrJournal : jrJournal[l].kind = "request"} \cup {Len(jrJournal) + 1}
    BY <1>1, <1>3
  <2>2. Numbers' = Numbers \cup {[id |-> e.id, ord |-> e.ord]}
    BY <1>1, <2>1 DEF Numbers
  <2>3. JrSeenIds' = JrSeenIds \cup {e.id}
    BY <1>1, <2>1 DEF JrSeenIds
  <2>. QED  BY <2>2, <2>3
<1>4. ASSUME e.kind = "response" PROVE Numbers' = Numbers /\ JrSeenIds' = JrSeenIds
  <2>1. {l \in DOMAIN jrJournal' : jrJournal'[l].kind = "request"}
        = {l \in DOMAIN jrJournal : jrJournal[l].kind = "request"}
    BY <1>1, <1>4
  <2>2. Numbers' = Numbers
    BY <1>1, <2>1 DEF Numbers
  <2>3. JrSeenIds' = JrSeenIds
    BY <1>1, <2>1 DEF JrSeenIds
  <2>. QED  BY <2>2, <2>3
<1>5. jrJournal' \in Seq(EntriesOf(B))
  BY <1>1
<1>. QED  BY <1>2, <1>3, <1>4, <1>5

-------------------------------------------------------------------------------
\* What an action may append.
PendingWritten(i) == JrOf(i) = {} /\ i \in JrIds /\ i.prev <= Len(jrAnswers)
                     /\ jrJournal' = Append(jrJournal, JrPending(i))
UpdateWritten(l)   == l.id \in JrSeenIds /\ jrJournal' = Append(jrJournal, JrUpdate(l))
ResponseWritten(l) == /\ l.id \in JrSeenIds
                      /\ l.answer # 0 => Answered(l.answer, l.id)
                      /\ jrJournal' = Append(jrJournal, JrResponse(l))

Written(B) ==
  \/ UNCHANGED jrJournal
  \/ \E i \in JrIds : PendingWritten(i)
  \/ \E l \in LocalsOf(B) : UpdateWritten(l) \/ ResponseWritten(l)

NumbersGrow ==
  /\ Numbers \subseteq Numbers' /\ JrSeenIds \subseteq JrSeenIds'
  /\ \A n \in Numbers' : n \in Numbers \/ (n.id \notin JrSeenIds /\ n.ord = Cardinality(JrSeenIds) + 1)

AnswersGrow ==
  /\ Len(jrAnswers) \in Nat /\ Len(jrAnswers') \in Nat /\ Len(jrAnswers) <= Len(jrAnswers')
  /\ \A r \in 1..Len(jrAnswers) : jrAnswers'[r] = jrAnswers[r]

\* An append keeps the numbers of the requests, and a new one is larger than all.
LEMMA WritesAreNumbered ==
  ASSUME NEW B, ShapedBy(B), Numbered, AnswersGrow, Written(B)
  PROVE  Numbered' /\ NumbersGrow /\ jrJournal' \in Seq(EntriesOf(B))
<1>s. /\ IsFiniteSet(JrSeenIds) /\ JrSeenIds \subseteq JrIds
      /\ Numbers \subseteq [id : JrSeenIds, ord : Nat]
      /\ \A i : i \in JrSeenIds <=> JrOf(i) # {}
      /\ \A i \in JrSeenIds : /\ JrEntry(i) \in RequestsOf(B) /\ JrEntry(i).id = i
                              /\ [id |-> i, ord |-> JrEntry(i).ord] \in Numbers
  BY RequestsAreSeen
<1>c. Cardinality(JrSeenIds) \in Nat
  BY <1>s, FS_CardinalityType
<1>j. jrJournal \in Seq(EntriesOf(B))
  BY DEF ShapedBy
<1>h. \A i \in JrIds : i.prev \in Nat
  BY CodexJournalAssumption DEF JrIds, JrHeads
<1>0. ASSUME Numbers' = Numbers, JrSeenIds' = JrSeenIds PROVE Numbered' /\ NumbersGrow
  <2>1. NumbersGrow
    BY <1>0 DEF NumbersGrow
  <2>2. \A n \in Numbers : n.id.prev \in Nat
    BY <1>s, <1>h
  <2>. QED  BY <1>0, <2>1, <2>2 DEF Numbered, AnswersGrow
<1>1. CASE UNCHANGED jrJournal
  <2>1. Numbers' = Numbers /\ JrSeenIds' = JrSeenIds
    BY <1>1 DEF Numbers, JrSeenIds
  <2>. QED  BY <1>1, <1>0, <2>1, <1>j
<1>2. ASSUME NEW i \in JrIds, PendingWritten(i)
      PROVE  Numbered' /\ NumbersGrow /\ jrJournal' \in Seq(EntriesOf(B))
  <2>. PICK e : e = JrPending(i)
    OBVIOUS
  <2>1. i \notin JrSeenIds
    BY <1>2, <1>s DEF PendingWritten
  <2>2. e = [kind |-> "request", id |-> i, ord |-> Cardinality(JrSeenIds) + 1,
             status |-> "pending", input |-> JrNone]
    BY DEF JrPending, JrNextOrdinal
  <2>3. e \in EntriesOf(B)
    BY <2>2, <1>c DEF EntriesOf, RequestsOf, JrStatuses, ShapedBy
  <2>4. jrJournal' = Append(jrJournal, e)
    BY <1>2 DEF PendingWritten
  <2>5. /\ jrJournal' \in Seq(EntriesOf(B))
        /\ e.kind = "request" => /\ Numbers' = Numbers \cup {[id |-> e.id, ord |-> e.ord]}
                                 /\ JrSeenIds' = JrSeenIds \cup {e.id}
    BY <1>j, <2>3, <2>4, Appending
  <2>6. /\ Numbers' = Numbers \cup {[id |-> i, ord |-> Cardinality(JrSeenIds) + 1]}
        /\ JrSeenIds' = JrSeenIds \cup {i}
    BY <2>5, <2>2
  <2>7. Cardinality(JrSeenIds') = Cardinality(JrSeenIds) + 1
    BY <2>6, <2>1, <1>s, FS_AddElement
  <2>8. NumbersGrow
    BY <2>6, <2>1, <1>c DEF NumbersGrow
  <2>9. Numbered'
    <3>1. \A n \in Numbers' : n.id.prev <= Len(jrAnswers')
      BY <2>6, <1>2, <1>s, <1>h DEF Numbered, AnswersGrow, PendingWritten
    <3>2. \A n \in Numbers' : n.ord <= Cardinality(JrSeenIds')
      BY <2>6, <2>7, <1>c, <1>s DEF Numbered
    <3>3. \A m, n \in Numbers' : m.id = n.id <=> m.ord = n.ord
      BY <2>6, <2>1, <1>c, <1>s DEF Numbered
    <3>. QED  BY <3>1, <3>2, <3>3 DEF Numbered
  <2>. QED  BY <2>5, <2>8, <2>9
<1>3. ASSUME NEW l \in LocalsOf(B), UpdateWritten(l)
      PROVE  Numbered' /\ NumbersGrow /\ jrJournal' \in Seq(EntriesOf(B))
  <2>. PICK e : e = JrUpdate(l)
    OBVIOUS
  <2>. PICK f : f = JrEntry(l.id)
    OBVIOUS
  <2>1. f \in RequestsOf(B) /\ f.id = l.id /\ [id |-> l.id, ord |-> f.ord] \in Numbers
    BY <1>s, <1>3 DEF UpdateWritten
  <2>2. e = [f EXCEPT !.status = l.status, !.input = IF @ = JrNone THEN l.input ELSE @]
    BY DEF JrUpdate
  <2>3. e \in RequestsOf(B) /\ e.id = f.id /\ e.ord = f.ord /\ e.kind = "request"
    BY <2>1, <2>2 DEF RequestsOf, LocalsOf
  <2>4. jrJournal' = Append(jrJournal, e) /\ e \in EntriesOf(B)
    BY <1>3, <2>3 DEF UpdateWritten, EntriesOf
  <2>5. /\ jrJournal' \in Seq(EntriesOf(B))
        /\ e.kind = "request" => /\ Numbers' = Numbers \cup {[id |-> e.id, ord |-> e.ord]}
                                 /\ JrSeenIds' = JrSeenIds \cup {e.id}
    BY <1>j, <2>4, Appending
  <2>6. Numbers' = Numbers /\ JrSeenIds' = JrSeenIds
    BY <2>5, <2>3, <2>1, <1>3 DEF UpdateWritten
  <2>. QED  BY <2>5, <2>6, <1>0
<1>4. ASSUME NEW l \in LocalsOf(B), ResponseWritten(l)
      PROVE  Numbered' /\ NumbersGrow /\ jrJournal' \in Seq(EntriesOf(B))
  <2>. PICK e : e = JrResponse(l)
    OBVIOUS
  <2>1. e \in EntriesOf(B) /\ e.kind = "response"
    <3>1. l.id \in JrIds /\ l.answer \in JrHeads /\ l.status \in JrStatuses
      BY <1>4, <1>s DEF ResponseWritten, LocalsOf
    <3>2. (IF l.kind \in JrFresh THEN 0 ELSE l.id.prev) \in JrHeads
      BY <3>1, CodexJournalAssumption DEF JrIds, JrHeads
    <3>. QED  BY <3>1, <3>2 DEF JrResponse, EntriesOf, JrResponses
  <2>2. jrJournal' = Append(jrJournal, e)
    BY <1>4 DEF ResponseWritten
  <2>3. /\ jrJournal' \in Seq(EntriesOf(B))
        /\ e.kind = "response" => Numbers' = Numbers /\ JrSeenIds' = JrSeenIds
    BY <1>j, <2>1, <2>2, Appending
  <2>. QED  BY <2>1, <2>3, <1>0
<1>. QED  BY <1>1, <1>2, <1>3, <1>4 DEF Written

LEMMA AnsweredStays ==
  ASSUME NEW r, NEW i, Shaped, Numbered, NumbersGrow, AnswersGrow, Answered(r, i)
  PROVE  Answered(r, i)'
<1>. PICK B : ShapedBy(B)
  BY DEF Shaped
<1>1. IsFiniteSet(JrSeenIds) /\ Numbers \subseteq [id : JrSeenIds, ord : Nat]
  BY RequestsAreSeen
<1>2. Cardinality(JrSeenIds) \in Nat
  BY <1>1, FS_CardinalityType
<1>3. ASSUME NEW m \in Numbers', NEW n \in Numbers', m.id = i, n.id.prev = r PROVE m.ord < n.ord
  <2>1. m \in Numbers
    BY <1>3 DEF NumbersGrow, Answered
  <2>2. CASE n \in Numbers
    BY <1>3, <2>1, <2>2 DEF Answered
  <2>3. CASE n \notin Numbers
    <3>1. m.ord \in Nat /\ m.ord <= Cardinality(JrSeenIds)
      BY <2>1, <1>1 DEF Numbered
    <3>2. n.ord = Cardinality(JrSeenIds) + 1
      BY <2>3 DEF NumbersGrow
    <3>. QED  BY <3>1, <3>2, <1>2
  <2>. QED  BY <2>2, <2>3
<1>4. r \in 1..Len(jrAnswers') /\ jrAnswers'[r].id = i /\ i \in JrSeenIds'
  BY DEF Answered, AnswersGrow, NumbersGrow
<1>. QED  BY <1>3, <1>4 DEF Answered

LEMMA JournalKnowsAnswers ==
  ASSUME NEW B, ShapedBy(B), Numbered, AnsweredInJournal, AnswersGrow, Written(B)
  PROVE  AnsweredInJournal'
<1>. Numbered' /\ NumbersGrow
  BY WritesAreNumbered
<1>s. Shaped
  BY DEF Shaped
<1>i. /\ \A i \in JrSeenIds : i \in JrSeenIds'
      /\ \A r, i : Answered(r, i) => Answered(r, i)'
  <2>1. ASSUME NEW r, NEW i, Answered(r, i) PROVE Answered(r, i)'
    BY <2>1, <1>s, AnsweredStays
  <2>. QED  BY <2>1 DEF NumbersGrow
<1>j. jrJournal \in Seq(EntriesOf(B))
  BY DEF ShapedBy
<1>1. CASE UNCHANGED jrJournal
  BY <1>1, <1>i DEF AnsweredInJournal
<1>2. ASSUME NEW e \in EntriesOf(B), jrJournal' = Append(jrJournal, e),
             e.kind = "response" => /\ e.prev \in {0, e.id.prev} /\ e.id \in JrSeenIds
                                    /\ e.answer # 0 => Answered(e.answer, e.id)
      PROVE  AnsweredInJournal'
  <2>1. \A k \in DOMAIN jrJournal' : (k \in DOMAIN jrJournal /\ jrJournal'[k] = jrJournal[k])
                                     \/ (k \notin DOMAIN jrJournal /\ jrJournal'[k] = e)
    BY <1>2, <1>j, Appending
  <2>. QED  BY <2>1, <1>2, <1>i DEF AnsweredInJournal
<1>3. ASSUME NEW i \in JrIds, PendingWritten(i) PROVE AnsweredInJournal'
  <2>. PICK e : e = JrPending(i)
    OBVIOUS
  <2>1. e.kind = "request" /\ jrJournal' = Append(jrJournal, e)
    BY <1>3 DEF JrPending, PendingWritten
  <2>2. e \in EntriesOf(B)
    <3>1. Cardinality(JrSeenIds) \in Nat
      BY RequestsAreSeen, FS_CardinalityType
    <3>. QED  BY <3>1 DEF JrPending, JrNextOrdinal, EntriesOf, RequestsOf, JrStatuses, ShapedBy
  <2>. QED  BY <2>1, <2>2, <1>2
<1>4. ASSUME NEW l \in LocalsOf(B), UpdateWritten(l) PROVE AnsweredInJournal'
  <2>. PICK e : e = JrUpdate(l)
    OBVIOUS
  <2>. PICK f : f = JrEntry(l.id)
    OBVIOUS
  <2>1. f \in RequestsOf(B)
    BY <1>4, RequestsAreSeen DEF UpdateWritten
  <2>2. e = [f EXCEPT !.status = l.status, !.input = IF @ = JrNone THEN l.input ELSE @]
    BY DEF JrUpdate
  <2>3. e \in RequestsOf(B) /\ e.kind = "request"
    BY <2>1, <2>2 DEF RequestsOf, LocalsOf
  <2>4. jrJournal' = Append(jrJournal, e) /\ e \in EntriesOf(B)
    BY <1>4, <2>3 DEF UpdateWritten, EntriesOf
  <2>. QED  BY <2>3, <2>4, <1>2
<1>5. ASSUME NEW l \in LocalsOf(B), ResponseWritten(l) PROVE AnsweredInJournal'
  <2>. PICK e : e = JrResponse(l)
    OBVIOUS
  <2>1. /\ e.kind = "response" /\ e.prev \in {0, l.id.prev} /\ e.id = l.id
        /\ e.answer = l.answer /\ e.status = l.status
    BY DEF JrResponse
  <2>2. e \in EntriesOf(B)
    <3>1. l.id \in JrIds /\ l.answer \in JrHeads /\ l.status \in JrStatuses
      BY <1>5, RequestsAreSeen DEF ResponseWritten, LocalsOf
    <3>2. (IF l.kind \in JrFresh THEN 0 ELSE l.id.prev) \in JrHeads
      BY <3>1, CodexJournalAssumption DEF JrIds, JrHeads
    <3>. QED  BY <3>1, <3>2 DEF JrResponse, EntriesOf, JrResponses
  <2>3. jrJournal' = Append(jrJournal, e)
    BY <1>5 DEF ResponseWritten
  <2>. QED  BY <2>1, <2>2, <2>3, <1>5, <1>2 DEF ResponseWritten
<1>. QED  BY <1>1, <1>3, <1>4, <1>5 DEF Written

\* What a request knows after a step of the process p.
LEMMA ClientsKnowAnswers ==
  ASSUME Shaped, Numbered, AnsweredByClients, NumbersGrow, AnswersGrow,
         jrPc \in [JrClients -> JrLabels], DOMAIN jrLoc = JrClients, jrLoc = [q \in JrClients |-> jrLoc[q]],
         NEW p \in JrClients, NEW label, NEW m, JrGo(p, label, m),
         label \in {"response", "status"} => m.journaled,
         m.journaled => m.id \in JrSeenIds',
         m.journaled /\ m.answer # 0 => Answered(m.answer, m.id)'
  PROVE  AnsweredByClients'
<1>1. ASSUME NEW r, NEW i, Answered(r, i) PROVE Answered(r, i)'
  BY <1>1, AnsweredStays
<1>2. /\ jrPc' = [jrPc EXCEPT ![p] = label] /\ jrLoc' = [jrLoc EXCEPT ![p] = m]
  BY DEF JrGo
<1>3. \A q \in JrClients : q # p => jrPc'[q] = jrPc[q] /\ jrLoc'[q] = jrLoc[q]
  BY <1>2
<1>4. jrPc'[p] = label /\ jrLoc'[p] = m
  BY <1>2
<1>. DEFINE After(r, i) == /\ r \in 1..Len(jrAnswers') /\ jrAnswers'[r].id = i /\ i \in JrSeenIds'
                          /\ \A x, y \in Numbers' : x.id = i /\ y.id.prev = r => x.ord < y.ord
<1>5. \A r, i : Answered(r, i) => After(r, i)
  BY <1>1 DEF Answered
<1>6. m.journaled /\ m.answer # 0 => After(m.answer, m.id)
  BY DEF Answered
<1>. HIDE DEF After
<1>7. ASSUME NEW q \in JrClients
      PROVE  /\ jrPc'[q] \in {"response", "status"} => jrLoc'[q].journaled
             /\ jrLoc'[q].journaled => jrLoc'[q].id \in JrSeenIds'
             /\ jrLoc'[q].journaled /\ jrLoc'[q].answer # 0
                => After(jrLoc'[q].answer, jrLoc'[q].id)
  <2>1. CASE q = p
    BY <2>1, <1>4, <1>6
  <2>2. CASE q # p
    <3>1. jrPc'[q] = jrPc[q] /\ jrLoc'[q] = jrLoc[q]
      BY <1>3, <2>2
    <3>2. jrLoc[q].journaled => jrLoc[q].id \in JrSeenIds'
      BY DEF AnsweredByClients, NumbersGrow
    <3>3. jrLoc[q].journaled /\ jrLoc[q].answer # 0 => After(jrLoc[q].answer, jrLoc[q].id)
      BY <1>5 DEF AnsweredByClients
    <3>. QED  BY <3>1, <3>2, <3>3 DEF AnsweredByClients
  <2>. QED  BY <2>1, <2>2
<1>. QED  BY <1>7 DEF AnsweredByClients, Answered, After

-------------------------------------------------------------------------------
\* What p knows of the request and its answer it knew before.
Knew(p, m) == LET l == jrLoc[p]
              IN  m.id = l.id /\ m.journaled = l.journaled /\ m.answer \in {0, l.answer}

LEMMA StepKept ==
  ASSUME Numbered, AnsweredByClients, AnsweredInJournal, NEW B, ShapedBy(B), Written(B), AnswersGrow,
         jrAnswers' \in Seq(AnswersOf(B)), Len(jrAnswers') <= JrMaxAnswers,
         jrKnown' \in SUBSET (1..Len(jrAnswers')),
         NEW p \in JrClients, NEW label \in JrLabels, NEW m \in LocalsOf(B), JrGo(p, label, m),
         m.answer \in 0..Len(jrAnswers'),
         label \in {"response", "status"} => m.journaled,
         m.journaled => m.id \in JrSeenIds \/ m.id \in JrSeenIds',
         m.journaled /\ m.answer # 0 => Answered(m.answer, m.id) \/ Answered(m.answer, m.id)'
  PROVE  NumbersInv'
<1>1. Numbered' /\ NumbersGrow /\ jrJournal' \in Seq(EntriesOf(B))
  BY WritesAreNumbered
<1>2. AnsweredInJournal'
  BY JournalKnowsAnswers
<1>s. Shaped
  BY DEF Shaped
<1>3. AnsweredByClients'
  <2>1. m.journaled => m.id \in JrSeenIds'
    BY <1>1 DEF NumbersGrow
  <2>2. m.journaled /\ m.answer # 0 => Answered(m.answer, m.id)'
    BY <1>1, <1>s, AnsweredStays
  <2>3. jrPc \in [JrClients -> JrLabels] /\ DOMAIN jrLoc = JrClients
        /\ jrLoc = [q \in JrClients |-> jrLoc[q]]
    BY DEF ShapedBy
  <2>. QED  BY <1>1, <1>s, <2>1, <2>2, <2>3, ClientsKnowAnswers
<1>4. ShapedBy(B)'
  <2>1. jrPc' \in [JrClients -> JrLabels] /\ jrLoc' \in [JrClients -> LocalsOf(B)]
    BY DEF ShapedBy, JrGo
  <2>2. \A q \in JrClients : jrLoc'[q].answer \in 0..Len(jrAnswers')
    BY DEF ShapedBy, JrGo, AnswersGrow
  <2>. QED  BY <1>1, <2>1, <2>2 DEF ShapedBy
<1>. QED  BY <1>1, <1>2, <1>3, <1>4 DEF NumbersInv, Shaped

\* A step of p that no response is completed by.
LEMMA StepWithoutAnswer ==
  ASSUME Numbered, AnsweredByClients, AnsweredInJournal, NEW B, ShapedBy(B), Written(B),
         UNCHANGED jrAnswers, NEW p \in JrClients,
         jrKnown' \in {jrKnown, jrKnown \cup ({jrLoc[p].answer} \ {0})},
         NEW label \in JrLabels, NEW m \in LocalsOf(B), JrGo(p, label, m),
         label \in {"response", "status"} => m.journaled,
         m.answer \in {0, jrLoc[p].answer},
         m.journaled => Knew(p, m) \/ (m.answer = 0 /\ m.id \in JrSeenIds')
  PROVE  NumbersInv'
<1>1. Len(jrAnswers) \in Nat /\ jrLoc[p].answer \in 0..Len(jrAnswers) /\ jrLoc[p].answer \in Nat
  BY DEF ShapedBy
<1>2. AnswersGrow
  BY <1>1 DEF AnswersGrow
<1>3. jrKnown' \in SUBSET (1..Len(jrAnswers'))
  BY <1>1 DEF ShapedBy
<1>4. /\ m.journaled => m.id \in JrSeenIds \/ m.id \in JrSeenIds'
      /\ m.journaled /\ m.answer # 0 => Answered(m.answer, m.id)
  BY DEF Knew, AnsweredByClients
<1>5. jrAnswers' \in Seq(AnswersOf(B)) /\ Len(jrAnswers') <= JrMaxAnswers
  BY DEF ShapedBy
<1>6. m.answer \in 0..Len(jrAnswers')
  BY <1>1
<1>. QED  BY <1>2, <1>3, <1>4, <1>5, <1>6, StepKept

-------------------------------------------------------------------------------
LEMMA NumbersStep == NumbersInv /\ [JournalNext]_jrVars => NumbersInv'
<1>. SUFFICES ASSUME NumbersInv, [JournalNext]_jrVars PROVE NumbersInv'
  OBVIOUS
<1>v. Numbered /\ AnsweredByClients /\ AnsweredInJournal
  BY DEF NumbersInv
<1>. PICK B : ShapedBy(B)
  BY DEF NumbersInv, Shaped
<1>n. JrNone \in B /\ 0 \in JrHeads
  BY CodexJournalAssumption DEF ShapedBy, JrHeads
<1>l. \A p \in JrClients : jrLoc[p] \in LocalsOf(B)
  BY DEF ShapedBy
<1>e. JrNoLocal \in LocalsOf(B) /\ JrNoLocal.answer = 0 /\ JrNoLocal.journaled = FALSE
  BY <1>n DEF JrNoLocal, LocalsOf, JrKinds, JrStatuses
<1>f. ASSUME NEW p \in JrClients, Written(B), UNCHANGED jrAnswers, JrFallBack(p),
             jrKnown' \in {jrKnown, jrKnown \cup ({jrLoc[p].answer} \ {0})}
      PROVE  NumbersInv'
  <2>. PICK m : m = [jrLoc[p] EXCEPT !.kind = "original", !.input = JrNone, !.answer = 0,
                                      !.status = "pending"]
    OBVIOUS
  <2>1. m \in LocalsOf(B) /\ m.answer = 0 /\ m.id = jrLoc[p].id /\ m.journaled = jrLoc[p].journaled
    BY <1>l, <1>n DEF LocalsOf, JrKinds, JrStatuses
  <2>2. JrGo(p, "wait", m) /\ "wait" \in JrLabels
    BY <1>f DEF JrFallBack, JrLabels
  <2>. QED  BY <1>f, <1>v, <2>1, <2>2, StepWithoutAnswer DEF Knew
<1>d. ASSUME NEW p \in JrClients, Written(B), UNCHANGED jrAnswers, JrEnd(p),
             jrKnown' \in {jrKnown, jrKnown \cup ({jrLoc[p].answer} \ {0})}
      PROVE  NumbersInv'
  <2>. PICK m : m = JrNoLocal
    OBVIOUS
  <2>1. JrGo(p, "idle", m) /\ "idle" \in JrLabels
    BY <1>d DEF JrEnd, JrLabels
  <2>. QED  BY <1>d, <1>v, <1>e, <2>1, StepWithoutAnswer
<1>g. ASSUME NEW p \in JrClients, Written(B), UNCHANGED jrAnswers, NEW label \in JrLabels,
             JrGo(p, label, jrLoc[p]), label \in {"response", "status"} => jrLoc[p].journaled,
             jrKnown' = jrKnown
      PROVE  NumbersInv'
  <2>. PICK m : m = jrLoc[p]
    OBVIOUS
  <2>1. m \in LocalsOf(B) /\ JrGo(p, label, m)
    BY <1>g, <1>l
  <2>. QED  BY <1>g, <1>v, <2>1, StepWithoutAnswer DEF Knew
<1>1. ASSUME NEW p \in JrClients, JournalReceive(p) PROVE NumbersInv'
  <2>1. PICK i \in [prev : jrKnown \cup {0}, text : JrTexts], ok \in BOOLEAN :
          /\ JrGo(p, "route", [JrNoLocal EXCEPT !.id = i, !.journaled = ok])
          /\ \/ UNCHANGED jrJournal
             \/ JrOf(i) = {} /\ jrJournal' = Append(jrJournal, JrPending(i))
          /\ ok => \/ JrOf(i) # {}
                   \/ JrOf(i) = {} /\ jrJournal' = Append(jrJournal, JrPending(i))
    BY <1>1 DEF JournalReceive, JrAppends, JrThrows
  <2>2. i \in JrIds /\ i.prev <= Len(jrAnswers)
    <3>1. jrKnown \in SUBSET (1..Len(jrAnswers)) /\ Len(jrAnswers) \in Nat /\ Len(jrAnswers) <= JrMaxAnswers
      BY DEF ShapedBy
    <3>2. i.prev \in jrKnown \cup {0} /\ i.text \in JrTexts /\ i = [prev |-> i.prev, text |-> i.text]
      BY <2>1
    <3>3. i.prev \in JrHeads /\ i.prev <= Len(jrAnswers)
      <4>1. i.prev \in Nat /\ i.prev <= Len(jrAnswers)
        <5>1. CASE i.prev = 0
          BY <5>1, <3>1
        <5>2. CASE i.prev \in jrKnown
          <6>1. i.prev \in 1..Len(jrAnswers)
            BY <5>2, <3>1, Zenon
          <6>. QED  BY <6>1, <3>1
        <5>. QED  BY <5>1, <5>2, <3>2
      <4>. QED  BY <4>1, <3>1, CodexJournalAssumption DEF JrHeads
    <3>. QED  BY <3>2, <3>3 DEF JrIds
  <2>3. Written(B)
    BY <2>1, <2>2 DEF Written, PendingWritten
  <2>4. UNCHANGED <<jrAnswers, jrKnown>>
    BY <1>1 DEF JournalReceive
  <2>5. AnswersGrow
    BY <2>4 DEF AnswersGrow, ShapedBy
  <2>6. NumbersGrow
    BY <1>v, <2>3, <2>5, WritesAreNumbered
  <2>7. ok => i \in JrSeenIds'
    <3>1. CASE JrOf(i) # {}
      BY <3>1, <2>6, RequestsAreSeen DEF NumbersGrow
    <3>2. CASE jrJournal' = Append(jrJournal, JrPending(i))
      <4>. PICK e : e = JrPending(i)
        OBVIOUS
      <4>1. Cardinality(JrSeenIds) \in Nat
        BY RequestsAreSeen, FS_CardinalityType
      <4>2. e \in EntriesOf(B) /\ e.kind = "request" /\ e.id = i
        BY <4>1, <2>2, <1>n DEF JrPending, JrNextOrdinal, EntriesOf, RequestsOf, JrStatuses
      <4>3. jrJournal \in Seq(EntriesOf(B)) /\ jrJournal' = Append(jrJournal, e)
        BY <3>2 DEF ShapedBy
      <4>4. JrSeenIds' = JrSeenIds \cup {e.id}
        BY <4>2, <4>3, Appending
      <4>. QED  BY <4>2, <4>4
    <3>. QED  BY <2>1, <3>1, <3>2
  <2>. PICK m : m = [JrNoLocal EXCEPT !.id = i, !.journaled = ok]
    OBVIOUS
  <2>8. m \in LocalsOf(B) /\ m.answer = 0 /\ m.id = i /\ m.journaled = ok
    BY <2>2, <1>n DEF JrNoLocal, LocalsOf, JrKinds, JrStatuses
  <2>9. JrGo(p, "route", m) /\ "route" \in JrLabels
    BY <2>1 DEF JrLabels
  <2>. QED  BY <1>v, <2>3, <2>4, <2>7, <2>8, <2>9, StepWithoutAnswer
<1>2. ASSUME NEW p \in JrClients, JournalPlain(p) PROVE NumbersInv'
  <2>1. Written(B)
    BY <1>2 DEF JournalPlain, Written
  <2>. QED  BY <1>2, <1>g, <2>1 DEF JournalPlain, JrLabels
<1>3. ASSUME NEW p \in JrClients, JournalRewrite(p) PROVE NumbersInv'
  <2>1. PICK x, kind :
          kind \in JrKinds /\ JrGo(p, "wait", [jrLoc[p] EXCEPT !.kind = kind, !.input = x])
    <3>. DEFINE h == JrHolds(JrHistory(jrLoc[p].id.prev))
    <3>1. PICK X \in SUBSET {c \in JrItems : h[c] > 0} :
            JrGo(p, "wait", [jrLoc[p] EXCEPT !.kind = IF X = {} THEN "replay" ELSE "rebase",
                                             !.input = JrPayload(h, X, jrLoc[p].id.text)])
      BY <1>3, Zenon DEF JournalRewrite
    <3>. DEFINE kind == IF X = {} THEN "replay" ELSE "rebase"
                x == JrPayload(h, X, jrLoc[p].id.text)
    <3>2. kind \in JrKinds /\ JrGo(p, "wait", [jrLoc[p] EXCEPT !.kind = kind, !.input = x])
      BY <3>1 DEF JrKinds
    <3>. HIDE DEF kind, x
    <3>3. PICK y, k : y = x /\ k = kind
      OBVIOUS
    <3>4. k \in JrKinds /\ JrGo(p, "wait", [jrLoc[p] EXCEPT !.kind = k, !.input = y])
      BY <3>2, <3>3
    <3>. QED  BY <3>4
  <2>. DEFINE C == B \cup {x}
  <2>2. ShapedBy(C)
    BY ShapeGrows
  <2>3. Written(C) /\ UNCHANGED <<jrAnswers, jrKnown>>
    BY <1>3 DEF JournalRewrite, Written
  <2>. PICK m : m = [jrLoc[p] EXCEPT !.kind = kind, !.input = x]
    OBVIOUS
  <2>4. /\ m \in LocalsOf(C) /\ m.answer = jrLoc[p].answer /\ m.id = jrLoc[p].id
        /\ m.journaled = jrLoc[p].journaled
    BY <1>l, <2>1 DEF LocalsOf
  <2>5. JrGo(p, "wait", m) /\ "wait" \in JrLabels
    BY <2>1 DEF JrLabels
  <2>. HIDE DEF C
  <2>. QED  BY <1>v, <2>2, <2>3, <2>4, <2>5, StepWithoutAnswer DEF Knew
<1>4. ASSUME NEW p \in JrClients, JournalAnswer(p) PROVE NumbersInv'
  <2>. PICK x : x = JrRemembers(jrLoc[p], Len(jrAnswers) + 1)
    OBVIOUS
  <2>. PICK r : r = Len(jrAnswers) + 1
    OBVIOUS
  <2>. DEFINE C == B \cup {x}
              a == [id |-> jrLoc[p].id, kind |-> jrLoc[p].kind, holds |-> x]
  <2>1. ShapedBy(C)
    BY ShapeGrows
  <2>2. Written(C) /\ jrAnswers' = Append(jrAnswers, a) /\ Len(jrAnswers) < JrMaxAnswers
    BY <1>4 DEF JournalAnswer, Written
  <2>3. a \in AnswersOf(C) /\ a.id = jrLoc[p].id
    BY <1>l DEF LocalsOf, AnswersOf
  <2>4. jrAnswers \in Seq(AnswersOf(C)) /\ Len(jrAnswers) \in Nat /\ jrKnown \in SUBSET (1..Len(jrAnswers))
    BY <2>1 DEF ShapedBy
  <2>. HIDE DEF a, C
  <2>5. /\ jrAnswers' \in Seq(AnswersOf(C)) /\ Len(jrAnswers') = r /\ jrAnswers'[r] = a
        /\ \A q \in 1..Len(jrAnswers) : jrAnswers'[q] = jrAnswers[q]
    BY <2>2, <2>3, <2>4
  <2>6. AnswersGrow
    BY <2>4, <2>5 DEF AnswersGrow
  <2>7. r \in 1..JrMaxAnswers /\ r \in JrHeads
    BY <2>2, <2>4, CodexJournalAssumption DEF JrHeads
  <2>8. jrKnown' \in SUBSET (1..Len(jrAnswers'))
    <3>1. jrKnown' \in {jrKnown, jrKnown \cup {r}}
      BY <1>4, <2>7 DEF JournalAnswer, JrDelivers
    <3>. QED  BY <3>1, <2>4, <2>5
  <2>9. JrEnd(p) \/ (/\ jrLoc[p].journaled
                     /\ JrGo(p, "response", [jrLoc[p] EXCEPT !.answer = r, !.status = "completed"]))
    BY <1>4 DEF JournalAnswer
  <2>10. CASE JrEnd(p)
    <3>. PICK m : m = JrNoLocal
      OBVIOUS
    <3>1. JrGo(p, "idle", m) /\ "idle" \in JrLabels
      BY <2>10 DEF JrEnd, JrLabels
    <3>2. m \in LocalsOf(C)
      BY <1>e DEF LocalsOf, C
    <3>3. m.answer \in 0..Len(jrAnswers') /\ Len(jrAnswers') <= JrMaxAnswers /\ ~m.journaled
      BY <1>e, <2>5, <2>7, CodexJournalAssumption
    <3>. QED  BY <1>v, <2>1, <2>2, <2>5, <2>6, <2>8, <3>1, <3>2, <3>3, StepKept
  <2>11. CASE /\ jrLoc[p].journaled
              /\ JrGo(p, "response", [jrLoc[p] EXCEPT !.answer = r, !.status = "completed"])
    <3>. PICK m : m = [jrLoc[p] EXCEPT !.answer = r, !.status = "completed"]
      OBVIOUS
    <3>1. /\ m \in LocalsOf(C) /\ m.answer = r /\ m.id = jrLoc[p].id /\ m.journaled
      BY <1>l, <2>7, <2>11 DEF LocalsOf, JrStatuses, C
    <3>2. JrGo(p, "response", m) /\ "response" \in JrLabels
      BY <2>11 DEF JrLabels
    <3>3. m.id \in JrSeenIds
      BY <1>v, <3>1, <2>11 DEF AnsweredByClients
    <3>4. Answered(m.answer, m.id)'
      <4>1. UNCHANGED jrJournal
        BY <1>4 DEF JournalAnswer
      <4>2. JrSeenIds' = JrSeenIds /\ Numbers' = Numbers
        BY <4>1 DEF JrSeenIds, Numbers
      <4>3. \A n \in Numbers : n.id.prev # r
        BY <1>v, <2>4 DEF Numbered
      <4>4. r \in 1..Len(jrAnswers') /\ jrAnswers'[r].id = m.id
        BY <2>5, <2>7, <2>3, <3>1
      <4>. QED  BY <3>1, <3>3, <4>2, <4>3, <4>4 DEF Answered
    <3>5. m.answer \in 0..Len(jrAnswers') /\ Len(jrAnswers') <= JrMaxAnswers
      BY <3>1, <2>5, <2>7, CodexJournalAssumption
    <3>. QED  BY <1>v, <2>1, <2>2, <2>5, <2>6, <2>8, <3>1, <3>2, <3>3, <3>4, <3>5, StepKept
  <2>. QED  BY <2>9, <2>10, <2>11
<1>5. ASSUME NEW p \in JrClients, JournalNoAnswer(p) PROVE NumbersInv'
  <2>1. Written(B) /\ UNCHANGED <<jrAnswers, jrKnown>>
    BY <1>5 DEF JournalNoAnswer, Written
  <2>2. CASE JrFallBack(p)
    BY <2>1, <2>2, <1>f
  <2>3. CASE JrEnd(p)
    BY <2>1, <2>3, <1>d
  <2>4. ASSUME jrLoc[p].journaled, NEW s \in {"failed", "incomplete"},
               JrGo(p, "response", [jrLoc[p] EXCEPT !.kind = "original", !.input = JrNone, !.status = s])
        PROVE  NumbersInv'
    <3>. PICK m : m = [jrLoc[p] EXCEPT !.kind = "original", !.input = JrNone, !.status = s]
      OBVIOUS
    <3>1. /\ m \in LocalsOf(B) /\ m.answer = jrLoc[p].answer /\ m.id = jrLoc[p].id
          /\ m.journaled = jrLoc[p].journaled
      BY <1>l, <1>n DEF LocalsOf, JrKinds, JrStatuses
    <3>2. JrGo(p, "response", m) /\ "response" \in JrLabels
      BY <2>4 DEF JrLabels
    <3>. QED  BY <1>v, <2>1, <2>4, <3>1, <3>2, StepWithoutAnswer DEF Knew
  <2>. QED  BY <1>5, <2>2, <2>3, <2>4 DEF JournalNoAnswer
<1>6. ASSUME NEW p \in JrClients, JournalResponse(p) PROVE NumbersInv'
  <2>1. jrPc[p] = "response" /\ UNCHANGED jrAnswers
    BY <1>6 DEF JournalResponse
  <2>2. /\ jrLoc[p].journaled /\ jrLoc[p].id \in JrSeenIds
        /\ jrLoc[p].answer # 0 => Answered(jrLoc[p].answer, jrLoc[p].id)
    BY <1>v, <2>1 DEF AnsweredByClients
  <2>3. jrJournal' \in {jrJournal, Append(jrJournal, JrResponse(jrLoc[p]))}
    BY <1>6 DEF JournalResponse, JrAppends, JrThrows
  <2>4. Written(B)
    BY <2>2, <2>3, <1>l DEF Written, ResponseWritten
  <2>5. CASE JrGo(p, "status", jrLoc[p]) /\ UNCHANGED jrKnown
    BY <2>1, <2>2, <2>4, <2>5, <1>g DEF JrLabels
  <2>6. CASE JrUnwritten(p)
    <3>1. CASE JrFallBack(p) /\ UNCHANGED jrKnown
      BY <2>1, <2>4, <3>1, <1>f
    <3>2. CASE JrEnd(p) /\ JrDelivers(jrLoc[p].answer)
      BY <2>1, <2>4, <3>2, <1>d DEF JrDelivers
    <3>. QED  BY <2>6, <3>1, <3>2 DEF JrUnwritten
  <2>. QED  BY <1>6, <2>5, <2>6 DEF JournalResponse
<1>7. ASSUME NEW p \in JrClients, JournalStatus(p) PROVE NumbersInv'
  <2>1. jrPc[p] = "status" /\ UNCHANGED jrAnswers
    BY <1>7 DEF JournalStatus
  <2>2. jrLoc[p].id \in JrSeenIds
    BY <1>v, <2>1 DEF AnsweredByClients
  <2>3. jrJournal' \in {jrJournal, Append(jrJournal, JrUpdate(jrLoc[p]))}
    BY <1>7 DEF JournalStatus, JrAppends, JrThrows
  <2>4. Written(B)
    BY <2>2, <2>3, <1>l DEF Written, UpdateWritten
  <2>5. CASE JrStatusWritten(p)
    <3>1. CASE JrGo(p, "commit", jrLoc[p]) /\ UNCHANGED jrKnown
      BY <2>1, <2>4, <3>1, <1>g DEF JrLabels
    <3>2. CASE JrEnd(p) /\ JrDelivers(jrLoc[p].answer)
      BY <2>1, <2>4, <3>2, <1>d DEF JrDelivers
    <3>. QED  BY <2>5, <3>1, <3>2 DEF JrStatusWritten
  <2>6. CASE JrUnwritten(p)
    <3>1. CASE JrFallBack(p) /\ UNCHANGED jrKnown
      BY <2>1, <2>4, <3>1, <1>f
    <3>2. CASE JrEnd(p) /\ JrDelivers(jrLoc[p].answer)
      BY <2>1, <2>4, <3>2, <1>d DEF JrDelivers
    <3>. QED  BY <2>6, <3>1, <3>2 DEF JrUnwritten
  <2>. QED  BY <1>7, <2>5, <2>6 DEF JournalStatus
<1>8. ASSUME NEW p \in JrClients, JournalCommit(p) PROVE NumbersInv'
  <2>1. Written(B) /\ UNCHANGED jrAnswers
    BY <1>8 DEF JournalCommit, Written
  <2>. QED  BY <1>8, <1>d, <2>1 DEF JournalCommit, JrDelivers
<1>9. ASSUME NEW p \in JrClients, JournalCommitFails(p) PROVE NumbersInv'
  <2>1. Written(B) /\ UNCHANGED <<jrAnswers, jrKnown>>
    BY <1>9 DEF JournalCommitFails, Written
  <2>. QED  BY <1>9, <1>f, <2>1 DEF JournalCommitFails
<1>10. ASSUME NEW p \in JrClients, JournalCrash(p) PROVE NumbersInv'
  <2>1. Written(B) /\ UNCHANGED <<jrAnswers, jrKnown>>
    BY <1>10 DEF JournalCrash, Written
  <2>. QED  BY <1>10, <1>d, <2>1 DEF JournalCrash
<1>11. CASE UNCHANGED jrVars
  <2>1. /\ UNCHANGED <<jrJournal, jrAnswers, jrKnown, jrPc, jrLoc>>
    BY <1>11 DEF jrVars
  <2>2. ShapedBy(B)'
    BY <2>1 DEF ShapedBy
  <2>3. JrSeenIds' = JrSeenIds /\ Numbers' = Numbers
    BY <2>1 DEF JrSeenIds, Numbers
  <2>4. Numbered'
    BY <1>v, <2>1, <2>3 DEF Numbered
  <2>5. AnsweredByClients'
    BY <1>v, <2>1, <2>3 DEF AnsweredByClients, Answered
  <2>6. AnsweredInJournal'
    BY <1>v, <2>1, <2>3 DEF AnsweredInJournal, Answered
  <2>. QED  BY <2>2, <2>4, <2>5, <2>6 DEF NumbersInv, Shaped
<1>. QED
  BY <1>1, <1>2, <1>3, <1>4, <1>5, <1>6, <1>7, <1>8, <1>9, <1>10, <1>11 DEF JournalNext

\* The inductive invariant of the numbers: an id keeps its number, a new id gets a larger
\* one, and what the journal knows of an answer precedes what continues it.
THEOREM NumbersInvariance == JournalSpec => []NumbersInv
<1>1. JournalInit => NumbersInv
  <2>. SUFFICES ASSUME JournalInit PROVE NumbersInv
    OBVIOUS
  <2>1. ShapedBy({JrNone})
    BY CodexJournalAssumption
    DEF JournalInit, ShapedBy, JrNoLocal, LocalsOf, JrKinds, JrStatuses, JrLabels, JrHeads
  <2>2. Numbers = {} /\ DOMAIN jrJournal = {}
    BY DEF JournalInit, Numbers
  <2>3. AnsweredByClients
    BY DEF JournalInit, AnsweredByClients, JrNoLocal
  <2>. QED  BY <2>1, <2>2, <2>3 DEF NumbersInv, Shaped, Numbered, AnsweredInJournal
<1>. QED  BY <1>1, NumbersStep, PTL DEF JournalSpec

\* The numbers of the turns tell requests apart and grow along every chain of responses,
\* for any number of clients, retries, failed appends and crashes.
THEOREM TurnsKeepTheirOrder == JournalSpec => []TurnsAreNumbered
<1>1. ASSUME NumbersInv PROVE TurnsAreNumbered
  <2>. PICK B : ShapedBy(B)
    BY <1>1 DEF NumbersInv, Shaped
  <2>1. \A i \in JrSeenIds : [id |-> i, ord |-> JrEntry(i).ord] \in Numbers
    BY RequestsAreSeen
  <2>2. \A i, j \in JrSeenIds : JrEntry(i).ord = JrEntry(j).ord => i = j
    BY <1>1, <2>1 DEF NumbersInv, Numbered
  <2>3. ASSUME NEW k \in JrCommitted, NEW l \in JrCommitted,
               jrJournal[l].prev # 0, jrJournal[l].prev = jrJournal[k].answer
        PROVE  JrEntry(jrJournal[k].id).ord < JrEntry(jrJournal[l].id).ord
    <3>1. /\ k \in DOMAIN jrJournal /\ jrJournal[k].kind = "response"
          /\ l \in DOMAIN jrJournal /\ jrJournal[l].kind = "response"
      BY DEF JrCommitted
    <3>2. Answered(jrJournal[k].answer, jrJournal[k].id) /\ jrJournal[k].id \in JrSeenIds
      BY <1>1, <2>3, <3>1 DEF NumbersInv, AnsweredInJournal
    <3>3. jrJournal[l].id.prev = jrJournal[k].answer /\ jrJournal[l].id \in JrSeenIds
      BY <1>1, <2>3, <3>1 DEF NumbersInv, AnsweredInJournal
    <3>. QED  BY <2>1, <3>2, <3>3 DEF Answered
  <2>. QED  BY <2>2, <2>3 DEF TurnsAreNumbered
<1>. QED  BY <1>1, NumbersInvariance, PTL

-------------------------------------------------------------------------------
(* Histories.  An entry is told from the answers of the provider: what an  *)
(* entry says of an answer is what the provider has, and the payload of a  *)
(* request is one that was sent.                                           *)

\* The request i got the answer r when it was sent with a new history.
Replaced(r, i, input) ==
  /\ r \in DOMAIN jrAnswers /\ jrAnswers[r].id = i /\ jrAnswers[r].kind \in JrFresh
  /\ input \in JrBags
  /\ jrAnswers[r].holds = [c \in JrItems |-> (IF c = r THEN 1 ELSE 0) + input[c]]

\* A response that continues another one is remembered with what came before it.
AnswerRemembers(r) ==
  LET a == jrAnswers[r]
  IN  /\ a.id \in JrIds /\ a.id.prev < r /\ a.holds \in JrBags
      /\ a.kind \notin JrFresh =>
           a.holds = [c \in JrItems |->
             (IF c = r THEN 1 ELSE 0) + ((IF c = a.id.text THEN 1 ELSE 0)
               + (IF a.id.prev = 0 THEN 0 ELSE jrAnswers[a.id.prev].holds[c]))]

AnswersRemember == \A r \in DOMAIN jrAnswers : AnswerRemembers(r)

\* The journal has an entry for the answer r.
Told(r) == \E k \in DOMAIN jrJournal :
  jrJournal[k].kind = "response" /\ jrJournal[k].status = "completed" /\ jrJournal[k].answer = r

PayloadOf(l) ==
  IF l.kind \in JrFresh THEN Replaced(l.answer, l.id, l.input)
  ELSE l.answer \in DOMAIN jrAnswers /\ jrAnswers[l.answer].id = l.id
       /\ jrAnswers[l.answer].kind = l.kind /\ l.input = JrNone

ClientTells(pc, l) ==
  /\ IF pc = "idle" THEN l = JrNoLocal ELSE l.id \in JrIds /\ l.id.prev \in 0..Len(jrAnswers)
  /\ pc \in {"route", "wait"} =>
       l.answer = 0 /\ IF l.kind \in JrFresh THEN l.input \in JrBags ELSE l.input = JrNone
  /\ pc \in {"response", "status", "commit"} =>
       IF l.status = "completed" THEN PayloadOf(l) ELSE l.answer = 0 /\ l.input = JrNone
  /\ pc \in {"status", "commit"} /\ l.answer # 0 => Told(l.answer)
  /\ pc = "commit" /\ l.answer # 0 => JrStatus(l.id) \in JrTerminal

ClientsTell == \A p \in JrClients : ClientTells(jrPc[p], jrLoc[p])

RequestTells(e) ==
  /\ e.input # JrNone => \E r \in DOMAIN jrAnswers : Replaced(r, e.id, e.input)
  /\ e.input = JrNone /\ e.status = "completed" =>
       \E r \in DOMAIN jrAnswers : jrAnswers[r].id = e.id /\ jrAnswers[r].kind \notin JrFresh

ResponseTells(e) ==
  e.status = "completed" =>
    /\ e.answer \in DOMAIN jrAnswers /\ jrAnswers[e.answer].id = e.id
    /\ e.prev = IF jrAnswers[e.answer].kind \in JrFresh THEN 0 ELSE e.id.prev

EntriesTell ==
  \A k \in DOMAIN jrJournal :
    LET e == jrJournal[k]
    IN  /\ e.kind = "request"  => RequestTells(e)
        /\ e.kind = "response" => ResponseTells(e)

\* A response is kept once its entry is there and its request has its last status.
KeptAreTold ==
  \A r \in jrKept :
    r \in DOMAIN jrAnswers /\ Told(r) /\ JrStatus(jrAnswers[r].id) \in JrTerminal

\* The head of a chain is an entry with that answer, if there is one.
LEMMA HeadIsFound ==
  ASSUME NEW N \in Nat, NEW S \in SUBSET (1..N), NEW r
  PROVE  IF \E k \in S : jrJournal[k].answer = r
         THEN JrHead(r, S) \in S /\ jrJournal[JrHead(r, S)].answer = r ELSE JrHead(r, S) = 0
<1>. DEFINE T == {k \in S : jrJournal[k].answer = r}
<1>1. CASE T = {}
  BY <1>1 DEF JrHead, JrLast
<1>2. CASE T # {}
  <2>1. JrLast(T) \in T
    BY <1>2, LastOfEntries
  <2>. QED  BY <2>1 DEF JrHead
<1>. QED  BY <1>1, <1>2

\* A chain is its last turn after the chain of the entry before it.
LEMMA ViewUnfolds ==
  ASSUME Len(jrJournal) \in Nat, NEW S \in SUBSET (1..Len(jrJournal))
  PROVE  /\ JrView(0, S) = JrNothing
         /\ \A l \in 1..Len(jrJournal) :
              JrView(l, S) = JrTurn(IF jrJournal[l].prev = 0 THEN JrRoot
                                    ELSE JrView(JrHead(jrJournal[l].prev, {m \in S : m < l}), S), l)
<1>. DEFINE N == Len(jrJournal)
            H(l) == JrHead(jrJournal[l].prev, {m \in S : m < l})
            F(l, x) == IF l = 0 THEN JrNothing
                       ELSE JrTurn(IF jrJournal[l].prev = 0 THEN JrRoot ELSE x, l)
            Views(g, n) == g = [l \in 0..n |-> F(l, g[H(l)])]
            Short == {n \in 0..N : ~\E g : Views(g, n)}
<1>1. \A l \in 0..N : l # 0 => H(l) \in 0..N /\ H(l) < l
  <2>. SUFFICES ASSUME NEW l \in 0..N, l # 0 PROVE H(l) \in 0..N /\ H(l) < l
    OBVIOUS
  <2>. DEFINE T == {m \in S : m < l}
  <2>1. H(l) = 0 \/ H(l) \in T
    BY HeadIsFound
  <2>. PICK h : h = H(l)
    OBVIOUS
  <2>2. h = 0 \/ (h \in 1..N /\ h < l)
    BY <2>1
  <2>3. N \in Nat /\ l \in Nat /\ l # 0 /\ N = Len(jrJournal)
    OBVIOUS
  <2>4. h \in 0..N /\ h < l
    <3>. HIDE DEF N, H
    <3>. QED  BY <2>2, <2>3
  <2>. QED  BY <2>4
<1>2. N \in Nat
  OBVIOUS
<1>. DEFINE view == CHOOSE g : Views(g, N)
<1>3. \A k : JrView(k, S) = view[k]
  BY Zenon DEF JrView
<1>. HIDE DEF N, H, F
<1>4. Short = {}
  <2>. SUFFICES ASSUME Short # {} PROVE FALSE
    OBVIOUS
  <2>3. Short \subseteq Nat
    BY <1>2
  <2>. HIDE DEF Short
  <2>4. PICK n \in Short : \A m \in Short : n <= m
    BY <2>3, LeastNumber
  <2>5. n \in Nat /\ n \in 0..N /\ ~\E g : Views(g, n)
    BY <2>4, <1>2 DEF Short
  <2>6. n # 0
    <3>1. Views([l \in 0..0 |-> F(0, 0)], 0)
      BY DEF F
    <3>. QED  BY <2>5, <3>1
  <2>7. n - 1 \in 0..N /\ n - 1 \notin Short
    <3>1. ~(n <= n - 1) /\ n - 1 \in 0..N
      BY <1>2, <2>5, <2>6
    <3>. QED  BY <2>4, <3>1
  <2>8. PICK g : Views(g, n - 1)
    BY <2>7 DEF Short
  <2>9. \A l \in 0..(n - 1) : g[l] = F(l, g[H(l)])
    BY <2>8
  <2>. DEFINE h == [l \in 0..n |-> IF l = n THEN F(n, g[H(n)]) ELSE g[l]]
  <2>10. ASSUME NEW l \in 0..n PROVE h[l] = F(l, h[H(l)])
    <3>1. l # 0 => H(l) \in 0..n /\ H(l) # n /\ H(l) < l
      BY <1>1, <1>2, <2>5
    <3>2. l # 0 => h[H(l)] = g[H(l)]
      BY <3>1
    <3>3. \A x, y : F(0, x) = F(0, y)
      BY DEF F
    <3>4. CASE l = n
      BY <2>5, <2>6, <3>2, <3>4
    <3>5. CASE l # n
      <4>1. l \in 0..(n - 1)
        BY <2>5, <3>5
      <4>2. h[l] = F(l, g[H(l)])
        BY <2>9, <3>5, <4>1
      <4>. QED  BY <3>2, <3>3, <4>2
    <3>. QED  BY <3>4, <3>5
  <2>11. Views(h, n)
    BY <2>10
  <2>. QED  BY <2>5, <2>11
<1>5. \E g : Views(g, N)
  BY <1>2, <1>4
<1>6. Views(view, N)
  BY <1>5, Zenon
<1>. HIDE DEF view
<1>7. \A l \in 0..N : view[l] = F(l, view[H(l)])
  BY <1>6
<1>8. JrView(0, S) = JrNothing
  <2>1. \A x : F(0, x) = JrNothing
    BY DEF F
  <2>2. 0 \in 0..N
    BY <1>2
  <2>. QED  BY <1>3, <1>7, <2>1, <2>2
<1>9. ASSUME NEW l \in 1..N PROVE JrView(l, S) = F(l, JrView(H(l), S))
  BY <1>2, <1>3, <1>7
<1>10. \A l \in 1..N : \A x : F(l, x) = JrTurn(IF jrJournal[l].prev = 0 THEN JrRoot ELSE x, l)
  BY <1>2 DEF F
<1>. QED  BY <1>8, <1>9, <1>10 DEF H, N

\* One of an item is a count of items.
LEMMA OneCounts == \A i : JrOne(i) \in JrBags
BY DEF JrOne, JrBags

\* A chain begins with nothing asked, said or counted.
LEMMA NothingCounted ==
  /\ ~JrNothing.complete /\ JrRoot.complete
  /\ \A x \in {JrNothing, JrRoot} :
       x.asked = {} /\ x.ids = {} /\ x.copies = [c \in JrItems |-> 0] /\ x.next = x.copies
BY DEF JrNothing, JrRoot

\* What a committed response says of the request it answers.
LEMMA CommittedTells ==
  ASSUME NumbersInv, EntriesTell, NEW k \in JrCommitted
  PROVE  LET e == jrJournal[k]
             a == jrAnswers[e.answer]
             q == JrEntry(e.id)
         IN  /\ k \in 1..Len(jrJournal) /\ e.answer \in DOMAIN jrAnswers
             /\ a.id = e.id /\ e.prev = IF a.kind \in JrFresh THEN 0 ELSE e.id.prev
             /\ q.input # JrNone => q.input \in JrBags
             /\ ~JrMixed(e.id) =>
                  IF a.kind \in JrFresh THEN q.input # JrNone /\ Replaced(e.answer, e.id, q.input)
                  ELSE q.input = JrNone
<1>. DEFINE e == jrJournal[k]
            a == jrAnswers[e.answer]
            q == JrEntry(e.id)
<1>. PICK B : ShapedBy(B)
  BY DEF NumbersInv, Shaped
<1>1. /\ k \in DOMAIN jrJournal /\ e.kind = "response" /\ e.status = "completed"
      /\ JrStatus(e.id) = "completed"
  BY DEF JrCommitted
<1>2. k \in 1..Len(jrJournal)
  BY <1>1 DEF ShapedBy
<1>3. /\ e.answer \in DOMAIN jrAnswers /\ a.id = e.id
      /\ e.prev = IF a.kind \in JrFresh THEN 0 ELSE e.id.prev
  BY <1>1 DEF EntriesTell, ResponseTells
<1>4. e.id \in JrSeenIds
  BY <1>1 DEF NumbersInv, AnsweredInJournal
<1>5. q.status = "completed"
  BY <1>1 DEF JrStatus
<1>6. RequestTells(q) /\ q.id = e.id
  <2>. DEFINE n == JrLast(JrOf(e.id))
  <2>1. JrOf(e.id) \in SUBSET (1..Len(jrJournal)) /\ JrOf(e.id) # {} /\ Len(jrJournal) \in Nat
    <3>1. JrOf(e.id) # {}
      BY <1>4, RequestsAreSeen
    <3>. QED  BY <3>1 DEF JrOf, ShapedBy
  <2>2. n \in JrOf(e.id)
    BY <2>1, LastOfEntries
  <2>3. n \in DOMAIN jrJournal /\ jrJournal[n].kind = "request" /\ q = jrJournal[n] /\ q.id = e.id
    BY <2>2 DEF JrOf, JrEntry
  <2>. HIDE DEF n, q, e
  <2>. QED  BY <2>3 DEF EntriesTell
<1>. HIDE DEF e, q
<1>7. q.input # JrNone => q.input \in JrBags
  BY <1>6 DEF RequestTells, Replaced
<1>8. ASSUME ~JrMixed(e.id)
      PROVE  IF a.kind \in JrFresh THEN q.input # JrNone /\ Replaced(e.answer, e.id, q.input)
             ELSE q.input = JrNone
  <2>1. \A r, s \in DOMAIN jrAnswers :
          jrAnswers[r].id = e.id /\ jrAnswers[s].id = e.id /\ jrAnswers[r].kind \in JrFresh => r = s
    BY <1>8 DEF JrMixed
  <2>2. CASE q.input # JrNone
    <3>1. PICK r \in DOMAIN jrAnswers : Replaced(r, e.id, q.input)
      BY <1>6, <2>2 DEF RequestTells
    <3>2. r = e.answer
      BY <1>3, <2>1, <3>1 DEF Replaced
    <3>3. a.kind \in JrFresh
      BY <3>1, <3>2 DEF Replaced
    <3>. QED  BY <2>2, <3>1, <3>2, <3>3
  <2>3. CASE q.input = JrNone
    <3>1. PICK r \in DOMAIN jrAnswers : jrAnswers[r].id = e.id /\ jrAnswers[r].kind \notin JrFresh
      BY <1>5, <1>6, <2>3 DEF RequestTells
    <3>2. a.kind \notin JrFresh
      BY <1>3, <2>1, <3>1
    <3>. QED  BY <2>3, <3>2
  <2>. QED  BY <2>2, <2>3
<1>. QED  BY <1>2, <1>3, <1>7, <1>8 DEF e, q

\* What is known of the chain at k, whatever the journal and the provider say.
Counted(v) == v.copies \in JrBags /\ v.next \in JrBags

\* The chain at k is what the provider remembers of the answer r, and none of its
\* responses is newer than r.
Remembered(v, r) ==
  v.complete /\ (\A i \in v.asked : ~JrMixed(i)) =>
    /\ JrHolds(v) = jrAnswers[r].holds
    /\ v.copies = v.next /\ v.ids \subseteq 1..r

\* A turn after a chain that is right makes one that is right.
LEMMA TurnIsRight ==
  ASSUME NumbersInv, EntriesTell, AnswersRemember, NEW k \in JrCommitted, NEW before,
         Counted(before),
         IF jrJournal[k].prev = 0 THEN before = JrRoot
         ELSE before.complete => Remembered(before, jrJournal[k].prev)
  PROVE  Counted(JrTurn(before, k)) /\ Remembered(JrTurn(before, k), jrJournal[k].answer)
<1>. DEFINE e == jrJournal[k]
            r == e.answer
            q == JrEntry(e.id)
            input == IF q.input = JrNone THEN JrOne(e.id.text) ELSE q.input
            start == IF q.input = JrNone THEN before.next ELSE JrNothing.next
            next  == [c \in JrItems |-> start[c] + input[c]]
            v     == JrTurn(before, k)
<1>1. /\ r \in DOMAIN jrAnswers /\ jrAnswers[r].id = e.id
      /\ e.prev = IF jrAnswers[r].kind \in JrFresh THEN 0 ELSE e.id.prev
      /\ q.input # JrNone => q.input \in JrBags
      /\ ~JrMixed(e.id) =>
           IF jrAnswers[r].kind \in JrFresh THEN q.input # JrNone /\ Replaced(r, e.id, q.input)
           ELSE q.input = JrNone
  BY CommittedTells
<1>2. /\ v.complete = before.complete /\ v.asked = before.asked \cup {e.id}
      /\ v.ids = before.ids \cup {r} /\ v.next = next
      /\ v.copies = [c \in JrItems |-> IF next[c] > before.copies[c] THEN next[c]
                                                                     ELSE before.copies[c]]
  BY DEF JrTurn
<1>. HIDE DEF v, q, e
<1>3. input \in JrBags /\ start \in JrBags
  BY <1>1, OneCounts DEF JrNothing, Counted, JrBags
<1>4. next \in JrBags
  BY <1>3 DEF JrBags
<1>5. Counted(v)
  BY <1>2, <1>4 DEF Counted, JrBags
<1>6. ASSUME v.complete, \A i \in v.asked : ~JrMixed(i)
      PROVE  JrHolds(v) = jrAnswers[r].holds /\ v.copies = v.next /\ v.ids \subseteq 1..r
  <2>0. /\ r \in Nat /\ r # 0 /\ e.id \in JrIds /\ e.id.prev \in Nat /\ e.id.prev < r
    <3>1. DOMAIN jrAnswers \subseteq Nat \ {0}
      BY DEF NumbersInv, Shaped, ShapedBy
    <3>2. e.id \in JrIds /\ e.id.prev < r
      BY <1>1 DEF AnswersRemember, AnswerRemembers
    <3>. QED  BY <1>1, <3>1, <3>2, CodexJournalAssumption DEF JrIds, JrHeads
  <2>1. ~JrMixed(e.id) /\ \A i \in before.asked : ~JrMixed(i)
    BY <1>2, <1>6
  <2>2. CASE e.prev = 0
    <3>1. before = JrRoot
      BY <2>2 DEF e
    <3>2. before.ids = {} /\ \A c \in JrItems : before.next[c] = 0 /\ before.copies[c] = 0
      BY <3>1, NothingCounted
    <3>3. \A c \in JrItems : start[c] = 0 /\ input[c] \in Nat
      BY <1>3, <3>2, NothingCounted DEF JrBags
    <3>. HIDE DEF start
    <3>4. \A c \in JrItems : next[c] = input[c]
      BY <3>3
    <3>. HIDE DEF next
    <3>5. v.copies = next
      BY <1>2, <1>4, <3>2, <3>3, <3>4 DEF JrBags
    <3>6. jrAnswers[r].holds = [c \in JrItems |-> (IF c = r THEN 1 ELSE 0) + input[c]]
      <4>1. CASE jrAnswers[r].kind \in JrFresh
        BY <1>1, <2>1, <4>1 DEF Replaced
      <4>2. CASE jrAnswers[r].kind \notin JrFresh
        <5>1. e.id.prev = 0 /\ q.input = JrNone
          BY <1>1, <2>1, <2>2, <4>2
        <5>2. jrAnswers[r].holds = [c \in JrItems |->
                (IF c = r THEN 1 ELSE 0) + ((IF c = e.id.text THEN 1 ELSE 0) + 0)]
          BY <1>1, <4>2, <5>1 DEF AnswersRemember, AnswerRemembers
        <5>3. input = [c \in JrItems |-> IF c = e.id.text THEN 1 ELSE 0]
          BY <5>1 DEF JrOne
        <5>. QED  BY <5>2, <5>3
      <4>. QED  BY <4>1, <4>2
    <3>7. v.ids = {r}
      BY <1>2, <3>2
    <3>8. JrHolds(v) = [c \in JrItems |-> next[c] + (IF c = r THEN 1 ELSE 0)]
      BY <3>5, <3>7 DEF JrHolds
    <3>9. JrHolds(v) = jrAnswers[r].holds
      <4>. HIDE DEF input
      <4>. QED  BY <3>3, <3>4, <3>6, <3>8
    <3>. QED  BY <1>2, <2>0, <3>5, <3>7, <3>9
  <2>3. CASE e.prev # 0
    <3>1. jrAnswers[r].kind \notin JrFresh /\ e.prev = e.id.prev /\ q.input = JrNone
      BY <1>1, <2>1, <2>3
    <3>2. /\ JrHolds(before) = jrAnswers[e.prev].holds /\ before.copies = before.next
          /\ before.ids \subseteq 1..e.prev
      BY <1>2, <1>6, <2>1, <2>3 DEF Remembered, e
    <3>3. /\ input = [c \in JrItems |-> IF c = e.id.text THEN 1 ELSE 0] /\ start = before.copies
          /\ \A c \in JrItems : before.copies[c] \in Nat
      BY <3>1, <3>2 DEF JrOne, Counted, JrBags
    <3>4. \A c \in JrItems : next[c] = before.copies[c] + (IF c = e.id.text THEN 1 ELSE 0)
      BY <3>3
    <3>. HIDE DEF next, input, start
    <3>5. v.copies = next
      BY <1>2, <1>4, <3>3, <3>4 DEF JrBags
    <3>6. jrAnswers[r].holds = [c \in JrItems |->
            (IF c = r THEN 1 ELSE 0) + ((IF c = e.id.text THEN 1 ELSE 0)
              + jrAnswers[e.prev].holds[c])]
      BY <1>1, <2>3, <3>1 DEF AnswersRemember, AnswerRemembers
    <3>7. \A c \in JrItems :
            jrAnswers[e.prev].holds[c] = before.copies[c] + (IF c \in before.ids THEN 1 ELSE 0)
      BY <3>2 DEF JrHolds
    <3>8. v.ids = before.ids \cup {r} /\ r \notin before.ids /\ v.ids \subseteq 1..r
      BY <1>2, <2>0, <3>1, <3>2
    <3>9. JrHolds(v) = [c \in JrItems |-> next[c] + (IF c \in before.ids \cup {r} THEN 1 ELSE 0)]
      BY <3>5, <3>8 DEF JrHolds
    <3>10. JrHolds(v) = jrAnswers[r].holds
      BY <3>3, <3>4, <3>6, <3>7, <3>8, <3>9
    <3>. QED  BY <1>2, <3>5, <3>8, <3>10
  <2>. QED  BY <2>2, <2>3
<1>. QED  BY <1>5, <1>6 DEF v, e, Remembered

\* By induction along the journal, every committed chain is right.
LEMMA ChainsAreRight ==
  ASSUME NumbersInv, EntriesTell, AnswersRemember
  PROVE  /\ Counted(JrView(0, JrCommitted))
         /\ \A k \in JrCommitted : /\ Counted(JrView(k, JrCommitted))
                                   /\ Remembered(JrView(k, JrCommitted), jrJournal[k].answer)
<1>. DEFINE V(k) == JrView(k, JrCommitted)
            Right(k) == Counted(V(k)) /\ Remembered(V(k), jrJournal[k].answer)
            Wrong == {k \in JrCommitted : ~Right(k)}
<1>1. Len(jrJournal) \in Nat /\ JrCommitted \in SUBSET (1..Len(jrJournal))
  BY DEF NumbersInv, Shaped, ShapedBy, JrCommitted
<1>2. /\ V(0) = JrNothing
      /\ \A l \in 1..Len(jrJournal) :
           V(l) = JrTurn(IF jrJournal[l].prev = 0 THEN JrRoot
                         ELSE V(JrHead(jrJournal[l].prev, {m \in JrCommitted : m < l})), l)
  BY <1>1, ViewUnfolds
<1>. HIDE DEF V
<1>3. Counted(V(0)) /\ Counted(JrRoot)
  BY <1>2, NothingCounted DEF Counted, JrBags
<1>. HIDE DEF Right
<1>4. \A k \in JrCommitted : k \in Nat
  BY <1>1
<1>5. Wrong = {}
  <2>. SUFFICES ASSUME Wrong # {} PROVE FALSE
    OBVIOUS
  <2>3. Wrong \subseteq Nat
    BY <1>4
  <2>. HIDE DEF Wrong
  <2>4. PICK k \in Wrong : \A m \in Wrong : k <= m
    BY <2>3, LeastNumber
  <2>5. k \in JrCommitted /\ k \in 1..Len(jrJournal) /\ k \in Nat /\ ~Right(k)
    BY <1>1, <2>3, <2>4 DEF Wrong
  <2>6. \A m \in JrCommitted : m < k => Right(m)
    BY <1>4, <2>4, <2>5 DEF Wrong
  <2>. DEFINE S == {m \in JrCommitted : m < k}
              h == JrHead(jrJournal[k].prev, S)
              before == IF jrJournal[k].prev = 0 THEN JrRoot ELSE V(h)
  <2>7. V(k) = JrTurn(before, k)
    BY <1>2, <2>5
  <2>8. h = 0 \/ (h \in S /\ jrJournal[h].answer = jrJournal[k].prev)
    BY <1>1, HeadIsFound
  <2>. HIDE DEF h
  <2>9. CASE jrJournal[k].prev = 0
    BY <1>3, <2>5, <2>7, <2>9, TurnIsRight DEF Right
  <2>10. CASE jrJournal[k].prev # 0 /\ h = 0
    <3>1. before = JrNothing /\ ~JrNothing.complete
      BY <1>2, <2>10, NothingCounted
    <3>. HIDE DEF before
    <3>. QED  BY <1>2, <1>3, <2>5, <2>7, <2>10, <3>1, TurnIsRight DEF Right
  <2>11. CASE jrJournal[k].prev # 0 /\ h # 0
    <3>1. Counted(before) /\ Remembered(before, jrJournal[k].prev)
      BY <2>6, <2>8, <2>11 DEF Right
    <3>. HIDE DEF before
    <3>. QED  BY <2>5, <2>7, <2>11, <3>1, TurnIsRight DEF Right
  <2>. QED  BY <2>9, <2>10, <2>11
<1>. QED  BY <1>3, <1>5 DEF V, Right

\* A complete history is what the provider remembers.
LEMMA HistoriesAreRight ==
  ASSUME NumbersInv, EntriesTell, AnswersRemember
  PROVE  HistoryIsWhatWasSent /\ \A r : JrHolds(JrHistory(r)) \in JrBags
<1>. DEFINE h(r) == JrHead(r, JrCommitted)
<1>1. Len(jrJournal) \in Nat /\ JrCommitted \in SUBSET (1..Len(jrJournal))
  BY DEF NumbersInv, Shaped, ShapedBy, JrCommitted
<1>2. \A r : h(r) = 0 \/ (h(r) \in JrCommitted /\ jrJournal[h(r)].answer = r)
  BY <1>1, HeadIsFound
<1>3. ~JrView(0, JrCommitted).complete
  BY <1>1, ViewUnfolds, NothingCounted
<1>. HIDE DEF h
<1>4. ASSUME NEW r PROVE Counted(JrHistory(r)) /\ Remembered(JrHistory(r), r)
  BY <1>2, <1>3, ChainsAreRight DEF JrHistory, h, Remembered
<1>5. \A v : Counted(v) => JrHolds(v) \in JrBags
  BY DEF Counted, JrHolds, JrBags
<1>. QED  BY <1>4, <1>5 DEF HistoryIsWhatWasSent, Remembered

\* The line of a response is the response and, unless it begins one, the line before it.
LEMMA LineUnfolds ==
  ASSUME NumbersInv, AnswersRemember
  PROVE  /\ JrLine(0) = {}
         /\ \A r \in 1..Len(jrAnswers) :
              JrLine(r) = {r} \cup (IF jrAnswers[r].kind \in JrFresh THEN {}
                                    ELSE JrLine(jrAnswers[r].id.prev))
<1>. DEFINE N == Len(jrAnswers)
            H(q) == jrAnswers[q].id.prev
            F(q, x) == IF q = 0 THEN {}
                       ELSE {q} \cup (IF jrAnswers[q].kind \in JrFresh THEN {} ELSE x)
            Lines(g, n) == g = [q \in 0..n |-> F(q, g[H(q)])]
            Short == {n \in 0..N : ~\E g : Lines(g, n)}
<1>1. N \in Nat /\ \A q \in 1..N : H(q) \in Nat /\ H(q) < q
  <2>1. N \in Nat /\ DOMAIN jrAnswers = 1..N
    BY DEF NumbersInv, Shaped, ShapedBy
  <2>2. \A q \in 1..N : jrAnswers[q].id \in JrIds /\ H(q) < q
    BY <2>1 DEF AnswersRemember, AnswerRemembers
  <2>3. \A q \in 1..N : H(q) \in Nat
    BY <2>2, CodexJournalAssumption DEF JrIds, JrHeads
  <2>. QED  BY <2>1, <2>2, <2>3
<1>. DEFINE line == CHOOSE g : Lines(g, N)
<1>2. \A q : JrLine(q) = line[q]
  BY Zenon DEF JrLine
<1>3. \A x : F(0, x) = {}
  OBVIOUS
<1>4. \A q \in 1..N : \A x : F(q, x) = {q} \cup (IF jrAnswers[q].kind \in JrFresh THEN {} ELSE x)
  BY <1>1
<1>. HIDE DEF N, H, F
<1>5. Short = {}
  <2>. SUFFICES ASSUME Short # {} PROVE FALSE
    OBVIOUS
  <2>1. Short \subseteq Nat
    BY <1>1
  <2>. HIDE DEF Short
  <2>2. PICK n \in Short : \A m \in Short : n <= m
    BY <2>1, LeastNumber
  <2>3. n \in Nat /\ n \in 0..N /\ ~\E g : Lines(g, n)
    BY <2>2, <1>1 DEF Short
  <2>4. n # 0
    <3>1. Lines([q \in 0..0 |-> {}], 0)
      BY <1>3
    <3>. QED  BY <2>3, <3>1
  <2>5. n - 1 \in 0..N /\ n - 1 \notin Short
    <3>1. ~(n <= n - 1) /\ n - 1 \in 0..N
      BY <1>1, <2>3, <2>4
    <3>. QED  BY <2>2, <3>1
  <2>6. PICK g : Lines(g, n - 1)
    BY <2>5 DEF Short
  <2>7. \A q \in 0..(n - 1) : g[q] = F(q, g[H(q)])
    BY <2>6
  <2>. DEFINE h == [q \in 0..n |-> IF q = n THEN F(n, g[H(n)]) ELSE g[q]]
  <2>8. ASSUME NEW q \in 0..n PROVE h[q] = F(q, h[H(q)])
    <3>1. q # 0 => H(q) \in 0..n /\ H(q) # n
      <4>1. q # 0 => q \in 1..N
        BY <1>1, <2>3
      <4>. QED  BY <1>1, <2>3, <4>1
    <3>2. q # 0 => h[H(q)] = g[H(q)]
      BY <3>1
    <3>3. CASE q = n
      BY <2>3, <2>4, <3>2, <3>3
    <3>4. CASE q # n
      <4>1. q \in 0..(n - 1)
        BY <2>3, <3>4
      <4>2. h[q] = F(q, g[H(q)])
        BY <2>7, <3>4, <4>1
      <4>. QED  BY <1>3, <3>2, <4>2
    <3>. QED  BY <3>3, <3>4
  <2>9. Lines(h, n)
    BY <2>8
  <2>. QED  BY <2>3, <2>9
<1>6. \E g : Lines(g, N)
  BY <1>1, <1>5
<1>7. Lines(line, N)
  BY <1>6, Zenon
<1>. HIDE DEF line
<1>8. \A q \in 0..N : line[q] = F(q, line[H(q)])
  BY <1>7
<1>9. JrLine(0) = {}
  <2>1. 0 \in 0..N
    BY <1>1
  <2>. QED  BY <1>2, <1>3, <1>8, <2>1
<1>10. ASSUME NEW q \in 1..N PROVE JrLine(q) = F(q, JrLine(H(q)))
  BY <1>1, <1>2, <1>8
<1>. QED  BY <1>4, <1>9, <1>10 DEF N, H

\* A line goes on to where it began.
LEMMA LineIsClosed ==
  ASSUME NumbersInv, AnswersRemember, NEW r \in 1..Len(jrAnswers)
  PROVE  /\ r \in JrLine(r)
         /\ \A q \in JrLine(r) :
              jrAnswers[q].kind \in JrFresh \/ jrAnswers[q].id.prev = 0
              \/ jrAnswers[q].id.prev \in JrLine(r)
<1>. DEFINE N == Len(jrAnswers)
            H(q) == jrAnswers[q].id.prev
            Closed(x) == \A q \in JrLine(x) :
                           jrAnswers[q].kind \in JrFresh \/ H(q) = 0 \/ H(q) \in JrLine(x)
            Open == {x \in 1..N : ~Closed(x)}
<1>1. N \in Nat /\ \A q \in 1..N : H(q) \in Nat /\ H(q) < q
  <2>1. N \in Nat /\ DOMAIN jrAnswers = 1..N
    BY DEF NumbersInv, Shaped, ShapedBy
  <2>2. \A q \in 1..N : jrAnswers[q].id \in JrIds /\ H(q) < q
    BY <2>1 DEF AnswersRemember, AnswerRemembers
  <2>3. \A q \in 1..N : H(q) \in Nat
    BY <2>2, CodexJournalAssumption DEF JrIds, JrHeads
  <2>. QED  BY <2>1, <2>2, <2>3
<1>2. /\ JrLine(0) = {}
      /\ \A x \in 1..N :
           JrLine(x) = {x} \cup (IF jrAnswers[x].kind \in JrFresh THEN {} ELSE JrLine(H(x)))
  BY LineUnfolds
<1>. HIDE DEF N, H, Closed
<1>3. Open = {}
  <2>. SUFFICES ASSUME Open # {} PROVE FALSE
    OBVIOUS
  <2>1. Open \subseteq Nat
    BY <1>1
  <2>. HIDE DEF Open
  <2>2. PICK x \in Open : \A y \in Open : x <= y
    BY <2>1, LeastNumber
  <2>3. x \in 1..N /\ ~Closed(x) /\ x \in Nat
    BY <2>1, <2>2 DEF Open
  <2>4. \A y \in 1..N : y < x => Closed(y)
    BY <1>1, <2>2, <2>3 DEF Open
  <2>5. CASE jrAnswers[x].kind \in JrFresh
    <3>1. JrLine(x) = {x}
      BY <1>2, <2>3, <2>5
    <3>. QED  BY <2>3, <2>5, <3>1 DEF Closed
  <2>6. CASE jrAnswers[x].kind \notin JrFresh
    <3>1. JrLine(x) = {x} \cup JrLine(H(x))
      BY <1>2, <2>3, <2>6
    <3>2. H(x) = 0 \/ (H(x) \in 1..N /\ H(x) < x)
      BY <1>1, <2>3
    <3>3. Closed(H(x)) /\ (H(x) = 0 \/ H(x) \in JrLine(H(x)))
      BY <1>2, <2>4, <3>2 DEF Closed
    <3>. QED  BY <2>3, <3>1, <3>3 DEF Closed
  <2>. QED  BY <2>5, <2>6
<1>. QED  BY <1>2, <1>3 DEF N, H, Closed

\* What was kept is found, and so is all that it continues.
LEMMA KeptAreFound ==
  ASSUME NumbersInv, EntriesTell, AnswersRemember, KeptAreTold
  PROVE  JournaledTurnsAreFound
<1>. SUFFICES ASSUME NEW r \in jrKept, JrLine(r) \subseteq jrKept,
                     \A q \in JrLine(r) : JrStatus(jrAnswers[q].id) # "failed" /\ ~JrOvertaken(q)
              PROVE  JrHistory(r).complete
  BY DEF JournaledTurnsAreFound
<1>. DEFINE V(k) == JrView(k, JrCommitted)
            Cut == {k \in JrCommitted : jrJournal[k].answer \in JrLine(r) /\ ~V(k).complete}
<1>1. /\ Len(jrJournal) \in Nat /\ JrCommitted \in SUBSET (1..Len(jrJournal))
      /\ DOMAIN jrJournal = 1..Len(jrJournal) /\ DOMAIN jrAnswers = 1..Len(jrAnswers)
  BY DEF NumbersInv, Shaped, ShapedBy, JrCommitted
<1>2. \A k \in JrCommitted : k \in Nat /\ k \in DOMAIN jrJournal
  BY <1>1
<1>3. \A l \in 1..Len(jrJournal) :
        V(l) = JrTurn(IF jrJournal[l].prev = 0 THEN JrRoot
                      ELSE V(JrHead(jrJournal[l].prev, {m \in JrCommitted : m < l})), l)
  BY <1>1, ViewUnfolds
<1>4. \A x, l : JrTurn(x, l).complete = x.complete
  BY DEF JrTurn
<1>5. /\ r \in JrLine(r)
      /\ \A q \in JrLine(r) :
           jrAnswers[q].kind \in JrFresh \/ jrAnswers[q].id.prev = 0
           \/ jrAnswers[q].id.prev \in JrLine(r)
  BY <1>1, LineIsClosed DEF KeptAreTold
<1>. HIDE DEF V
<1>6. ASSUME NEW q \in JrLine(r)
      PROVE  \E k \in JrCommitted : jrJournal[k].answer = q
  <2>1. Told(q) /\ JrStatus(jrAnswers[q].id) = "completed"
    BY DEF KeptAreTold, JrTerminal
  <2>2. PICK k \in DOMAIN jrJournal :
          jrJournal[k].kind = "response" /\ jrJournal[k].status = "completed" /\ jrJournal[k].answer = q
    BY <2>1 DEF Told
  <2>3. jrAnswers[q].id = jrJournal[k].id
    BY <2>2 DEF EntriesTell, ResponseTells
  <2>. QED  BY <2>1, <2>2, <2>3 DEF JrCommitted
<1>7. Cut = {}
  <2>. SUFFICES ASSUME Cut # {} PROVE FALSE
    OBVIOUS
  <2>1. Cut \subseteq Nat
    BY <1>2
  <2>. HIDE DEF Cut
  <2>2. PICK k \in Cut : \A m \in Cut : k <= m
    BY <2>1, LeastNumber
  <2>3. /\ k \in JrCommitted /\ k \in Nat /\ k \in 1..Len(jrJournal) /\ k \in DOMAIN jrJournal
        /\ jrJournal[k].answer \in JrLine(r) /\ ~V(k).complete
    BY <1>1, <1>2, <2>2 DEF Cut
  <2>. DEFINE e == jrJournal[k]
              a == jrAnswers[e.answer]
              before == {m \in JrCommitted : m < k}
              h == JrHead(e.prev, before)
  <2>4. e.prev = IF a.kind \in JrFresh THEN 0 ELSE a.id.prev
    BY <2>3, CommittedTells
  <2>5. e.kind = "response"
    BY <2>3 DEF JrCommitted
  <2>. HIDE DEF h, e, a
  <2>6. CASE e.prev = 0
    BY <1>3, <1>4, <2>3, <2>6, NothingCounted DEF e
  <2>7. CASE e.prev # 0
    <3>1. e.prev \in JrLine(r)
      BY <1>5, <2>3, <2>4, <2>7 DEF e, a
    <3>2. PICK l \in JrCommitted : jrJournal[l].answer = e.prev
      BY <1>6, <3>1
    <3>3. ~(k < l)
      <4>1. jrJournal[l].kind = "response" /\ l \in DOMAIN jrJournal
        BY <1>2 DEF JrCommitted
      <4>. QED  BY <2>3, <2>5, <3>1, <3>2, <4>1 DEF JrOvertaken, e
    <3>4. e.prev # e.answer
      <4>1. e.answer \in 1..Len(jrAnswers) /\ a.id \in JrIds /\ a.id.prev < e.answer
        BY <1>1, <2>3, CommittedTells DEF AnswersRemember, AnswerRemembers, a, e
      <4>2. a.id.prev \in Nat /\ e.answer \in Nat
        BY <4>1, CodexJournalAssumption DEF JrIds, JrHeads
      <4>. QED  BY <2>4, <2>7, <4>1, <4>2
    <3>5. l \in before
      <4>1. l # k
        BY <3>2, <3>4 DEF e
      <4>. QED  BY <1>2, <2>3, <3>3, <4>1
    <3>6. h \in before /\ jrJournal[h].answer = e.prev
      <4>1. before \in SUBSET (1..Len(jrJournal))
        BY <1>1
      <4>. HIDE DEF before
      <4>. QED  BY <1>1, <3>2, <3>5, <4>1, HeadIsFound DEF h
    <3>7. V(h).complete
      <4>1. h \notin Cut /\ h \in JrCommitted
        BY <1>2, <2>2, <2>3, <3>6
      <4>. QED  BY <3>1, <3>6, <4>1 DEF Cut
    <3>8. V(k) = JrTurn(V(h), k)
      BY <1>3, <2>3, <2>7 DEF e, h
    <3>. QED  BY <1>4, <2>3, <3>7, <3>8
  <2>. QED  BY <2>6, <2>7
<1>8. JrHead(r, JrCommitted) \in JrCommitted /\ jrJournal[JrHead(r, JrCommitted)].answer = r
  BY <1>1, <1>5, <1>6, HeadIsFound
<1>. QED  BY <1>5, <1>7, <1>8 DEF JrHistory, V

\* What an action may append keeps the shape of the journal.
LEMMA EntriesFit ==
  ASSUME NEW B, ShapedBy(B)
  PROVE  /\ \A i \in JrIds : JrPending(i) \in EntriesOf(B)
         /\ \A l \in LocalsOf(B) : l.id \in JrIds => JrResponse(l) \in EntriesOf(B)
         /\ \A l \in LocalsOf(B) : l.id \in JrSeenIds =>
              /\ JrUpdate(l) \in EntriesOf(B) /\ JrUpdate(l).kind = "request"
              /\ JrUpdate(l).id = l.id /\ JrUpdate(l).status = l.status
              /\ JrUpdate(l).input = IF JrEntry(l.id).input = JrNone THEN l.input
                                                                     ELSE JrEntry(l.id).input
<1>1. ASSUME NEW i \in JrIds PROVE JrPending(i) \in EntriesOf(B)
  <2>1. Cardinality(JrSeenIds) \in Nat
    BY RequestsAreSeen, FS_CardinalityType
  <2>. QED  BY <2>1 DEF JrPending, JrNextOrdinal, EntriesOf, RequestsOf, JrStatuses, ShapedBy
<1>2. ASSUME NEW l \in LocalsOf(B), l.id \in JrIds PROVE JrResponse(l) \in EntriesOf(B)
  <2>1. l.answer \in JrHeads /\ l.status \in JrStatuses
    BY DEF LocalsOf
  <2>2. (IF l.kind \in JrFresh THEN 0 ELSE l.id.prev) \in JrHeads
    BY <1>2, CodexJournalAssumption DEF JrIds, JrHeads
  <2>. QED  BY <1>2, <2>1, <2>2 DEF JrResponse, EntriesOf, JrResponses
<1>3. ASSUME NEW l \in LocalsOf(B), l.id \in JrSeenIds
      PROVE  /\ JrUpdate(l) \in EntriesOf(B) /\ JrUpdate(l).kind = "request"
             /\ JrUpdate(l).id = l.id /\ JrUpdate(l).status = l.status
             /\ JrUpdate(l).input = IF JrEntry(l.id).input = JrNone THEN l.input
                                                                    ELSE JrEntry(l.id).input
  <2>. PICK f : f = JrEntry(l.id)
    OBVIOUS
  <2>1. f \in RequestsOf(B) /\ f.id = l.id
    BY <1>3, RequestsAreSeen
  <2>2. JrUpdate(l) = [f EXCEPT !.status = l.status, !.input = IF @ = JrNone THEN l.input ELSE @]
    BY DEF JrUpdate
  <2>. QED  BY <2>1, <2>2 DEF RequestsOf, LocalsOf, EntriesOf
<1>. QED  BY <1>1, <1>2, <1>3

\* An entry that is appended is the last one of its request.
LEMMA AppendedIsLast ==
  ASSUME NEW B, jrJournal \in Seq(EntriesOf(B)), NEW e \in EntriesOf(B),
         jrJournal' = Append(jrJournal, e), NEW i
  PROVE  JrStatus(i)' = IF e.kind = "request" /\ e.id = i THEN e.status ELSE JrStatus(i)
<1>. DEFINE n == Len(jrJournal) + 1
<1>1. /\ n \in Nat /\ Len(jrJournal) \in Nat /\ DOMAIN jrJournal = 1..Len(jrJournal)
      /\ DOMAIN jrJournal' = DOMAIN jrJournal \cup {n} /\ jrJournal'[n] = e
      /\ \A k \in DOMAIN jrJournal : jrJournal'[k] = jrJournal[k] /\ k < n
  OBVIOUS
<1>. HIDE DEF n
<1>2. CASE e.kind = "request" /\ e.id = i
  <2>1. JrOf(i)' = JrOf(i) \cup {n} /\ JrOf(i) \subseteq 1..Len(jrJournal)
    BY <1>1, <1>2 DEF JrOf
  <2>2. \A k \in JrOf(i) : k < n /\ k \in Nat
    BY <1>1, <2>1
  <2>. DEFINE S == JrOf(i)'
  <2>3. S = JrOf(i) \cup {n}
    BY <2>1
  <2>. HIDE DEF S
  <2>4. \A k \in S : k <= n
    BY <1>1, <2>2, <2>3
  <2>5. \A k \in S : n <= k => k = n
    BY <1>1, <2>2, <2>3
  <2>6. JrLast(S) = n
    <3>1. S # {} /\ n \in S
      BY <2>3
    <3>2. JrLast(S) = CHOOSE k \in S : \A l \in S : l <= k
      BY <3>1 DEF JrLast
    <3>3. JrLast(S) \in S /\ \A l \in S : l <= JrLast(S)
      BY <2>4, <3>1, <3>2, Zenon
    <3>. QED  BY <2>5, <3>1, <3>3
  <2>7. JrLast(JrOf(i))' = n
    BY <2>6 DEF S, JrLast
  <2>. QED  BY <1>1, <1>2, <2>1, <2>7 DEF JrStatus, JrEntry
<1>3. CASE ~(e.kind = "request" /\ e.id = i)
  <2>1. JrOf(i)' = JrOf(i) /\ JrOf(i) \subseteq 1..Len(jrJournal)
    BY <1>1, <1>3 DEF JrOf
  <2>2. JrOf(i) # {} => JrLast(JrOf(i)) \in DOMAIN jrJournal
    BY <1>1, <2>1, LastOfEntries
  <2>3. JrLast(JrOf(i))' = JrLast(JrOf(i))
    BY <2>1 DEF JrLast
  <2>. QED  BY <1>1, <1>3, <2>1, <2>2, <2>3 DEF JrStatus, JrEntry
<1>. QED  BY <1>2, <1>3

\* An append that says no more than the provider has, and is not told of a request
\* after its last status.
Tells(e) ==
  /\ jrJournal' = Append(jrJournal, e)
  /\ e.kind = "request"  => RequestTells(e)' /\ JrStatus(e.id) \notin JrTerminal
  /\ e.kind = "response" => ResponseTells(e)'

KeptIsTold(r) == r \in DOMAIN jrAnswers /\ Told(r) /\ JrStatus(jrAnswers[r].id) \in JrTerminal

\* What was true of answers, entries and requests stays true.
LEMMA ToldStays ==
  ASSUME NEW B, ShapedBy(B), AnswersGrow, DOMAIN jrAnswers' = 1..Len(jrAnswers'),
         UNCHANGED jrJournal \/ \E e \in EntriesOf(B) : Tells(e)
  PROVE  /\ \A r, i, x : Replaced(r, i, x) => Replaced(r, i, x)'
         /\ \A r : Told(r) => Told(r)'
         /\ \A i : JrStatus(i) \in JrTerminal => JrStatus(i)' = JrStatus(i)
         /\ \A e : RequestTells(e) => RequestTells(e)'
         /\ \A e : ResponseTells(e) => ResponseTells(e)'
         /\ \A l : PayloadOf(l) => PayloadOf(l)'
         /\ \A r : KeptIsTold(r) => KeptIsTold(r)'
         /\ \A pc, l : ClientTells(pc, l) => ClientTells(pc, l)'
<1>1. \A r \in DOMAIN jrAnswers : r \in DOMAIN jrAnswers' /\ jrAnswers'[r] = jrAnswers[r]
  BY DEF AnswersGrow, ShapedBy
<1>2. jrJournal \in Seq(EntriesOf(B))
  BY DEF ShapedBy
<1>3. ASSUME NEW r, NEW i, NEW x, Replaced(r, i, x) PROVE Replaced(r, i, x)'
  BY <1>1, <1>3 DEF Replaced
<1>4. ASSUME NEW r, Told(r) PROVE Told(r)'
  BY <1>2, <1>4 DEF Told, Tells
<1>5. ASSUME NEW i, JrStatus(i) \in JrTerminal PROVE JrStatus(i)' = JrStatus(i)
  <2>1. CASE UNCHANGED jrJournal
    BY <2>1 DEF JrStatus, JrEntry, JrOf
  <2>2. ASSUME NEW e \in EntriesOf(B), Tells(e) PROVE JrStatus(i)' = JrStatus(i)
    <3>1. JrStatus(i)' = IF e.kind = "request" /\ e.id = i THEN e.status ELSE JrStatus(i)
      BY <1>2, <2>2, AppendedIsLast DEF Tells
    <3>. QED  BY <1>5, <2>2, <3>1 DEF Tells
  <2>. QED  BY <2>1, <2>2
<1>6. ASSUME NEW e, RequestTells(e) PROVE RequestTells(e)'
  BY <1>1, <1>3, <1>6 DEF RequestTells
<1>7. ASSUME NEW e, ResponseTells(e) PROVE ResponseTells(e)'
  BY <1>1, <1>7 DEF ResponseTells
<1>8. ASSUME NEW l, PayloadOf(l) PROVE PayloadOf(l)'
  BY <1>1, <1>3, <1>8 DEF PayloadOf
<1>9. ASSUME NEW r, KeptIsTold(r) PROVE KeptIsTold(r)'
  BY <1>1, <1>4, <1>5, <1>9 DEF KeptIsTold
<1>10. ASSUME NEW pc, NEW l, ClientTells(pc, l) PROVE ClientTells(pc, l)'
  <2>1. l.id.prev \in 0..Len(jrAnswers) => l.id.prev \in 0..Len(jrAnswers')
    BY DEF AnswersGrow
  <2>. QED  BY <1>4, <1>5, <1>8, <1>10, <2>1 DEF ClientTells
<1>. QED  BY <1>3, <1>4, <1>5, <1>6, <1>7, <1>8, <1>9, <1>10

\* The histories of a session, told in four places.
Story == AnswersRemember /\ ClientsTell /\ EntriesTell /\ KeptAreTold

\* A step that appends at most one entry that tells the truth keeps the story true.
LEMMA StoryStep ==
  ASSUME Story, AnswersRemember', NEW B, ShapedBy(B), AnswersGrow,
         DOMAIN jrAnswers' = 1..Len(jrAnswers'),
         UNCHANGED jrJournal \/ \E e \in EntriesOf(B) : Tells(e),
         NEW p \in JrClients, NEW label, NEW m, JrGo(p, label, m), ClientTells(label, m)',
         NEW X, jrKept' = jrKept \cup X, \A r \in X : KeptIsTold(r)'
  PROVE  Story'
<1>1. /\ \A e : RequestTells(e) => RequestTells(e)'
      /\ \A e : ResponseTells(e) => ResponseTells(e)'
      /\ \A r : KeptIsTold(r) => KeptIsTold(r)'
      /\ \A pc, l : ClientTells(pc, l) => ClientTells(pc, l)'
  BY ToldStays
<1>2. ClientsTell'
  <2>1. \A q \in JrClients : IF q = p THEN jrPc'[q] = label /\ jrLoc'[q] = m
                             ELSE jrPc'[q] = jrPc[q] /\ jrLoc'[q] = jrLoc[q]
    BY DEF JrGo, ShapedBy
  <2>2. ASSUME NEW q \in JrClients PROVE ClientTells(jrPc[q], jrLoc[q])'
    <3>. PICK pc, l : pc = jrPc'[q] /\ l = jrLoc'[q]
      OBVIOUS
    <3>1. ClientTells(pc, l)'
      BY <1>1, <2>1 DEF Story, ClientsTell
    <3>. QED  BY <3>1
  <2>. QED  BY <2>2 DEF ClientsTell
<1>3. EntriesTell'
  <2>1. CASE UNCHANGED jrJournal
    BY <1>1, <2>1 DEF Story, EntriesTell
  <2>2. ASSUME NEW e \in EntriesOf(B), Tells(e) PROVE EntriesTell'
    <3>1. \A k \in DOMAIN jrJournal' : \/ k \in DOMAIN jrJournal /\ jrJournal'[k] = jrJournal[k]
                                       \/ k \notin DOMAIN jrJournal /\ jrJournal'[k] = e
      BY <2>2, Appending DEF Tells, ShapedBy
    <3>2. ASSUME NEW k \in DOMAIN jrJournal', NEW f, f = jrJournal'[k]
          PROVE  /\ f.kind = "request"  => RequestTells(f)'
                 /\ f.kind = "response" => ResponseTells(f)'
      BY <1>1, <2>2, <3>1, <3>2 DEF Story, EntriesTell, Tells
    <3>. QED  BY <3>2 DEF EntriesTell
  <2>. QED  BY <2>1, <2>2
<1>4. KeptAreTold'
  <2>1. \A r \in jrKept : KeptIsTold(r)
    BY DEF Story, KeptAreTold, KeptIsTold
  <2>2. \A r \in jrKept' : KeptIsTold(r)'
    BY <1>1, <2>1
  <2>. QED  BY <2>2 DEF KeptAreTold, KeptIsTold
<1>. QED  BY <1>2, <1>3, <1>4 DEF Story

\* A payload that removes items a history has counts what is left.
LEMMA PayloadIsBag ==
  ASSUME NEW h \in JrBags, NEW X \in SUBSET {c \in JrItems : h[c] > 0}, NEW t
  PROVE  JrPayload(h, X, t) \in JrBags
<1>1. \A c \in JrItems : h[c] \in Nat /\ (c \in X => h[c] - 1 \in Nat)
  BY DEF JrBags
<1>2. JrPayload(h, X, t) = [c \in JrItems |-> IF c = t THEN 1 ELSE IF c \in X THEN h[c] - 1 ELSE h[c]]
  BY DEF JrPayload
<1>. QED  BY <1>1, <1>2 DEF JrBags

\* A new answer is remembered with what it continues.
LEMMA NewAnswerRemembered ==
  ASSUME NumbersInv, AnswersRemember, NEW p \in JrClients, JournalAnswer(p),
         ClientTells("wait", jrLoc[p])
  PROVE  /\ AnswersRemember' /\ AnswersGrow /\ DOMAIN jrAnswers' = 1..Len(jrAnswers')
         /\ \A l : l = [jrLoc[p] EXCEPT !.answer = Len(jrAnswers) + 1, !.status = "completed"]
                     => PayloadOf(l)'
<1>. PICK B : ShapedBy(B)
  BY DEF NumbersInv, Shaped
<1>. PICK r : r = Len(jrAnswers) + 1
  OBVIOUS
<1>. PICK l : l = jrLoc[p]
  OBVIOUS
<1>. PICK a : a = [id |-> l.id, kind |-> l.kind, holds |-> JrRemembers(l, r)]
  OBVIOUS
<1>1. /\ jrAnswers \in Seq(AnswersOf(B)) /\ l \in LocalsOf(B)
      /\ Len(jrAnswers) \in Nat /\ DOMAIN jrAnswers = 1..Len(jrAnswers)
  BY DEF ShapedBy
<1>2. jrAnswers' = Append(jrAnswers, a) /\ r \in 1..JrMaxAnswers
  BY <1>1, CodexJournalAssumption DEF JournalAnswer
<1>3. /\ DOMAIN jrAnswers' = 1..r /\ Len(jrAnswers') = r /\ jrAnswers'[r] = a
      /\ \A q \in 1..Len(jrAnswers) : jrAnswers'[q] = jrAnswers[q]
  BY <1>1, <1>2
<1>4. AnswersGrow
  BY <1>1, <1>3 DEF AnswersGrow
<1>5. l.id \in JrIds /\ l.id.prev \in 0..Len(jrAnswers)
      /\ IF l.kind \in JrFresh THEN l.input \in JrBags ELSE l.input = JrNone
  BY DEF ClientTells
<1>6. a.id = l.id /\ a.kind = l.kind /\ a.holds = JrRemembers(l, r)
  OBVIOUS
<1>7. AnswerRemembers(r)'
  <2>1. a.holds = [c \in JrItems |->
          (IF c = r THEN 1 ELSE 0)
            + (IF l.kind \in JrFresh THEN l.input[c]
               ELSE (IF c = l.id.text THEN 1 ELSE 0)
                    + (IF l.id.prev = 0 THEN 0 ELSE jrAnswers[l.id.prev].holds[c]))]
    BY <1>6 DEF JrRemembers
  <2>2. l.id.prev # 0 => /\ jrAnswers'[l.id.prev] = jrAnswers[l.id.prev]
                         /\ jrAnswers[l.id.prev].holds \in JrBags
    <3>1. l.id.prev # 0 => l.id.prev \in 1..Len(jrAnswers)
      BY <1>1, <1>5
    <3>. QED  BY <1>1, <1>3, <3>1 DEF AnswersRemember, AnswerRemembers
  <2>3. a.holds \in JrBags
    <3>1. \A c \in JrItems : l.kind \in JrFresh => l.input[c] \in Nat
      BY <1>5 DEF JrBags
    <3>2. \A c \in JrItems : l.id.prev # 0 => jrAnswers[l.id.prev].holds[c] \in Nat
      BY <2>2 DEF JrBags
    <3>. QED  BY <2>1, <3>1, <3>2 DEF JrBags
  <2>4. l.kind \notin JrFresh =>
          a.holds = [c \in JrItems |->
            (IF c = r THEN 1 ELSE 0) + ((IF c = l.id.text THEN 1 ELSE 0)
              + (IF l.id.prev = 0 THEN 0 ELSE jrAnswers'[l.id.prev].holds[c]))]
    BY <2>1, <2>2
  <2>5. a.id.prev < r
    BY <1>1, <1>5, <1>6
  <2>. QED  BY <1>3, <1>5, <1>6, <2>3, <2>4, <2>5 DEF AnswerRemembers
<1>8. ASSUME NEW q \in 1..Len(jrAnswers) PROVE AnswerRemembers(q)'
  <2>1. AnswerRemembers(q) /\ jrAnswers'[q] = jrAnswers[q]
    BY <1>1, <1>3 DEF AnswersRemember
  <2>2. jrAnswers[q].id.prev # 0 => jrAnswers'[jrAnswers[q].id.prev] = jrAnswers[jrAnswers[q].id.prev]
    <3>1. jrAnswers[q].id.prev \in Nat /\ jrAnswers[q].id.prev < q
      BY <2>1, CodexJournalAssumption DEF AnswerRemembers, JrIds, JrHeads
    <3>. QED  BY <1>1, <1>3, <3>1
  <2>. QED  BY <2>1, <2>2 DEF AnswerRemembers
<1>9. AnswersRemember'
  <2>1. \A q \in DOMAIN jrAnswers' : q = r \/ q \in 1..Len(jrAnswers)
    BY <1>1, <1>3
  <2>. QED  BY <1>7, <1>8, <2>1 DEF AnswersRemember
<1>10. ASSUME NEW m, m = [l EXCEPT !.answer = r, !.status = "completed"] PROVE PayloadOf(m)'
  <2>1. m.answer = r /\ m.id = l.id /\ m.kind = l.kind /\ m.input = l.input
    BY <1>1, <1>10 DEF LocalsOf
  <2>2. r \in DOMAIN jrAnswers' /\ jrAnswers'[r].id = l.id /\ jrAnswers'[r].kind = l.kind
        /\ jrAnswers'[r].holds = a.holds
    BY <1>1, <1>3, <1>6
  <2>3. CASE l.kind \in JrFresh
    <3>1. a.holds = [c \in JrItems |-> (IF c = r THEN 1 ELSE 0) + l.input[c]]
      BY <1>6, <2>3 DEF JrRemembers
    <3>. QED  BY <1>5, <2>1, <2>2, <2>3, <3>1 DEF PayloadOf, Replaced
  <2>4. CASE l.kind \notin JrFresh
    BY <1>5, <2>1, <2>2, <2>4 DEF PayloadOf
  <2>. QED  BY <2>3, <2>4
<1>. QED  BY <1>3, <1>4, <1>9, <1>10

StoryInv == NumbersInv /\ Story

\* Every step keeps the story.
LEMMA StoryKept == StoryInv /\ [JournalNext]_jrVars => StoryInv'
<1>. SUFFICES ASSUME StoryInv, [JournalNext]_jrVars PROVE StoryInv'
  OBVIOUS
<1>n. NumbersInv /\ NumbersInv' /\ Story
  BY NumbersStep DEF StoryInv
<1>. SUFFICES Story'
  BY <1>n DEF StoryInv
<1>. PICK B : ShapedBy(B)
  BY <1>n DEF NumbersInv, Shaped
<1>a. /\ Len(jrAnswers) \in Nat /\ DOMAIN jrAnswers = 1..Len(jrAnswers)
      /\ \A p \in JrClients : jrLoc[p] \in LocalsOf(B)
  BY DEF ShapedBy
<1>c. \A p \in JrClients : ClientTells(jrPc[p], jrLoc[p])
  BY <1>n DEF Story, ClientsTell
<1>s. ASSUME UNCHANGED jrAnswers
      PROVE  AnswersRemember' /\ AnswersGrow /\ DOMAIN jrAnswers' = 1..Len(jrAnswers')
  BY <1>s, <1>n, <1>a DEF Story, AnswersRemember, AnswerRemembers, AnswersGrow
\* A step of p that no response is completed by, whatever it appends and keeps.
<1>g. ASSUME UNCHANGED <<jrAnswers, jrKept>>,
             UNCHANGED jrJournal \/ \E e \in EntriesOf(B) : Tells(e),
             NEW p \in JrClients, NEW label, NEW m, JrGo(p, label, m), ClientTells(label, m)'
      PROVE  Story'
  <2>. PICK X : X = {}
    OBVIOUS
  <2>1. jrKept' = jrKept \cup X /\ \A r \in X : KeptIsTold(r)'
    BY <1>g
  <2>. QED  BY <1>g, <1>n, <1>s, <2>1, StoryStep
<1>e. \A l : l = JrNoLocal => ClientTells("idle", l)'
  BY DEF ClientTells
<1>k. ASSUME UNCHANGED jrAnswers, UNCHANGED jrJournal \/ \E e \in EntriesOf(B) : Tells(e),
             NEW p \in JrClients, JrEnd(p),
             NEW X, jrKept' = jrKept \cup X, \A r \in X : KeptIsTold(r)'
      PROVE  Story'
  <2>. PICK m : m = JrNoLocal
    OBVIOUS
  <2>1. JrGo(p, "idle", m)
    BY <1>k DEF JrEnd
  <2>. QED  BY <1>k, <1>n, <1>s, <1>e, <2>1, StoryStep
<1>d. ASSUME UNCHANGED <<jrAnswers, jrKept>>,
             UNCHANGED jrJournal \/ \E e \in EntriesOf(B) : Tells(e),
             NEW p \in JrClients, JrEnd(p)
      PROVE  Story'
  <2>. PICK m : m = JrNoLocal
    OBVIOUS
  <2>1. JrGo(p, "idle", m)
    BY <1>d DEF JrEnd
  <2>. QED  BY <1>d, <1>e, <1>g, <2>1
<1>f. ASSUME UNCHANGED <<jrAnswers, jrKept>>, UNCHANGED jrJournal \/ \E e \in EntriesOf(B) : Tells(e),
             NEW p \in JrClients, JrFallBack(p), jrPc[p] # "idle"
      PROVE  Story'
  <2>. PICK m : m = [jrLoc[p] EXCEPT !.kind = "original", !.input = JrNone, !.answer = 0,
                                      !.status = "pending"]
    OBVIOUS
  <2>1. m.kind = "original" /\ m.input = JrNone /\ m.answer = 0 /\ m.id = jrLoc[p].id
    BY <1>a DEF LocalsOf
  <2>2. ClientTells("wait", m)'
    BY <1>c, <1>f, <2>1 DEF ClientTells, JrFresh
  <2>3. JrGo(p, "wait", m)
    BY <1>f DEF JrFallBack
  <2>. QED  BY <1>f, <1>g, <2>2, <2>3
<1>1. ASSUME NEW p \in JrClients, JournalReceive(p) PROVE Story'
  <2>1. PICK i \in [prev : jrKnown \cup {0}, text : JrTexts], ok \in BOOLEAN :
          /\ JrGo(p, "route", [JrNoLocal EXCEPT !.id = i, !.journaled = ok])
          /\ \/ UNCHANGED jrJournal
             \/ JrOf(i) = {} /\ jrJournal' = Append(jrJournal, JrPending(i))
    BY <1>1 DEF JournalReceive, JrAppends, JrThrows
  <2>2. UNCHANGED <<jrAnswers, jrKept>>
    BY <1>1 DEF JournalReceive
  <2>3. i \in JrIds /\ i.prev \in 0..Len(jrAnswers)
    <3>1. jrKnown \in SUBSET (1..Len(jrAnswers)) /\ Len(jrAnswers) <= JrMaxAnswers
      BY DEF ShapedBy
    <3>2. i.prev \in jrKnown \cup {0} /\ i.text \in JrTexts /\ i = [prev |-> i.prev, text |-> i.text]
      BY <2>1
    <3>3. i.prev \in 0..Len(jrAnswers)
      <4>1. CASE i.prev = 0
        BY <1>a, <4>1
      <4>2. CASE i.prev \in jrKnown
        <5>1. i.prev \in 1..Len(jrAnswers)
          BY <4>2, <3>1, Zenon
        <5>. QED  BY <5>1, <1>a
      <4>. QED  BY <4>1, <4>2, <3>2
    <3>4. i.prev \in JrHeads
      BY <1>a, <3>1, <3>3, CodexJournalAssumption DEF JrHeads
    <3>. QED  BY <3>2, <3>3, <3>4 DEF JrIds
  <2>. PICK m : m = [JrNoLocal EXCEPT !.id = i, !.journaled = ok]
    OBVIOUS
  <2>4. m.id = i /\ m.kind = "plain" /\ m.input = JrNone /\ m.answer = 0
    BY DEF JrNoLocal
  <2>5. ClientTells("route", m)'
    BY <2>2, <2>3, <2>4 DEF ClientTells, JrFresh
  <2>6. UNCHANGED jrJournal \/ \E e \in EntriesOf(B) : Tells(e)
    <3>1. ASSUME JrOf(i) = {}, jrJournal' = Append(jrJournal, JrPending(i))
          PROVE  \E e \in EntriesOf(B) : Tells(e)
      <4>. PICK e : e = JrPending(i)
        OBVIOUS
      <4>1. /\ e \in EntriesOf(B) /\ e.kind = "request" /\ e.input = JrNone
            /\ e.status = "pending" /\ e.id = i
        BY <2>3, EntriesFit DEF JrPending
      <4>2. RequestTells(e)' /\ JrStatus(e.id) \notin JrTerminal
        BY <3>1, <4>1 DEF RequestTells, JrStatus, JrTerminal
      <4>. QED  BY <3>1, <4>1, <4>2 DEF Tells
    <3>. QED  BY <2>1, <3>1
  <2>7. JrGo(p, "route", m) /\ UNCHANGED jrKept
    BY <2>1, <2>2
  <2>. QED  BY <1>g, <2>2, <2>5, <2>6, <2>7
<1>2. ASSUME NEW p \in JrClients, JournalPlain(p) PROVE Story'
  <2>. PICK l : l = jrLoc[p]
    OBVIOUS
  <2>1. /\ jrPc[p] = "route" /\ JrGo(p, "wait", l) /\ UNCHANGED jrKept
        /\ UNCHANGED <<jrJournal, jrAnswers>>
    BY <1>2 DEF JournalPlain
  <2>2. ClientTells("wait", l)'
    BY <1>c, <2>1 DEF ClientTells
  <2>. QED  BY <1>g, <2>1, <2>2
<1>3. ASSUME NEW p \in JrClients, JournalRewrite(p) PROVE Story'
  <2>. PICK l : l = jrLoc[p]
    OBVIOUS
  <2>. DEFINE h == JrHolds(JrHistory(l.id.prev))
  <2>1. PICK X \in SUBSET {c \in JrItems : h[c] > 0} :
          JrGo(p, "wait", [l EXCEPT !.kind = IF X = {} THEN "replay" ELSE "rebase",
                                    !.input = JrPayload(h, X, l.id.text)])
    BY <1>3, Zenon DEF JournalRewrite
  <2>2. /\ jrPc[p] = "route" /\ UNCHANGED jrKept /\ UNCHANGED <<jrJournal, jrAnswers>>
    BY <1>3 DEF JournalRewrite
  <2>3. h \in JrBags
    BY <1>n, HistoriesAreRight DEF Story
  <2>. HIDE DEF h
  <2>4. JrPayload(h, X, l.id.text) \in JrBags
    BY <2>3, PayloadIsBag
  <2>. PICK x : x = JrPayload(h, X, l.id.text)
    OBVIOUS
  <2>. PICK m : m = [l EXCEPT !.kind = IF X = {} THEN "replay" ELSE "rebase", !.input = x]
    OBVIOUS
  <2>5. m.kind \in JrFresh /\ m.input = x /\ m.id = l.id /\ m.answer = l.answer
    BY <1>a DEF LocalsOf, JrFresh
  <2>6. ClientTells("wait", m)'
    BY <1>c, <2>2, <2>4, <2>5 DEF ClientTells
  <2>7. JrGo(p, "wait", m)
    BY <2>1
  <2>. QED  BY <1>g, <2>2, <2>6, <2>7
<1>4. ASSUME NEW p \in JrClients, JournalAnswer(p) PROVE Story'
  <2>1. jrPc[p] = "wait" /\ UNCHANGED jrJournal /\ UNCHANGED jrKept
    BY <1>4 DEF JournalAnswer
  <2>2. /\ AnswersRemember' /\ AnswersGrow /\ DOMAIN jrAnswers' = 1..Len(jrAnswers')
        /\ \A l : l = [jrLoc[p] EXCEPT !.answer = Len(jrAnswers) + 1, !.status = "completed"]
                    => PayloadOf(l)'
    BY <1>4, <1>c, <1>n, <2>1, NewAnswerRemembered DEF Story
  <2>3. ASSUME NEW label, NEW m, JrGo(p, label, m), ClientTells(label, m)' PROVE Story'
    <3>. PICK X : X = {}
      OBVIOUS
    <3>1. jrKept' = jrKept \cup X /\ \A r \in X : KeptIsTold(r)'
      BY <2>1
    <3>. QED  BY <1>n, <2>1, <2>2, <2>3, <3>1, StoryStep
  <2>4. CASE JrEnd(p)
    <3>. PICK m : m = JrNoLocal
      OBVIOUS
    <3>1. JrGo(p, "idle", m)
      BY <2>4 DEF JrEnd
    <3>. QED  BY <1>e, <2>3, <3>1
  <2>5. CASE JrGo(p, "response", [jrLoc[p] EXCEPT !.answer = Len(jrAnswers) + 1, !.status = "completed"])
    <3>. PICK m : m = [jrLoc[p] EXCEPT !.answer = Len(jrAnswers) + 1, !.status = "completed"]
      OBVIOUS
    <3>1. m.status = "completed" /\ m.id = jrLoc[p].id
      BY <1>a DEF LocalsOf
    <3>2. m.id \in JrIds /\ m.id.prev \in 0..Len(jrAnswers')
      BY <1>c, <2>1, <2>2, <3>1 DEF ClientTells, AnswersGrow
    <3>3. ClientTells("response", m)'
      BY <2>2, <3>1, <3>2 DEF ClientTells
    <3>4. JrGo(p, "response", m)
      BY <2>5
    <3>. QED  BY <2>3, <3>3, <3>4
  <2>. QED  BY <1>4, <2>4, <2>5 DEF JournalAnswer
<1>5. ASSUME NEW p \in JrClients, JournalNoAnswer(p) PROVE Story'
  <2>1. jrPc[p] = "wait" /\ UNCHANGED <<jrJournal, jrAnswers, jrKept>>
    BY <1>5 DEF JournalNoAnswer
  <2>2. CASE JrFallBack(p)
    BY <2>1, <2>2, <1>f
  <2>3. CASE JrEnd(p)
    BY <2>1, <2>3, <1>d
  <2>4. ASSUME NEW s \in {"failed", "incomplete"},
               JrGo(p, "response", [jrLoc[p] EXCEPT !.kind = "original", !.input = JrNone, !.status = s])
        PROVE  Story'
    <3>. PICK m : m = [jrLoc[p] EXCEPT !.kind = "original", !.input = JrNone, !.status = s]
      OBVIOUS
    <3>1. m.id = jrLoc[p].id /\ m.answer = jrLoc[p].answer /\ m.input = JrNone /\ m.status # "completed"
      BY <1>a DEF LocalsOf
    <3>2. ClientTells("response", m)'
      BY <1>c, <2>1, <3>1 DEF ClientTells
    <3>3. JrGo(p, "response", m)
      BY <2>4
    <3>. QED  BY <1>g, <2>1, <3>2, <3>3
  <2>. QED  BY <1>5, <2>2, <2>3, <2>4 DEF JournalNoAnswer
<1>6. ASSUME NEW p \in JrClients, JournalResponse(p) PROVE Story'
  <2>. PICK l : l = jrLoc[p]
    OBVIOUS
  <2>. PICK e : e = JrResponse(l)
    OBVIOUS
  <2>1. jrPc[p] = "response" /\ UNCHANGED <<jrAnswers, jrKept>>
    BY <1>6 DEF JournalResponse
  <2>2. /\ l.id \in JrIds
        /\ IF l.status = "completed" THEN PayloadOf(l) ELSE l.answer = 0 /\ l.input = JrNone
    BY <1>c, <2>1 DEF ClientTells
  <2>3. /\ e \in EntriesOf(B) /\ e.kind = "response" /\ e.status = l.status /\ e.answer = l.answer
        /\ e.id = l.id /\ e.prev = IF l.kind \in JrFresh THEN 0 ELSE l.id.prev
    BY <1>a, <2>2, EntriesFit DEF JrResponse
  <2>4. ResponseTells(e)'
    BY <2>1, <2>2, <2>3 DEF ResponseTells, PayloadOf, Replaced
  <2>5. jrJournal' = Append(jrJournal, e) => Tells(e)
    BY <2>3, <2>4 DEF Tells
  <2>6. CASE jrJournal' = Append(jrJournal, e) /\ JrGo(p, "status", l)
    <3>1. l.answer # 0 => Told(l.answer)'
      <4>1. Len(jrJournal) + 1 \in DOMAIN jrJournal' /\ jrJournal'[Len(jrJournal) + 1] = e
        <5>1. jrJournal \in Seq(EntriesOf(B))
          BY DEF ShapedBy
        <5>. QED  BY <2>3, <2>6, <5>1
      <4>. QED  BY <2>2, <2>3, <4>1 DEF Told
    <3>2. ClientTells("status", l)'
      <4>1. ClientTells("response", l)
        BY <1>c, <2>1
      <4>2. ClientTells("response", l)'
        BY <2>1, <2>3, <2>5, <2>6, <1>a, <1>s, <4>1, ToldStays
      <4>. QED  BY <3>1, <4>2 DEF ClientTells
    <3>. QED  BY <1>g, <2>1, <2>3, <2>5, <2>6, <3>2
  <2>7. CASE JrUnwritten(p) /\ jrJournal' \in {jrJournal, Append(jrJournal, e)}
    <3>1. UNCHANGED jrJournal \/ \E x \in EntriesOf(B) : Tells(x)
      BY <2>3, <2>5, <2>7
    <3>2. JrFallBack(p) \/ JrEnd(p)
      BY <2>7 DEF JrUnwritten
    <3>. QED  BY <1>d, <1>f, <2>1, <3>1, <3>2
  <2>. QED  BY <1>6, <2>6, <2>7 DEF JournalResponse, JrAppends, JrThrows
<1>7. ASSUME NEW p \in JrClients, JournalStatus(p) PROVE Story'
  <2>. PICK l : l = jrLoc[p]
    OBVIOUS
  <2>. PICK e : e = JrUpdate(l)
    OBVIOUS
  <2>1. jrPc[p] = "status" /\ UNCHANGED jrAnswers
    BY <1>7 DEF JournalStatus
  <2>2. ClientTells("status", l) /\ l.id \in JrSeenIds /\ l \in LocalsOf(B)
    BY <1>a, <1>c, <1>n, <2>1 DEF NumbersInv, AnsweredByClients
  <2>3. IF l.status = "completed" THEN PayloadOf(l) ELSE l.answer = 0 /\ l.input = JrNone
    BY <2>2 DEF ClientTells
  <2>. PICK f : f = JrEntry(l.id)
    OBVIOUS
  <2>4. /\ e \in EntriesOf(B) /\ e.kind = "request" /\ e.id = l.id /\ e.status = l.status
        /\ e.input = IF f.input = JrNone THEN l.input ELSE f.input
    BY <2>2, EntriesFit
  <2>5. RequestTells(f) /\ f.id = l.id
    <3>1. JrOf(l.id) # {}
      BY <2>2, RequestsAreSeen
    <3>2. JrOf(l.id) \in SUBSET (1..Len(jrJournal)) /\ Len(jrJournal) \in Nat
      BY DEF JrOf, ShapedBy
    <3>3. JrLast(JrOf(l.id)) \in JrOf(l.id)
      BY <3>1, <3>2, LastOfEntries
    <3>. QED  BY <1>n, <3>3 DEF Story, EntriesTell, JrOf, JrEntry
  <2>6. RequestTells(e)'
    <3>1. ASSUME e.input # JrNone PROVE \E r \in DOMAIN jrAnswers : Replaced(r, e.id, e.input)
      <4>1. CASE f.input # JrNone
        BY <2>4, <2>5, <4>1 DEF RequestTells
      <4>2. CASE f.input = JrNone
        BY <2>3, <2>4, <3>1, <4>2 DEF PayloadOf, Replaced
      <4>. QED  BY <4>1, <4>2
    <3>2. ASSUME e.input = JrNone, e.status = "completed"
          PROVE  \E r \in DOMAIN jrAnswers : jrAnswers[r].id = e.id /\ jrAnswers[r].kind \notin JrFresh
      <4>1. PayloadOf(l) /\ l.input = JrNone
        BY <2>3, <2>4, <3>2
      <4>2. l.kind \notin JrFresh
        BY <4>1, CodexJournalAssumption DEF PayloadOf, Replaced
      <4>. QED  BY <2>4, <4>1, <4>2 DEF PayloadOf
    <3>. QED  BY <2>1, <3>1, <3>2 DEF RequestTells, Replaced
  <2>7. ASSUME JrAdvances(JrStatus(l.id), l.status), jrJournal' = Append(jrJournal, e)
        PROVE  Tells(e) /\ JrStatus(l.id)' = l.status
    <3>1. JrStatus(l.id)' = l.status
      BY <2>4, <2>7, AppendedIsLast DEF ShapedBy
    <3>. QED  BY <2>4, <2>6, <2>7, <3>1 DEF Tells, JrAdvances
  <2>8. ASSUME JrStatusWritten(p), UNCHANGED jrJournal \/ \E x \in EntriesOf(B) : Tells(x),
               l.answer # 0 => JrStatus(l.id)' \in JrTerminal
        PROVE  Story'
    <3>0. ClientTells("status", l)'
      BY <1>a, <1>s, <2>1, <2>2, <2>8, ToldStays
    <3>1. CASE JrGo(p, "commit", l) /\ UNCHANGED jrKept
      <4>1. ClientTells("commit", l)'
        BY <2>8, <3>0 DEF ClientTells
      <4>. QED  BY <1>g, <2>1, <2>8, <3>1, <4>1
    <3>2. CASE JrEnd(p) /\ JrKeep(l)
      <4>1. jrKept' = jrKept \cup ({l.answer} \ {0})
        BY <3>2 DEF JrKeep
      <4>2. l.answer # 0 => /\ l.answer \in DOMAIN jrAnswers' /\ jrAnswers'[l.answer].id = l.id
                            /\ Told(l.answer)'
        BY <3>0 DEF ClientTells, PayloadOf, Replaced
      <4>3. \A r \in {l.answer} \ {0} : KeptIsTold(r)'
        BY <2>8, <4>2 DEF KeptIsTold
      <4>. QED  BY <1>k, <2>1, <2>8, <3>2, <4>1, <4>3
    <3>. QED  BY <2>8, <3>1, <3>2 DEF JrStatusWritten
  <2>9. CASE ~JrAdvances(JrStatus(l.id), l.status) /\ JrStatusWritten(p) /\ UNCHANGED jrJournal
    <3>1. l.answer # 0 => JrStatus(l.id) \in JrTerminal
      BY <2>3, <2>9 DEF JrAdvances, JrTerminal
    <3>2. JrStatus(l.id)' = JrStatus(l.id)
      BY <2>9 DEF JrStatus, JrEntry, JrOf
    <3>. QED  BY <2>8, <2>9, <3>1, <3>2
  <2>10. CASE /\ JrAdvances(JrStatus(l.id), l.status) /\ JrStatusWritten(p)
              /\ jrJournal' = Append(jrJournal, e)
    <3>1. l.answer # 0 => JrStatus(l.id)' \in JrTerminal
      BY <2>3, <2>7, <2>10 DEF JrTerminal
    <3>. QED  BY <2>4, <2>7, <2>8, <2>10, <3>1
  <2>11. CASE /\ JrAdvances(JrStatus(l.id), l.status) /\ JrUnwritten(p) /\ UNCHANGED jrKept
              /\ jrJournal' \in {jrJournal, Append(jrJournal, e)}
    <3>1. UNCHANGED jrJournal \/ \E x \in EntriesOf(B) : Tells(x)
      BY <2>4, <2>7, <2>11
    <3>2. JrFallBack(p) \/ JrEnd(p)
      BY <2>11 DEF JrUnwritten
    <3>. QED  BY <1>d, <1>f, <2>1, <2>11, <3>1, <3>2
  <2>. QED  BY <1>7, <2>9, <2>10, <2>11 DEF JournalStatus, JrAppends, JrThrows
<1>8. ASSUME NEW p \in JrClients, JournalCommit(p) PROVE Story'
  <2>. PICK l : l = jrLoc[p]
    OBVIOUS
  <2>1. /\ jrPc[p] = "commit" /\ UNCHANGED <<jrJournal, jrAnswers>> /\ JrEnd(p)
        /\ jrKept' = jrKept \cup ({l.answer} \ {0})
    BY <1>8 DEF JournalCommit, JrKeep
  <2>2. \A r \in {l.answer} \ {0} : KeptIsTold(r)
    BY <1>c, <2>1 DEF ClientTells, PayloadOf, Replaced, KeptIsTold
  <2>3. \A r : KeptIsTold(r) => KeptIsTold(r)'
    BY <1>a, <1>s, <2>1, ToldStays
  <2>. QED  BY <1>k, <2>1, <2>2, <2>3
<1>9. ASSUME NEW p \in JrClients, JournalCommitFails(p) PROVE Story'
  BY <1>9, <1>f DEF JournalCommitFails
<1>10. ASSUME NEW p \in JrClients, JournalCrash(p) PROVE Story'
  <2>1. UNCHANGED <<jrJournal, jrAnswers, jrKept>> /\ JrEnd(p)
    BY <1>10 DEF JournalCrash
  <2>. QED  BY <1>d, <2>1
<1>11. CASE UNCHANGED jrVars
  <2>1. UNCHANGED <<jrJournal, jrAnswers, jrKept, jrPc, jrLoc>>
    BY <1>11 DEF jrVars
  <2>2. AnswersRemember'
    BY <1>n, <2>1 DEF Story, AnswersRemember, AnswerRemembers
  <2>3. ClientsTell'
    <3>1. ASSUME NEW q \in JrClients PROVE ClientTells(jrPc[q], jrLoc[q])'
      <4>. PICK pc, l : pc = jrPc[q] /\ l = jrLoc[q]
        OBVIOUS
      <4>1. ClientTells(pc, l)
        BY <1>n DEF Story, ClientsTell
      <4>2. ClientTells(pc, l)'
        BY <1>s, <1>a, <2>1, <4>1, ToldStays
      <4>. QED  BY <2>1, <4>2
    <3>. QED  BY <3>1 DEF ClientsTell
  <2>4. EntriesTell'
    BY <1>n, <2>1 DEF Story, EntriesTell, RequestTells, ResponseTells, Replaced
  <2>5. KeptAreTold'
    <3>1. \A r : KeptIsTold(r) => KeptIsTold(r)'
      BY <1>s, <1>a, <2>1, ToldStays
    <3>. QED  BY <1>n, <2>1, <3>1 DEF Story, KeptAreTold, KeptIsTold
  <2>. QED  BY <2>2, <2>3, <2>4, <2>5 DEF Story
<1>. QED
  BY <1>1, <1>2, <1>3, <1>4, <1>5, <1>6, <1>7, <1>8, <1>9, <1>10, <1>11 DEF JournalNext

\* The inductive invariant of the histories holds in every state of every session.
THEOREM StoryInvariance == JournalSpec => []StoryInv
<1>1. JournalInit => Story
  BY DEF JournalInit, Story, AnswersRemember, ClientsTell, ClientTells, EntriesTell, KeptAreTold,
     JrNoLocal
<1>2. JournalInit /\ NumbersInv => StoryInv
  BY <1>1 DEF StoryInv
<1>3. JournalSpec => JournalInit /\ []NumbersInv /\ [][JournalNext]_jrVars
  BY NumbersInvariance, PTL DEF JournalSpec
<1>. QED  BY <1>2, <1>3, StoryKept, PTL

\* A history that the proxy takes for complete has every item as often as the provider
\* remembers it, for any number of requests, retries, failed appends and crashes.
THEOREM HistoriesAreTrue == JournalSpec => []HistoryIsWhatWasSent
<1>1. StoryInv => HistoryIsWhatWasSent
  BY HistoriesAreRight DEF StoryInv, Story
<1>. QED  BY <1>1, StoryInvariance, PTL

\* Responses that were all journaled make a complete history, unless a request among them
\* had failed before or an entry was overtaken.
THEOREM KeptTurnsAreFound == JournalSpec => []JournaledTurnsAreFound
<1>1. StoryInv => JournaledTurnsAreFound
  BY KeptAreFound DEF StoryInv, Story
<1>. QED  BY <1>1, StoryInvariance, PTL

\* The bounds on what a session sends and on what fails are kept.
LEMMA BoundsKept ==
  jrSent \in 0..JrMaxSent /\ jrFaults \in 0..JrMaxFaults /\ [JournalNext]_jrVars
    => (jrSent \in 0..JrMaxSent /\ jrFaults \in 0..JrMaxFaults)'
<1>. SUFFICES ASSUME jrSent \in 0..JrMaxSent, jrFaults \in 0..JrMaxFaults, [JournalNext]_jrVars
              PROVE  jrSent' \in 0..JrMaxSent /\ jrFaults' \in 0..JrMaxFaults
  OBVIOUS
<1>1. jrSent' = jrSent \/ (jrSent < JrMaxSent /\ jrSent' = jrSent + 1)
  BY DEF JournalNext, jrVars, jrCount, JournalReceive, JournalPlain, JournalRewrite, JournalAnswer,
     JournalNoAnswer, JournalResponse, JournalStatus, JournalCommit, JournalCommitFails, JournalCrash
<1>2. jrFaults' = jrFaults \/ (jrFaults < JrMaxFaults /\ jrFaults' = jrFaults + 1)
  BY DEF JournalNext, jrVars, jrCount, JournalReceive, JournalPlain, JournalRewrite, JournalAnswer,
     JournalNoAnswer, JournalResponse, JournalStatus, JournalCommit, JournalCommitFails, JournalCrash,
     JrFault, JrAppends, JrThrows
<1>. QED  BY <1>1, <1>2, CodexJournalAssumption

\* What is told of entries and answers types them.
LEMMA StoryIsTyped ==
  ASSUME StoryInv, jrSent \in 0..JrMaxSent, jrFaults \in 0..JrMaxFaults
  PROVE  JournalTypeOK
<1>. PICK B : ShapedBy(B)
  BY DEF StoryInv, NumbersInv, Shaped
<1>n. NumbersInv /\ EntriesTell /\ AnswersRemember /\ ClientsTell /\ KeptAreTold
  BY DEF StoryInv, Story
<1>1. jrJournal \in Seq(JrRequests \cup JrResponses)
  <2>1. \A k \in DOMAIN jrJournal : jrJournal[k] \in JrRequests \cup JrResponses
    <3>. SUFFICES ASSUME NEW k \in DOMAIN jrJournal PROVE jrJournal[k] \in JrRequests \cup JrResponses
      OBVIOUS
    <3>1. jrJournal[k] \in EntriesOf(B)
      BY DEF ShapedBy
    <3>2. CASE jrJournal[k] \in RequestsOf(B)
      <4>1. jrJournal[k].kind = "request" /\ RequestTells(jrJournal[k])
        BY <1>n, <3>2 DEF EntriesTell, RequestsOf
      <4>2. jrJournal[k].input \in JrBags \cup {JrNone}
        BY <4>1 DEF RequestTells, Replaced
      <4>. QED  BY <3>2, <4>2 DEF RequestsOf, JrRequests
    <3>. QED  BY <3>1, <3>2 DEF EntriesOf
  <2>. QED  BY <2>1 DEF ShapedBy
<1>2. jrAnswers \in Seq([id : JrIds, kind : JrKinds, holds : JrBags])
  <2>1. \A r \in DOMAIN jrAnswers : jrAnswers[r] \in [id : JrIds, kind : JrKinds, holds : JrBags]
    <3>1. \A r \in DOMAIN jrAnswers : jrAnswers[r] \in AnswersOf(B)
      BY DEF ShapedBy
    <3>2. \A r \in DOMAIN jrAnswers : jrAnswers[r].id \in JrIds /\ jrAnswers[r].holds \in JrBags
      BY <1>n DEF AnswersRemember, AnswerRemembers
    <3>3. ASSUME NEW a \in AnswersOf(B), a.id \in JrIds, a.holds \in JrBags
          PROVE  a \in [id : JrIds, kind : JrKinds, holds : JrBags]
      BY <3>3 DEF AnswersOf
    <3>. QED  BY <3>1, <3>2, <3>3
  <2>2. jrAnswers \in Seq(AnswersOf(B))
    BY DEF ShapedBy
  <2>. DEFINE S == [id : JrIds, kind : JrKinds, holds : JrBags]
  <2>3. \A r \in DOMAIN jrAnswers : jrAnswers[r] \in S
    BY <2>1
  <2>. HIDE DEF S
  <2>4. jrAnswers \in Seq(S)
    BY <2>2, <2>3
  <2>. QED  BY <2>4 DEF S
<1>3. jrLoc \in [JrClients -> JrLocal]
  <2>1. ASSUME NEW p \in JrClients PROVE jrLoc[p] \in JrLocal
    <3>1. jrLoc[p] \in LocalsOf(B) /\ ClientTells(jrPc[p], jrLoc[p]) /\ jrPc[p] \in JrLabels
      BY <1>n DEF ShapedBy, ClientsTell
    <3>2. jrLoc[p].input \in JrBags \cup {JrNone}
      BY <3>1 DEF ClientTells, PayloadOf, Replaced, JrNoLocal, JrLabels
    <3>. QED  BY <3>1, <3>2 DEF LocalsOf, JrLocal
  <2>. QED  BY <2>1 DEF ShapedBy
<1>4. jrKept \in SUBSET (1..Len(jrAnswers))
  BY <1>n DEF KeptAreTold, ShapedBy
<1>. QED  BY <1>1, <1>2, <1>3, <1>4 DEF JournalTypeOK, ShapedBy

\* Entries, answers and what the processes know are well typed: a payload that is built
\* from a history never counts less than nothing of an item.
THEOREM JournalTypeCorrect == JournalSpec => []JournalTypeOK
<1>1. JournalInit => jrSent \in 0..JrMaxSent /\ jrFaults \in 0..JrMaxFaults
  BY CodexJournalAssumption DEF JournalInit
<1>2. StoryInv /\ jrSent \in 0..JrMaxSent /\ jrFaults \in 0..JrMaxFaults => JournalTypeOK
  BY StoryIsTyped
<1>. QED  BY <1>1, <1>2, BoundsKept, StoryInvariance, PTL DEF JournalSpec
================================================================================
