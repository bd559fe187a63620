---------------------------- MODULE OpenClawProofs ----------------------------
(***************************************************************************)
(* The election of OpenClawLock is a bakery whose losers give up.  The     *)
(* proof is the bakery's: whoever a candidate has compared itself with     *)
(* stays behind it, so two candidates cannot both be ahead of each other,  *)
(* and only a live candidate alone past the election unlinks a lock file.  *)
(*                                                                         *)
(* The queue of procedural memory has no lock.  What it promises is proved *)
(* entry by entry: until somebody writes back a copy that does not know    *)
(* what an entry has become, each step of a call moves it as if the file   *)
(* were written at once.                                                   *)
(*                                                                         *)
(* Eviction writes the archives one by one and then saves the copy.  The   *)
(* invariant says that at each point of this the archives written so far   *)
(* cover what the save will take out for their tasks.  The engine finds    *)
(* the turn of a message by counting what users said; where counting does  *)
(* not go wrong, every message of the copy has no anchor or the right one, *)
(* and each message gets the right one from the message before it.         *)
(*                                                                         *)
(* The archives are files that are emptied and filled again without a      *)
(* lock.  Everything that leads to one leads to a file that was opened     *)
(* once, in the directory and under the key that lead to it, and a call    *)
(* that has met no emptied file still has the directories of all the texts *)
(* it owes before it.                                                      *)
(*                                                                         *)
(* A clean is four writes to four files.  The invariant says what each     *)
(* point between them may rely on, so that the next request can tell from  *)
(* the files how far the one before it came.                               *)
(***************************************************************************)
EXTENDS OpenClawLock, MemoryQueue, OpenClawEviction, ArtifactStore, OpenClawClean,
        WellFoundedInduction, TLAPS

Choosing == {"list", "scan", "publish"}
Leaving  == {"leave", "unleave", "quit"}
Outside  == {"idle", "open", "join"}

Live(p) == p \notin dead
Won(p)  == p \in present /\ pc[p] \in Elected \cup Owning

\* The candidate file of a live process is what its control point says.
FileOK(p) ==
  /\ pc[p] \in Choosing => p \in present /\ ticket[p] = 0
  /\ pc[p] \in {"relist", "rescan"} \cup Elected => p \in present /\ ticket[p] > 0
  /\ pc[p] \in Owning /\ p \in present => ticket[p] > 0
  /\ pc[p] \in Outside => p \notin present

\* p has read q's candidate file for the second time, or is done reading.
Compared(p, q) == Won(p) \/ (pc[p] = "rescan" /\ q \notin todo[p])

\* q cannot get ahead of p any more.
Behind(q, p) ==
  \/ q \in dead \/ q \notin present
  \/ pc[q] = "list" \/ pc[q] \in Leaving
  \/ pc[q] = "scan" /\ (p \in todo[q] \/ top[q] >= ticket[p])
  \/ pc[q] = "publish" /\ top[q] >= ticket[p]
  \/ ticket[q] > 0 /\ Earlier(p, q)

FilesOK    == \A p \in Procs : Live(p) => FileOK(p)
ElectionOK == \A p, q \in Procs : Live(p) /\ p # q /\ Compared(p, q) => Behind(q, p)

\* The lock file belongs to the owner; whoever is about to unlink it saw it dead.
MainOK ==
  \A p \in Procs : Live(p) =>
    /\ pc[p] \in Owning <=> main = p
    /\ pc[p] = "unlink" => main \in dead

IInv == TypeOK /\ FilesOK /\ ElectionOK /\ MainOK

LEMMA InitIInv == Init => IInv
BY ProcsAssumption, BoundsAssumption
   DEF Init, IInv, TypeOK, FilesOK, FileOK, ElectionOK, Compared, Won, MainOK, None, Labels,
       Owning, Elected, Choosing, Outside, Live

-------------------------------------------------------------------------------
LEMMA StepTyped == TypeOK /\ [Next]_vars => TypeOK'
<1> SUFFICES ASSUME TypeOK, [Next]_vars PROVE TypeOK'
  OBVIOUS
<1> USE BoundsAssumption DEF TypeOK, Labels, Owning, Elected, At, Goto, GiveUp, files
<1>1. ASSUME NEW p \in Procs, Hold(p) PROVE TypeOK'
  BY <1>1 DEF Hold, Call, OpenMain, WriteMain, Act
<1>2. ASSUME NEW p \in Procs, Elect(p) PROVE TypeOK'
  <2>1. CASE Join(p) \/ List(p)
    BY <2>1 DEF Join, List
  <2>2. CASE Scan(p)
    BY <2>2 DEF Scan, Discard, ReadTicket
  <2>3. CASE Publish(p)
    BY <2>3 DEF Publish
  <2>4. CASE Rescan(p)
    BY <2>4 DEF Rescan, Discard, Compare
  <2> QED
    BY <1>2, <2>1, <2>2, <2>3, <2>4 DEF Elect
<1>3. ASSUME NEW p \in Procs, Replace(p) PROVE TypeOK'
  BY <1>3 DEF Replace, OpenGuard, RemoveGuard, WriteGuard, CheckMain, UnlinkMain,
     ReopenMain
<1>4. ASSUME NEW p \in Procs, Finish(p) PROVE TypeOK'
  BY <1>4 DEF Finish, Release, Unlock, DropGuard, Quit
<1>5. ASSUME NEW p \in Procs, Crash(p) PROVE TypeOK'
  BY <1>5 DEF Crash
<1>6. CASE UNCHANGED vars
  BY <1>6 DEF vars
<1> QED
  BY <1>1, <1>2, <1>3, <1>4, <1>5, <1>6 DEF Next

\* A file is discarded only when its process is dead or it is gone already.
LEMMA StepFiles == TypeOK /\ FilesOK /\ [Next]_vars => FilesOK'
<1> SUFFICES ASSUME TypeOK, FilesOK, [Next]_vars PROVE FilesOK'
  OBVIOUS
<1> USE BoundsAssumption DEF TypeOK, FilesOK, FileOK, Live, Owning, Elected, Choosing,
     Leaving, Outside, At, Goto, GiveUp, files
<1>1. ASSUME NEW p \in Procs, Hold(p) PROVE FilesOK'
  BY <1>1 DEF Hold, Call, OpenMain, WriteMain, Act
<1>2. ASSUME NEW p \in Procs, Elect(p) PROVE FilesOK'
  <2>1. CASE Join(p) \/ List(p)
    BY <2>1 DEF Join, List
  <2>2. CASE Scan(p)
    BY <2>2 DEF Scan, Discard, ReadTicket
  <2>3. CASE Publish(p)
    BY <2>3 DEF Publish
  <2>4. CASE Rescan(p)
    BY <2>4 DEF Rescan, Discard, Compare
  <2> QED
    BY <1>2, <2>1, <2>2, <2>3, <2>4 DEF Elect
<1>3. ASSUME NEW p \in Procs, Replace(p) PROVE FilesOK'
  BY <1>3 DEF Replace, OpenGuard, RemoveGuard, WriteGuard, CheckMain, UnlinkMain,
     ReopenMain
<1>4. ASSUME NEW p \in Procs, Finish(p) PROVE FilesOK'
  BY <1>4 DEF Finish, Release, Unlock, DropGuard, Quit
<1>5. ASSUME NEW p \in Procs, Crash(p) PROVE FilesOK'
  BY <1>5 DEF Crash
<1>6. CASE UNCHANGED vars
  BY <1>6 DEF vars
<1> QED
  BY <1>1, <1>2, <1>3, <1>4, <1>5, <1>6 DEF Next

-------------------------------------------------------------------------------
\* A step of r keeps every candidate behind those that have compared with it.
LEMMA StepElection == IInv /\ [Next]_vars => ElectionOK'
<1> SUFFICES ASSUME IInv, [Next]_vars, NEW p \in Procs, NEW q \in Procs,
                    Live(p)', p # q, Compared(p, q)'
             PROVE  Behind(q, p)'
  BY DEF ElectionOK
<1>0. Live(p) /\ p \in Nat /\ q \in Nat
  BY ProcsAssumption DEF IInv, TypeOK, Live, Next, Hold, Call, OpenMain, WriteMain, Act,
     Elect, Join, List, Scan, Discard, ReadTicket, Publish, Rescan, Compare, Replace,
     OpenGuard, RemoveGuard, WriteGuard, CheckMain, UnlinkMain, ReopenMain, Finish,
     Release, Unlock, DropGuard, Quit, Crash, vars
<1> USE <1>0, BoundsAssumption DEF IInv, TypeOK, Live, files, At, Goto, GiveUp
<1>F. FileOK(p) /\ (Live(q) => FileOK(q)) /\ (Compared(p, q) => Behind(q, p))
  BY DEF FilesOK, ElectionOK
<1>N. ticket[p] \in Nat /\ ticket[q] \in Nat /\ top[p] \in Nat /\ top[q] \in Nat
  OBVIOUS
<1> USE <1>F, <1>N DEF FileOK, Compared, Won, Behind, Earlier, Owning, Elected,
        Choosing, Leaving, Outside
<1>1. ASSUME NEW r \in Procs, Hold(r) PROVE Behind(q, p)'
  BY <1>1 DEF Hold, Call, OpenMain, WriteMain, Act
<1>2. ASSUME NEW r \in Procs, Elect(r) PROVE Behind(q, p)'
  <2>1. CASE Join(r)
    BY <2>1 DEF Join
  <2>2. CASE List(r)
    BY <2>2 DEF List
  <2>3. ASSUME NEW s \in todo[r], At(r, "scan"), Discard(r, s) PROVE Behind(q, p)'
    BY <2>3 DEF Discard
  <2>4. ASSUME NEW s \in todo[r], At(r, "scan"), ReadTicket(r, s) PROVE Behind(q, p)'
    BY <2>4 DEF ReadTicket
  <2>5. CASE At(r, "scan") /\ todo[r] = {} /\ Goto(r, "publish")
             /\ UNCHANGED <<files, dead, todo, top>>
    BY <2>5
  <2>6. CASE Publish(r)
    BY <2>6 DEF Publish
  <2>7. ASSUME NEW s \in todo[r], At(r, "rescan"), Discard(r, s) PROVE Behind(q, p)'
    BY <2>7 DEF Discard
  <2>8. ASSUME NEW s \in todo[r], At(r, "rescan"), Compare(r, s) PROVE Behind(q, p)'
    BY <2>8 DEF Compare, LosesTo
  <2>9. CASE At(r, "rescan") /\ todo[r] = {} /\ Goto(r, "guard")
             /\ UNCHANGED <<files, dead, todo, top>>
    BY <2>9
  <2> QED
    BY <1>2, <2>1, <2>2, <2>3, <2>4, <2>5, <2>6, <2>7, <2>8, <2>9
       DEF Elect, Scan, Rescan
<1>3. ASSUME NEW r \in Procs, Replace(r) PROVE Behind(q, p)'
  BY <1>3 DEF Replace, OpenGuard, RemoveGuard, WriteGuard, CheckMain, UnlinkMain,
     ReopenMain
<1>4. ASSUME NEW r \in Procs, Finish(r) PROVE Behind(q, p)'
  BY <1>4 DEF Finish, Release, Unlock, DropGuard, Quit
<1>5. ASSUME NEW r \in Procs, Crash(r) PROVE Behind(q, p)'
  BY <1>5 DEF Crash
<1>6. CASE UNCHANGED vars
  BY <1>6 DEF vars
<1> QED
  BY <1>1, <1>2, <1>3, <1>4, <1>5, <1>6 DEF Next

\* Two live candidates past the election would each be ahead of the other.
LEMMA WinnerUnique == IInv => OneRecoverer
<1> SUFFICES ASSUME IInv, NEW p \in Procs, NEW q \in Procs, Live(p), Live(q),
                    Won(p), Won(q), p # q
             PROVE  FALSE
  BY DEF OneRecoverer, Won, Live
<1>1. Earlier(p, q) /\ Earlier(q, p)
  BY DEF IInv, ElectionOK, Compared, Behind, Live, Won, Leaving, Elected, Owning
<1> QED
  BY <1>1, ProcsAssumption DEF Earlier, IInv, TypeOK

-------------------------------------------------------------------------------
LEMMA StepMain == IInv /\ [Next]_vars => MainOK'
<1> SUFFICES ASSUME IInv, [Next]_vars PROVE MainOK'
  OBVIOUS
<1> USE ProcsAssumption
    DEF IInv, TypeOK, MainOK, Live, None, Owning, Elected, At, Goto, GiveUp, files
<1>1. ASSUME NEW p \in Procs, Hold(p) PROVE MainOK'
  BY <1>1 DEF Hold, Call, OpenMain, WriteMain, Act
<1>2. ASSUME NEW p \in Procs, Elect(p) PROVE MainOK'
  BY <1>2 DEF Elect, Join, List, Scan, Discard, ReadTicket, Publish, Rescan, Compare
<1>3. ASSUME NEW p \in Procs, Replace(p) PROVE MainOK'
  <2>1. CASE OpenGuard(p) \/ RemoveGuard(p) \/ WriteGuard(p)
    BY <2>1 DEF OpenGuard, RemoveGuard, WriteGuard
  <2>2. CASE CheckMain(p)
    BY <2>2 DEF CheckMain, Recoverable
  <2>3. CASE UnlinkMain(p)
    <3>1. \A q \in Procs : Live(q) /\ pc[q] = "unlink" => q = p
      BY <2>3, WinnerUnique DEF UnlinkMain, OneRecoverer, FilesOK, FileOK
    <3> QED
      BY <2>3, <3>1 DEF UnlinkMain
  <2>4. CASE ReopenMain(p)
    BY <2>4 DEF ReopenMain
  <2> QED
    BY <1>3, <2>1, <2>2, <2>3, <2>4 DEF Replace
<1>4. ASSUME NEW p \in Procs, Finish(p) PROVE MainOK'
  BY <1>4 DEF Finish, Release, Unlock, DropGuard, Quit
<1>5. ASSUME NEW p \in Procs, Crash(p) PROVE MainOK'
  BY <1>5 DEF Crash
<1>6. CASE UNCHANGED vars
  BY <1>6 DEF vars
<1> QED
  BY <1>1, <1>2, <1>3, <1>4, <1>5, <1>6 DEF Next

\* Every reachable state of the lock and its election satisfies the invariant.
THEOREM ElectionInvariance == Spec => []IInv
<1>1. IInv /\ [Next]_vars => IInv'
  BY StepTyped, StepFiles, StepElection, StepMain DEF IInv
<1> QED
  BY <1>1, InitIInv, PTL DEF Spec

\* At most one live candidate is past the election, for any number of processes and
\* crashes: ElectionOK makes two of them earlier than each other.
THEOREM ElectionIsExclusive == Spec => []OneRecoverer
  BY ElectionInvariance, WinnerUnique, PTL

\* The lock file of a live owner is never removed or replaced by anybody else.
THEOREM OwnersAreNeverRobbed == Spec => []OwnerExclusive
<1>1. IInv => OwnerExclusive
  BY DEF IInv, MainOK, OwnerExclusive, Live
<1> QED
  BY <1>1, ElectionInvariance, PTL

\* Lock file, candidate files and tickets are always of their types
\* (acquireOpenClawSessionLock), for any number of processes.
THEOREM ElectionTypeCorrect == Spec => []TypeOK
<1>1. IInv => TypeOK
  BY DEF IInv
<1> QED
  BY <1>1, ElectionInvariance, PTL

\* Who comes to own the session created its lock file, so there was no owner; every other
\* step, a death too, ends the ownership of its process or leaves the owners alone.
LEMMA StepOwners == IInv /\ [Next]_vars => [OwnerMutex!Next]_(OwnerMutex!vars)
<1> SUFFICES ASSUME IInv, Next PROVE [OwnerMutex!Next]_(OwnerMutex!vars)
  BY DEF vars, Owners, OwnerMutex!vars
<1> USE DEF OwnerMutex!vars, OwnerMutex!Next, Owners, Owning, At, Goto, GiveUp, files
<1>t. pc \in [Procs -> Labels] /\ dead \subseteq Procs
  BY DEF IInv, TypeOK
<1>1. ASSUME NEW p \in Procs, Elect(p) \/ Finish(p) PROVE OwnerMutex!LetGo(p) \/ UNCHANGED Owners
  <2>1. CASE Elect(p)
    BY <2>1, <1>t DEF Elect, Join, List, Scan, Discard, ReadTicket, Publish, Rescan, Compare
  <2>2. CASE Finish(p)
    BY <2>2, <1>t DEF Finish, Release, Unlock, DropGuard, Quit, OwnerMutex!LetGo
  <2> QED
    BY <1>1, <2>1, <2>2
<1>2. ASSUME NEW p \in Procs, Crash(p) PROVE OwnerMutex!LetGo(p) \/ UNCHANGED Owners
  BY <1>2, <1>t DEF Crash, OwnerMutex!LetGo
<1>3. ASSUME NEW p \in Procs, OpenMain(p) \/ ReopenMain(p) PROVE OwnerMutex!Take(p) \/ UNCHANGED Owners
  <2>1. CASE main = None
    <3>1. Owners = {}
      BY <2>1, ProcsAssumption DEF IInv, MainOK, Live, None
    <3>2. Owners' = Owners \cup {p}
      BY <1>3, <2>1, <1>t DEF OpenMain, ReopenMain
    <3> QED
      BY <3>1, <3>2 DEF OwnerMutex!Take
  <2>2. CASE main # None
    BY <1>3, <2>2, <1>t DEF OpenMain, ReopenMain
  <2> QED
    BY <2>1, <2>2
<1>4. ASSUME NEW p \in Procs, Call(p) \/ WriteMain(p) \/ Act(p)
      PROVE  OwnerMutex!LetGo(p) \/ UNCHANGED Owners
  BY <1>4, <1>t DEF Call, WriteMain, Act, OwnerMutex!LetGo
<1>5. ASSUME NEW p \in Procs,
             OpenGuard(p) \/ RemoveGuard(p) \/ WriteGuard(p) \/ CheckMain(p) \/ UnlinkMain(p)
      PROVE  UNCHANGED Owners
  BY <1>5, <1>t DEF OpenGuard, RemoveGuard, WriteGuard, CheckMain, UnlinkMain
<1> QED
  BY <1>1, <1>2, <1>3, <1>4, <1>5 DEF Next, Hold, Replace

\* The lock of a session is the mutex OpenClawClean and OpenClawEviction take it for, for any
\* number of processes, candidates and deaths.
THEOREM ElectionRefinement == Spec => ElectionIsMutex
<1>1. Init => OwnerMutex!Init
  BY DEF Init, OwnerMutex!Init, Owners, Owning
<1> QED
  BY <1>1, ElectionInvariance, StepOwners, PTL DEF Spec, ElectionIsMutex, OwnerMutex!Spec

(* The queue of procedural memory, which this host fills *******************)

\* What a call holds follows from the copy it chose from, and entries that need
\* no saving any more are saved.
MemoryCallOK ==
  \A c \in MqClients, e \in MqEntries :
    e \in mqHeld[c] =>
      /\ mqPc[c] = "add" => mqCopy[c][e] = "absent"
      /\ mqPc[c] = "take" => mqCopy[c][e] = "queued"
      /\ mqPc[c] \in {"skills", "save"} => e \in mqUndone \/ e \in mqLeft[c] \/ e \in mqSkills

\* An entry that was in a batch is not queued again.
MemoryTakenOK ==
  \A e \in MqEntries \ mqUndone : e \in mqTaken => mqFile[e] \notin {"absent", "queued"}

\* The inductive invariant of the queue.
MemoryInv == MemoryTypeOK /\ MemoryCallOK /\ MemoryTakenOK /\ MemoryQueueTells

\* The queue begins empty.
LEMMA MemoryInitInv == MemoryInit => MemoryInv
<1> SUFFICES ASSUME MemoryInit PROVE MemoryInv
  OBVIOUS
<1>1. MemoryTypeOK
  BY MemoryAssumption DEF MemoryInit, MemoryTypeOK, MqStatus
<1> QED
  BY <1>1 DEF MemoryInit, MemoryInv, MemoryCallOK, MemoryTakenOK, MemoryQueueTells

\* What writing a copy back does to an entry that was not changed since its read.
LEMMA MemoryWriteTyped ==
  ASSUME MemoryTypeOK, NEW c \in MqClients, NEW entries \in SUBSET MqEntries,
         NEW status \in MqStatus, MqWrites(c, entries, status)
  PROVE  /\ mqFile' \in [MqEntries -> MqStatus] /\ mqUndone' \subseteq MqEntries
         /\ mqUndone \subseteq mqUndone'
         /\ \A e \in MqEntries \ mqUndone' :
              /\ mqFile[e] = mqCopy[c][e]
              /\ e \notin entries => mqFile'[e] = mqFile[e]
              /\ (e \in entries /\ (mqFile[e] = "absent" => status = "queued")) => mqFile'[e] = status
              /\ (mqFile[e] = "absent" /\ status # "queued") => mqFile'[e] = "absent"
BY DEF MqWrites, MemoryTypeOK

\* Every step of a call keeps the types.
LEMMA MemoryStepTyped == MemoryTypeOK /\ [MemoryNext]_mqVars => MemoryTypeOK'
<1> SUFFICES ASSUME MemoryTypeOK, [MemoryNext]_mqVars PROVE MemoryTypeOK'
  OBVIOUS
<1> USE MemoryAssumption
<1>1. CASE UNCHANGED mqVars
  BY <1>1 DEF MemoryTypeOK, mqVars, mqCall, mqHistory
<1>2. ASSUME NEW c \in MqClients, MemoryCall(c) PROVE MemoryTypeOK'
  BY <1>2 DEF MemoryCall, Mq, MqReads, MemoryTypeOK, mqHistory
<1>3. ASSUME NEW c \in MqClients, MemoryAdd(c) PROVE MemoryTypeOK'
  <2>1. mqFile' \in [MqEntries -> MqStatus] /\ mqUndone' \subseteq MqEntries
    BY <1>3, MemoryWriteTyped DEF MemoryAdd, MemoryTypeOK, MqStatus
  <2> QED
    BY <1>3, <2>1 DEF MemoryAdd, Mq, MemoryTypeOK
<1>4. ASSUME NEW c \in MqClients, MemoryDrain(c) PROVE MemoryTypeOK'
  BY <1>4 DEF MemoryDrain, Mq, MqReads, MemoryTypeOK, mqHistory
<1>5. ASSUME NEW c \in MqClients, MemoryTake(c) PROVE MemoryTypeOK'
  <2>1. mqFile' \in [MqEntries -> MqStatus] /\ mqUndone' \subseteq MqEntries
    BY <1>5, MemoryWriteTyped DEF MemoryTake, MemoryTypeOK, MqStatus
  <2> QED
    BY <1>5, <2>1 DEF MemoryTake, Mq, MemoryTypeOK, mqCall
<1>6. ASSUME NEW c \in MqClients, MemoryComplete(c) PROVE MemoryTypeOK'
  BY <1>6 DEF MemoryComplete, Mq, MqReads, MemoryTypeOK, mqHistory
<1>7. ASSUME NEW c \in MqClients, MemoryMark(c) PROVE MemoryTypeOK'
  <2>1. mqFile' \in [MqEntries -> MqStatus] /\ mqUndone' \subseteq MqEntries
    BY <1>7, MemoryWriteTyped DEF MemoryMark, MemoryTypeOK, MqStatus
  <2> QED
    BY <1>7, <2>1 DEF MemoryMark, Mq, MemoryTypeOK
<1>8. ASSUME NEW c \in MqClients, MemoryLoad(c) PROVE MemoryTypeOK'
  BY <1>8 DEF MemoryLoad, Mq, MemoryTypeOK, mqHistory
<1>9. ASSUME NEW c \in MqClients, MemorySave(c) PROVE MemoryTypeOK'
  <2>1. PICK session \in MqOfSession :
          /\ mqSkills' = (mqSkills \ session) \cup (mqSaved[c] \cap session) \cup (mqLeft[c] \cap session)
          /\ mqUndone' = mqUndone \cup ((mqSkills \cap session) \ mqSaved[c])
          /\ mqLeft' = [mqLeft EXCEPT ![c] = @ \ session]
    BY <1>9 DEF MemorySave
  <2>2. /\ mqPc' = [mqPc EXCEPT ![c] = "skills"]
        /\ UNCHANGED <<mqFile, mqHeld, mqCopy, mqSaved, mqTwice, mqTaken, mqAdded, mqOrphans, mqFaults>>
    BY <1>9 DEF MemorySave, Mq
  <2>3. mqSaved[c] \subseteq MqEntries /\ mqLeft[c] \subseteq MqEntries
    BY DEF MemoryTypeOK
  <2>4. mqSkills' \subseteq MqEntries /\ mqUndone' \subseteq MqEntries
        /\ mqLeft' \in [MqClients -> SUBSET MqEntries]
    BY <2>1, <2>3 DEF MemoryTypeOK
  <2> QED
    BY <2>2, <2>4 DEF MemoryTypeOK
<1>10. ASSUME NEW c \in MqClients, MemoryDone(c) PROVE MemoryTypeOK'
  BY <1>10 DEF MemoryDone, Mq, MemoryTypeOK, mqHistory
<1>11. ASSUME NEW c \in MqClients, MemoryFails(c) PROVE MemoryTypeOK'
  BY <1>11 DEF MemoryFails, MqReads, MemoryTypeOK, mqHistory
<1>12. ASSUME NEW c \in MqClients, MemoryGiveUp(c) PROVE MemoryTypeOK'
  <2>1. mqFile' \in [MqEntries -> MqStatus] /\ mqUndone' \subseteq MqEntries
    BY <1>12, MemoryWriteTyped DEF MemoryGiveUp, MemoryTypeOK, MqStatus
  <2> QED
    BY <1>12, <2>1 DEF MemoryGiveUp, Mq, MemoryTypeOK
<1>13. ASSUME NEW c \in MqClients, MemoryEnds(c) PROVE MemoryTypeOK'
  BY <1>13 DEF MemoryEnds, MemoryTypeOK
<1> QED
  BY <1>1, <1>2, <1>3, <1>4, <1>5, <1>6, <1>7, <1>8, <1>9, <1>10, <1>11, <1>12, <1>13
    DEF MemoryNext

\* Every step of a call keeps the invariant.
LEMMA MemoryStepInv == MemoryInv /\ [MemoryNext]_mqVars => MemoryInv'
<1> SUFFICES ASSUME MemoryInv, [MemoryNext]_mqVars PROVE MemoryInv'
  OBVIOUS
<1>0. MemoryTypeOK /\ MemoryCallOK /\ MemoryTakenOK /\ MemoryQueueTells /\ MemoryTypeOK'
  BY MemoryStepTyped DEF MemoryInv
<1>1. CASE UNCHANGED mqVars
  BY <1>1, <1>0 DEF MemoryInv, MemoryCallOK, MemoryTakenOK, MemoryQueueTells, MqWorks,
    mqVars, mqCall, mqHistory
<1>2. ASSUME NEW c \in MqClients, MemoryCall(c) PROVE MemoryInv'
  <2>1. MemoryCallOK'
    BY <1>2, <1>0 DEF MemoryCall, Mq, MqReads, MemoryTypeOK, MemoryCallOK, mqHistory
  <2>2. MemoryTakenOK' /\ MemoryQueueTells'
    <3>1. \A d \in MqClients : mqPc[d] # "idle" => mqPc'[d] = mqPc[d] /\ mqHeld'[d] = mqHeld[d]
      BY <1>2, <1>0 DEF MemoryCall, Mq, MemoryTypeOK
    <3>2. UNCHANGED <<mqFile, mqSkills, mqHistory>>
      BY <1>2 DEF MemoryCall
    <3> QED
      BY <3>1, <3>2, <1>0 DEF MemoryTakenOK, MemoryQueueTells, MqWorks, mqHistory
  <2> QED
    BY <2>1, <2>2, <1>0 DEF MemoryInv
<1>3. ASSUME NEW c \in MqClients, MemoryAdd(c) PROVE MemoryInv'
  <2>1. MemoryCallOK'
    BY <1>3, <1>0 DEF MemoryAdd, Mq, MqWrites, MemoryTypeOK, MemoryCallOK
  <2>2. MemoryTakenOK' /\ MemoryQueueTells'
    <3>1. mqUndone \subseteq mqUndone'
          /\ \A e \in MqEntries \ mqUndone' :
              /\ mqFile[e] = mqCopy[c][e]
              /\ e \notin mqHeld[c] => mqFile'[e] = mqFile[e]
              /\ e \in mqHeld[c] => mqFile'[e] = "queued"
      BY <1>3, <1>0, MemoryWriteTyped DEF MemoryAdd, MemoryTypeOK, MqStatus
    <3>2. \A e \in MqEntries : e \in mqHeld[c] => mqCopy[c][e] = "absent"
      BY <1>3, <1>0 DEF MemoryAdd, Mq, MemoryCallOK
    <3> QED
      BY <3>1, <3>2, <1>3, <1>0 DEF MemoryAdd, Mq, MemoryTypeOK, MemoryTakenOK, MemoryQueueTells, MqWorks
  <2> QED
    BY <2>1, <2>2, <1>0 DEF MemoryInv
<1>4. ASSUME NEW c \in MqClients, MemoryDrain(c) PROVE MemoryInv'
  <2>1. MemoryCallOK'
    BY <1>4, <1>0 DEF MemoryDrain, Mq, MqReads, MqTakes, MqWaiting, MemoryTypeOK, MemoryCallOK, mqHistory
  <2>2. MemoryTakenOK' /\ MemoryQueueTells'
    <3>1. \A d \in MqClients : mqPc[d] # "drain" => mqPc'[d] = mqPc[d] /\ mqHeld'[d] = mqHeld[d]
      BY <1>4, <1>0 DEF MemoryDrain, Mq, MemoryTypeOK
    <3>2. UNCHANGED <<mqFile, mqSkills, mqHistory>>
      BY <1>4 DEF MemoryDrain
    <3> QED
      BY <3>1, <3>2, <1>0 DEF MemoryTakenOK, MemoryQueueTells, MqWorks, mqHistory
  <2> QED
    BY <2>1, <2>2, <1>0 DEF MemoryInv
<1>5. ASSUME NEW c \in MqClients, MemoryTake(c) PROVE MemoryInv'
  <2>1. MemoryCallOK'
    BY <1>5, <1>0 DEF MemoryTake, Mq, MqWrites, MemoryTypeOK, MemoryCallOK, mqCall
  <2>2. MemoryTakenOK' /\ MemoryQueueTells'
    <3>1. mqUndone \subseteq mqUndone'
          /\ \A e \in MqEntries \ mqUndone' :
              /\ mqFile[e] = mqCopy[c][e]
              /\ e \notin mqHeld[c] => mqFile'[e] = mqFile[e]
              /\ (e \in mqHeld[c] /\ mqFile[e] # "absent") => mqFile'[e] = "inflight"
      BY <1>5, <1>0, MemoryWriteTyped DEF MemoryTake, MemoryTypeOK, MqStatus
    <3>2. \A e \in MqEntries : e \in mqHeld[c] => mqCopy[c][e] = "queued"
      BY <1>5, <1>0 DEF MemoryTake, Mq, MemoryCallOK
    <3> QED
      BY <3>1, <3>2, <1>5, <1>0 DEF MemoryTake, Mq, MemoryTypeOK, MemoryTakenOK, MemoryQueueTells, MqWorks, mqCall
  <2> QED
    BY <2>1, <2>2, <1>0 DEF MemoryInv
<1>6. ASSUME NEW c \in MqClients, MemoryComplete(c) PROVE MemoryInv'
  BY <1>6, <1>0 DEF MemoryComplete, Mq, MqReads, MemoryTypeOK, MemoryInv, MemoryCallOK, MemoryTakenOK,
    MemoryQueueTells, MqWorks, mqHistory
<1>7. ASSUME NEW c \in MqClients, MemoryMark(c) PROVE MemoryInv'
  <2>1. MemoryCallOK'
    BY <1>7, <1>0 DEF MemoryMark, Mq, MqWrites, MemoryTypeOK, MemoryCallOK
  <2>2. MemoryTakenOK' /\ MemoryQueueTells'
    <3>1. mqUndone \subseteq mqUndone'
          /\ \A e \in MqEntries \ mqUndone' :
              /\ mqFile[e] = mqCopy[c][e]
              /\ e \notin mqHeld[c] => mqFile'[e] = mqFile[e]
              /\ (e \in mqHeld[c] /\ mqFile[e] # "absent") => mqFile'[e] = "distilled"
              /\ mqFile[e] = "absent" => mqFile'[e] = "absent"
      BY <1>7, <1>0, MemoryWriteTyped DEF MemoryMark, MemoryTypeOK, MqStatus
    <3> QED
      BY <3>1, <1>7, <1>0 DEF MemoryMark, Mq, MemoryTypeOK, MemoryTakenOK, MemoryQueueTells, MqWorks
  <2> QED
    BY <2>1, <2>2, <1>0 DEF MemoryInv
<1>8. ASSUME NEW c \in MqClients, MemoryLoad(c) PROVE MemoryInv'
  BY <1>8, <1>0 DEF MemoryLoad, Mq, MemoryTypeOK, MemoryInv, MemoryCallOK, MemoryTakenOK,
    MemoryQueueTells, MqWorks, mqHistory
<1>9. ASSUME NEW c \in MqClients, MemorySave(c) PROVE MemoryInv'
  <2>1. PICK session \in MqOfSession :
          /\ mqSkills' = (mqSkills \ session) \cup (mqSaved[c] \cap session) \cup (mqLeft[c] \cap session)
          /\ mqUndone' = mqUndone \cup ((mqSkills \cap session) \ mqSaved[c])
          /\ mqLeft' = [mqLeft EXCEPT ![c] = @ \ session]
    BY <1>9 DEF MemorySave
  <2>2. /\ mqPc[c] = "save" /\ mqPc' = [mqPc EXCEPT ![c] = "skills"]
        /\ UNCHANGED <<mqFile, mqHeld, mqCopy, mqSaved, mqTwice, mqTaken, mqAdded, mqOrphans, mqFaults>>
    BY <1>9 DEF MemorySave, Mq
  <2>3. \A e \in mqSkills : e \in mqSkills' \/ e \in mqUndone'
    BY <2>1
  <2>4. /\ mqUndone \subseteq mqUndone'
        /\ \A e \in mqLeft[c] : e \in mqLeft'[c] \/ e \in mqSkills'
        /\ \A d \in MqClients : d # c => mqLeft'[d] = mqLeft[d]
    BY <2>1, <1>0 DEF MemoryTypeOK
  <2>5. MemoryCallOK'
    BY <2>2, <2>3, <2>4, <1>0 DEF MemoryTypeOK, MemoryCallOK
  <2>6. MemoryTakenOK' /\ MemoryQueueTells'
    BY <2>2, <2>3, <2>4, <1>0 DEF MemoryTypeOK, MemoryTakenOK, MemoryQueueTells, MqWorks
  <2> QED
    BY <2>5, <2>6, <1>0 DEF MemoryInv
<1>10. ASSUME NEW c \in MqClients, MemoryDone(c) PROVE MemoryInv'
  <2>1. MemoryCallOK'
    BY <1>10, <1>0 DEF MemoryDone, Mq, MemoryTypeOK, MemoryCallOK, mqHistory
  <2>2. MemoryTakenOK' /\ MemoryQueueTells'
    BY <1>10, <1>0 DEF MemoryDone, Mq, MemoryTypeOK, MemoryCallOK, MemoryTakenOK, MemoryQueueTells,
      MqWorks, mqHistory
  <2> QED
    BY <2>1, <2>2, <1>0 DEF MemoryInv
<1>11. ASSUME NEW c \in MqClients, MemoryFails(c) PROVE MemoryInv'
  BY <1>11, <1>0 DEF MemoryFails, MqReads, MemoryTypeOK, MemoryInv, MemoryCallOK, MemoryTakenOK,
    MemoryQueueTells, MqWorks, mqHistory
<1>12. ASSUME NEW c \in MqClients, MemoryGiveUp(c) PROVE MemoryInv'
  <2>1. MemoryCallOK'
    BY <1>12, <1>0 DEF MemoryGiveUp, Mq, MqWrites, MemoryTypeOK, MemoryCallOK
  <2>2. MemoryTakenOK' /\ MemoryQueueTells'
    <3>1. mqUndone \subseteq mqUndone'
          /\ \A e \in MqEntries \ mqUndone' :
              /\ mqFile[e] = mqCopy[c][e]
              /\ e \notin mqHeld[c] => mqFile'[e] = mqFile[e]
              /\ (e \in mqHeld[c] /\ mqFile[e] # "absent") => mqFile'[e] = "failed"
              /\ mqFile[e] = "absent" => mqFile'[e] = "absent"
      BY <1>12, <1>0, MemoryWriteTyped DEF MemoryGiveUp, MemoryTypeOK, MqStatus
    <3> QED
      BY <3>1, <1>12, <1>0 DEF MemoryGiveUp, Mq, MemoryTypeOK, MemoryTakenOK, MemoryQueueTells, MqWorks
  <2> QED
    BY <2>1, <2>2, <1>0 DEF MemoryInv
<1>13. ASSUME NEW c \in MqClients, MemoryEnds(c) PROVE MemoryInv'
  <2>1. MemoryCallOK'
    BY <1>13, <1>0 DEF MemoryEnds, MemoryTypeOK, MemoryCallOK
  <2>2. MemoryTakenOK' /\ MemoryQueueTells'
    BY <1>13, <1>0 DEF MemoryEnds, MemoryTypeOK, MemoryTakenOK, MemoryQueueTells, MqWorks
  <2> QED
    BY <2>1, <2>2, <1>0 DEF MemoryInv
<1> QED
  BY <1>1, <1>2, <1>3, <1>4, <1>5, <1>6, <1>7, <1>8, <1>9, <1>10, <1>11, <1>12, <1>13
    DEF MemoryNext

\* The invariant holds in every state, for any number of clients and entries.
THEOREM MemoryInvariance == MemorySpec => []MemoryInv
  BY MemoryInitInv, MemoryStepInv, PTL DEF MemorySpec

\* The queue file: an entry no stale copy was written over stays in it, is taken
\* once, and its status tells what became of it.
THEOREM QueueTells == MemorySpec => []MemoryQueueTells
<1>1. MemoryInv => MemoryQueueTells
  BY DEF MemoryInv
<1> QED
  BY <1>1, MemoryInvariance, PTL

\* Queue, skills and copies stay in their types.
THEOREM MemoryTypeCorrect == MemorySpec => []MemoryTypeOK
<1>1. MemoryInv => MemoryTypeOK
  BY DEF MemoryInv
<1> QED
  BY <1>1, MemoryInvariance, PTL

\* m is in an archive, or left for a task that had one.
OeCovered(m) == m \in oeReused \/ \E k \in OeTasks : m \in oeArchive[k]

\* Either nothing is about to be saved, or all that a save needs is there.
OeFields == {"on", "left", "take", "kind", "anchor", "notes", "owners"}

OeCommitWhole == oeCommit.on => oeCommit = [f \in OeFields |-> oeCommit[f]]

\* What is about to be saved is archived as far as the engine has come, and takes
\* nothing else out.
OeCommitOK ==
  oeCommit.on =>
    /\ DOMAIN oeCommit.take \subseteq OeTasks
    /\ \A k \in DOMAIN oeCommit.take :
         /\ oeCommit.take[k] \subseteq OeMessages
         /\ k \notin oeCommit.left => \A m \in oeCommit.take[k] : OeCovered(m)
    /\ oeCommit.left \subseteq DOMAIN oeCommit.take
    /\ \A m \in OeMessages : oeCommit.kind[m] \in {"stub", "gone"} => OeCovered(m)

\* The inductive invariant of eviction.
OeInv ==
  oeArchive \in [OeTasks -> SUBSET OeMessages] /\ OeCommitWhole /\ OeCommitOK /\ LeftIsArchived

\* At the start nothing has left.
LEMMA OeInitInv == OeInit => OeInv
BY DEF OeInit, OeInv, OeCommitWhole, OeCommitOK, LeftIsArchived

\* To see the messages that are new does not change what has left.
LEMMA OeSyncedLeft ==
  \A m \in OeMessages : OeSynced[m] \in {"stub", "gone"} => oeKind[m] \in {"stub", "gone"}
BY DEF OeSynced

\* Every step of the estimator and of the engine keeps the invariant.
LEMMA OeStepInv == OeInv /\ [OeNext]_oeVars => OeInv'
<1> SUFFICES ASSUME OeInv, [OeNext]_oeVars PROVE OeInv'
  OBVIOUS
<1>1. CASE UNCHANGED oeEngine
  BY <1>1 DEF oeEngine, oeCopy, OeInv, OeCommitWhole, OeCommitOK, LeftIsArchived, OeCovered
<1>2. CASE OeRead
  <2> DEFINE notes == OeNotes(OeAnchors)
  <2>1. oeArchive' = oeArchive /\ oeReused' = oeReused /\ ~oeCommit.on
    BY <1>2 DEF OeRead
  <2>2. PICK taken \in SUBSET {k \in OeEvictable \ OeStubbed : OeBundle(k, notes) # {}} :
          IF taken = {}
          THEN oeKind' = OeSynced /\ oeCommit' = oeCommit
          ELSE /\ oeCommit' = [on |-> TRUE, left |-> taken,
                               take |-> [k \in taken |-> OeBundle(k, notes)],
                               kind |-> OeSynced, anchor |-> OeAnchors, notes |-> notes,
                               owners |-> oeRegistry.owners]
               /\ oeKind' = oeKind
    BY <1>2 DEF OeRead, oeCopy
  <2>3. \A k : OeBundle(k, notes) \subseteq OeMessages
    BY DEF OeBundle
  <2>4. taken \subseteq OeTasks
    BY <2>2 DEF OeEvictable
  <2>5. CASE taken = {}
    BY <2>1, <2>2, <2>5, OeSyncedLeft
       DEF OeInv, OeCommitWhole, OeCommitOK, LeftIsArchived, OeCovered
  <2>6. CASE taken # {}
    <3> DEFINE take == [k \in taken |-> OeBundle(k, notes)]
    <3> HIDE DEF notes
    <3>1. /\ oeCommit'.on /\ oeCommit'.left = taken /\ oeCommit'.take = take
          /\ oeCommit'.kind = OeSynced /\ oeKind' = oeKind
      BY <2>2, <2>6
    <3>2. OeCommitWhole'
      <4>1. DOMAIN oeCommit' = OeFields
        BY <2>2, <2>6 DEF OeFields
      <4>2. oeCommit' = [f \in DOMAIN oeCommit' |-> oeCommit'[f]]
        BY <2>2, <2>6
      <4> QED BY <4>1, <4>2 DEF OeCommitWhole
    <3>3. DOMAIN take = taken /\ \A k \in taken : take[k] \subseteq OeMessages
      BY <2>3
    <3>4. \A m \in OeMessages : OeSynced[m] \in {"stub", "gone"} => OeCovered(m)'
      BY <2>1, OeSyncedLeft DEF OeInv, LeftIsArchived, OeCovered
    <3> HIDE DEF take
    <3>5. OeCommitOK'
      BY <2>4, <3>1, <3>3, <3>4 DEF OeCommitOK
    <3> QED BY <2>1, <3>1, <3>2, <3>5 DEF OeInv, LeftIsArchived
  <2> QED BY <2>5, <2>6
<1>3. CASE OeSaved
  <2>1. oeArchive' = oeArchive /\ oeReused' = oeReused /\ oeCommit' = [on |-> FALSE]
        /\ oeCommit.on /\ oeCommit.left = {}
    BY <1>3 DEF OeSaved, OeSaves
  <2>2. ASSUME NEW m \in OeMessages, oeKind'[m] \in {"stub", "gone"} PROVE OeCovered(m)
    <3>1. oeKind'[m] = IF m \in OeStubs THEN "stub"
                       ELSE IF m \in OeTaken THEN "gone" ELSE oeCommit.kind[m]
      BY <1>3 DEF OeSaved, OeSaves
    <3>2. m \in OeTaken => OeCovered(m)
      BY <2>1 DEF OeTaken, OeInv, OeCommitOK
    <3>3. m \in OeTaken \/ oeCommit.kind[m] \in {"stub", "gone"}
      BY <2>2, <3>1 DEF OeStubs
    <3> QED BY <2>1, <3>2, <3>3 DEF OeInv, OeCommitOK
  <2> QED BY <2>1, <2>2 DEF OeInv, OeCommitWhole, OeCommitOK, LeftIsArchived, OeCovered
<1>4. CASE OeEngineDies
  BY <1>4 DEF OeEngineDies, oeCopy, OeInv, OeCommitWhole, OeCommitOK, LeftIsArchived, OeCovered
<1>5. ASSUME NEW k \in OeTasks, OeArchives(k) PROVE OeInv'
  <2> DEFINE take == oeCommit.take
  <2>1. /\ oeCommit.on /\ k \in oeCommit.left /\ k \in DOMAIN take
        /\ take[k] \subseteq OeMessages /\ oeKind' = oeKind
        /\ oeCommit' = [oeCommit EXCEPT !.left = @ \ {k}]
    BY <1>5 DEF OeArchives, oeCopy, OeInv, OeCommitOK
  <2>2. /\ oeArchive' \in [OeTasks -> SUBSET OeMessages]
        /\ \A m : OeCovered(m) => OeCovered(m)'
        /\ \A m \in take[k] : OeCovered(m)'
    <3>1. CASE oeArchive[k] = {}
      <4>1. oeArchive' = [oeArchive EXCEPT ![k] = take[k]] /\ oeReused' = oeReused
        BY <1>5, <3>1 DEF OeArchives
      <4> QED BY <2>1, <3>1, <4>1 DEF OeInv, OeCovered
    <3>2. CASE oeArchive[k] # {}
      <4>1. oeReused' = oeReused \cup take[k] /\ oeArchive' = oeArchive
        BY <1>5, <3>2 DEF OeArchives
      <4> QED BY <4>1 DEF OeInv, OeCovered
    <3> QED BY <3>1, <3>2
  <2>3. oeCommit = [f \in OeFields |-> oeCommit[f]]
    BY <2>1 DEF OeInv, OeCommitWhole
  <2>4. /\ oeCommit' = [f \in OeFields |-> oeCommit'[f]]
        /\ oeCommit'["left"] = oeCommit["left"] \ {k}
        /\ \A f \in OeFields \ {"left"} : oeCommit'[f] = oeCommit[f]
    <3>1. oeCommit' = [oeCommit EXCEPT !["left"] = oeCommit["left"] \ {k}]
      BY <2>1
    <3> QED BY <2>3, <3>1 DEF OeFields
  <2>5. /\ oeCommit'.on = oeCommit.on /\ oeCommit'.left = oeCommit.left \ {k}
        /\ oeCommit'.take = take /\ oeCommit'.kind = oeCommit.kind
    BY <2>4 DEF OeFields
  <2>6. OeCommitWhole'
    BY <2>1, <2>4, <2>5 DEF OeCommitWhole
  <2>7. OeCommitOK'
    BY <2>1, <2>2, <2>5 DEF OeInv, OeCommitOK
  <2> QED BY <2>1, <2>2, <2>6, <2>7 DEF OeInv, LeftIsArchived, OeCovered
<1>6. CASE UNCHANGED oeVars
  BY <1>1, <1>6 DEF oeVars
<1> QED BY <1>1, <1>2, <1>3, <1>4, <1>5, <1>6 DEF OeNext

\* The inductive invariant holds for any number of tasks, turns, clients and failures.
THEOREM OeInvariance == OeSpec => []OeInv
BY OeInitInv, OeStepInv, PTL DEF OeSpec

\* What has left the copy of a session is in an archive, unless its task had one before.
THEOREM DepartedIsArchived == OeSpec => []LeftIsArchived
<1>1. OeInv => LeftIsArchived
  BY DEF OeInv
<1> QED BY <1>1, OeInvariance, PTL

\* The least element is one.
LEMMA LeastOf ==
  ASSUME NEW S \in SUBSET Nat, S # {}
  PROVE  Min(S) \in S /\ \A x \in S : Min(S) <= x
<1> DEFINE R == OpToRel(<, Nat)
<1>1. \A x, y \in Nat : y < x => <<y, x>> \in R
  BY DEF OpToRel
<1>2. IsWellFoundedOn(R, Nat)
  BY NatLessThanWellFounded
<1> HIDE DEF R
<1>3. PICK x \in S : \A y \in S : ~(<<y, x>> \in R)
  BY <1>2, WFMin
<1>4. ASSUME NEW y \in S PROVE x <= y
  <2>1. ~(y < x)
    BY <1>1, <1>3, Zenon
  <2> QED BY <2>1
<1> QED BY <1>4 DEF Min

\* Messages the engine has counted stand where the session has them, and a message
\* without an anchor has no tasks noted.
OePlaced(kind, anchor, owners) ==
  \A m \in OeMessages :
    kind[m] \in {"live", "unseen"} =>
      \/ anchor[m] = 0 /\ owners[m] = {}
      \/ anchor[m] = OeTurnOf(m) /\ kind[m] = "live"

OeCountOK ==
  ~oeAstray =>
    /\ OePlaced(oeKind, oeAnchor, oeOwners)
    /\ oeCommit.on => OePlaced(oeCommit.kind, oeCommit.anchor, oeCommit.notes)

\* The anchors are counted from the first message on.
LEMMA OeCounted ==
  \E upTo :
    /\ \A m \in OeMessages : upTo[m] = OeAnchorOf(m, IF m = 1 THEN 0 ELSE upTo[m - 1])
    /\ \A m \in OeMessages :
         OeAnchors[m] = IF OeSynced[m] = "live" /\ OeAnchored # {} THEN upTo[m] ELSE oeAnchor[m]
<1> DEFINE N == 2 * OeMaxTurns
           F(m, before) == OeAnchorOf(m, before)
           Counts(g, n) == g = [m \in 0..n |-> IF m = 0 THEN 0 ELSE F(m, g[m - 1])]
           S == {n \in Nat : ~\E g : Counts(g, n)}
<1>1. N \in Nat
  BY OeAssumption
<1> HIDE DEF N, F
<1>2. S = {}
  <2>1. SUFFICES ASSUME S # {} PROVE FALSE
    OBVIOUS
  <2>2. Min(S) \in S /\ \A x \in S : Min(S) <= x
    BY <2>1, LeastOf
  <2> DEFINE n == Min(S)
  <2>3. n \in Nat /\ n \in S
    BY <2>2
  <2> HIDE DEF n
  <2>4. n # 0
    <3>1. Counts([m \in 0..0 |-> 0], 0)
      OBVIOUS
    <3> QED BY <2>3, <3>1
  <2>5. n - 1 \in Nat /\ n - 1 \notin S
    <3>1. n - 1 \in Nat /\ ~(n <= n - 1)
      BY <2>3, <2>4
    <3> QED BY <2>2, <3>1 DEF n
  <2>6. PICK g : Counts(g, n - 1)
    BY <2>5
  <2> DEFINE h == [m \in 0..n |-> IF m = n THEN F(n, g[n - 1]) ELSE g[m]]
  <2>7. \A m \in 0..(n - 1) : g[m] = IF m = 0 THEN 0 ELSE F(m, g[m - 1])
    BY <2>6
  <2>8. Counts(h, n)
    <3>1. ASSUME NEW m \in 0..n PROVE h[m] = IF m = 0 THEN 0 ELSE F(m, h[m - 1])
      <4>1. CASE m = n
        BY <2>3, <2>4, <4>1
      <4>2. CASE m # n
        <5>1. m \in 0..(n - 1) /\ h[m] = g[m]
          BY <2>3, <4>2
        <5>2. m # 0 => m - 1 \in 0..n /\ m - 1 # n
          BY <2>3
        <5> QED BY <2>7, <5>1, <5>2
      <4> QED BY <4>1, <4>2
    <3> QED BY <3>1
  <2> QED BY <2>3, <2>8
<1>3. \E g : Counts(g, N)
  BY <1>1, <1>2
<1> DEFINE upTo == CHOOSE g : Counts(g, N)
<1>4. Counts(upTo, N)
  BY <1>3, Zenon
<1>5. OeAnchors = [m \in OeMessages |->
         IF OeSynced[m] = "live" /\ OeAnchored # {} THEN upTo[m] ELSE oeAnchor[m]]
  BY DEF OeAnchors, N, F
<1> HIDE DEF upTo
<1>6. \A m \in 0..N : upTo[m] = IF m = 0 THEN 0 ELSE F(m, upTo[m - 1])
  BY <1>4
<1> HIDE DEF Counts
<1>7. \A m \in OeMessages : m \in 0..N /\ m # 0 /\ m - 1 \in 0..N
  BY <1>1 DEF OeMessages, N
<1>8. ASSUME NEW m \in OeMessages
      PROVE  upTo[m] = F(m, IF m = 1 THEN 0 ELSE upTo[m - 1])
  <2>1. CASE m = 1
    <3>1. upTo[0] = 0
      BY <1>6, <1>1
    <3> QED BY <1>6, <1>7, <2>1, <3>1
  <2>2. CASE m # 1
    BY <1>6, <1>7, <2>2
  <2> QED BY <2>1, <2>2
<1> QED BY <1>5, <1>8 DEF F

\* Where counting does not go wrong, it gives every message the turn it is of.
LEMMA OeCountsTurns ==
  ASSUME OePlaced(oeKind, oeAnchor, oeOwners), ~OeCountsWrong
  PROVE  OePlaced(OeSynced, OeAnchors, OeNotes(OeAnchors))
<1> USE DEF OePlaced
<1>1. PICK upTo :
        /\ \A m \in OeMessages : upTo[m] = OeAnchorOf(m, IF m = 1 THEN 0 ELSE upTo[m - 1])
        /\ \A m \in OeMessages :
             OeAnchors[m] = IF OeSynced[m] = "live" /\ OeAnchored # {} THEN upTo[m] ELSE oeAnchor[m]
  BY OeCounted
<1>2. \A m \in OeMessages : OeSynced[m] \in {"live", "unseen"} =>
        \/ oeAnchor[m] = 0 /\ oeOwners[m] = {}
        \/ oeAnchor[m] = OeTurnOf(m) /\ OeSynced[m] = "live"
  BY DEF OeSynced
<1>3. OeAnchored \subseteq Nat \ {0}
  BY OeAssumption DEF OeAnchored, OeTurns
<1>4. \A m \in OeMessages : m \in Nat \ {0} /\ OeTurnOf(m) \in Nat \ {0}
  BY OeAssumption DEF OeMessages, OeTurnOf
<1>5. ASSUME OeAnchored # {}
      PROVE  \A m \in OeMessages : OeSynced[m] = "live" => upTo[m] = OeTurnOf(m)
  <2> DEFINE S == {m \in OeMessages : OeSynced[m] = "live" /\ upTo[m] # OeTurnOf(m)}
  <2>1. SUFFICES ASSUME S # {} PROVE FALSE
    OBVIOUS
  <2>2. Min(S) \in S /\ \A x \in S : Min(S) <= x
    BY <2>1, <1>4, LeastOf
  <2> DEFINE m == Min(S)
             before == IF m = 1 THEN 0 ELSE upTo[m - 1]
  <2>3. m \in OeMessages /\ OeSynced[m] = "live" /\ upTo[m] # OeTurnOf(m) /\ m \in Nat \ {0}
    BY <2>2, <1>4
  <2>4. \A x \in OeMessages : x < m /\ OeSynced[x] = "live" => upTo[x] = OeTurnOf(x)
    BY <2>2, <1>4
  <2> HIDE DEF m, S
  <2>5. upTo[m] = OeAnchorOf(m, before)
    BY <1>1, <2>3
  <2>6. CASE oeAnchor[m] \in OeAnchored
    <3>1. oeAnchor[m] = OeTurnOf(m)
      BY <1>2, <1>3, <2>3, <2>6
    <3>2. oeOwners[m] = oeRegistry.owners[OeTurnOf(m)] \/ ~OeByUser(m)
      BY <2>3, <2>6, <3>1 DEF OeCountsWrong
    <3>3. OeAnchorOf(m, before) = OeTurnOf(m)
      BY <1>4, <2>3, <2>6, <3>1, <3>2 DEF OeAnchorOf
    <3> QED BY <2>3, <2>5, <3>3
  <2>7. CASE oeAnchor[m] \notin OeAnchored
    <3>1. OeTurnOf(m) \in OeAnchored /\ (m > 1 => OeSynced[m - 1] = "live")
      BY <1>5, <2>3, <2>7 DEF OeCountsWrong
    <3>2. before = IF m = 1 THEN 0 ELSE OeTurnOf(m - 1)
      <4>1. m # 1 => m > 1 /\ m - 1 \in OeMessages /\ m - 1 < m
        BY OeAssumption, <2>3 DEF OeMessages
      <4> QED BY <2>4, <3>1, <4>1
    <3>3. /\ before \in Nat
          /\ OeByUser(m) => before = OeTurnOf(m) - 1
          /\ ~OeByUser(m) => before = OeTurnOf(m)
      BY <2>3, <3>2 DEF OeTurnOf, OeByUser
    <3> HIDE DEF before
    <3> DEFINE next == {t \in OeAnchored : t > before}
    <3>4. OeAnchorOf(m, before) =
            IF OeByUser(m) /\ next # {} THEN Min(next)
            ELSE IF before = 0 THEN Min(OeAnchored) ELSE before
      BY <2>3, <2>7 DEF OeAnchorOf
    <3>5. CASE OeByUser(m)
      <4>1. OeTurnOf(m) \in next
        BY <1>4, <2>3, <3>1, <3>3, <3>5
      <4>2. \A t \in next : OeTurnOf(m) <= t
        BY <1>3, <1>4, <2>3, <3>3, <3>5
      <4>3. next \subseteq Nat
        BY <1>3
      <4>4. Min(next) \in next /\ Min(next) <= OeTurnOf(m)
        BY <4>1, <4>3, LeastOf
      <4> DEFINE least == Min(next)
      <4>5. least \in Nat /\ least <= OeTurnOf(m) /\ OeTurnOf(m) <= least
        BY <4>2, <4>3, <4>4
      <4> HIDE DEF least
      <4>6. least = OeTurnOf(m)
        BY <1>4, <2>3, <4>5
      <4> QED BY <2>3, <2>5, <3>4, <3>5, <4>1, <4>6 DEF least
    <3>6. CASE ~OeByUser(m)
      BY <1>4, <2>3, <2>5, <3>3, <3>4, <3>6
    <3> QED BY <3>5, <3>6
  <2> QED BY <2>6, <2>7
<1>6. \A m \in OeMessages : OeSynced[m] \in {"live", "unseen"} =>
        \/ OeAnchors[m] = 0 /\ oeOwners[m] = {}
        \/ OeAnchors[m] = OeTurnOf(m) /\ OeSynced[m] = "live"
  BY <1>1, <1>2, <1>5
<1> QED BY <1>4, <1>6 DEF OeNotes

\* What is about to leave, and the copy, are counted right.
OeTurnInv == OeInv /\ OeCountOK /\ EvictsTurnsOfTheTask

\* At the start nothing is counted.
LEMMA OeTurnInit == OeInit => OeTurnInv
BY OeInitInv DEF OeInit, OeTurnInv, OeCountOK, OePlaced, EvictsTurnsOfTheTask

\* A step that leaves copy and commit alone keeps what is counted.
LEMMA OeTurnKept ==
  ASSUME OeTurnInv, OeInv', oeAstray' = oeAstray, oeCopy' = oeCopy,
         oeCommit'.on => /\ oeCommit.on /\ oeCommit'.take = oeCommit.take
                         /\ oeCommit'.kind = oeCommit.kind /\ oeCommit'.anchor = oeCommit.anchor
                         /\ oeCommit'.notes = oeCommit.notes /\ oeCommit'.owners = oeCommit.owners
  PROVE  OeTurnInv'
BY DEF OeTurnInv, OeCountOK, OePlaced, EvictsTurnsOfTheTask, oeCopy

\* Every step keeps the turns of what leaves.
LEMMA OeTurnStep == OeTurnInv /\ [OeNext]_oeVars => OeTurnInv'
<1> SUFFICES ASSUME OeTurnInv, [OeNext]_oeVars PROVE OeTurnInv'
  OBVIOUS
<1>0. OeInv'
  BY OeStepInv DEF OeTurnInv
<1>1. CASE UNCHANGED oeEngine
  BY <1>0, <1>1, OeTurnKept DEF oeEngine
<1>2. CASE OeRead
  <2>1. SUFFICES ASSUME ~oeAstray' PROVE OeCountOK' /\ EvictsTurnsOfTheTask'
    BY <1>0 DEF OeTurnInv, OeCountOK, EvictsTurnsOfTheTask
  <2> DEFINE anchors == OeAnchors
             notes   == OeNotes(OeAnchors)
  <2>2. ~oeAstray /\ ~OeCountsWrong /\ ~oeCommit.on
    BY <1>2, <2>1 DEF OeRead
  <2>3. OePlaced(oeKind, oeAnchor, oeOwners)
    BY <2>2 DEF OeTurnInv, OeCountOK
  <2>4. OePlaced(OeSynced, anchors, notes)
    BY <2>2, <2>3, OeCountsTurns
  <2>5. PICK taken \in SUBSET {k \in OeEvictable \ OeStubbed : OeBundle(k, notes) # {}} :
          IF taken = {}
          THEN /\ oeKind' = OeSynced /\ oeAnchor' = anchors /\ oeOwners' = notes
               /\ oeCommit' = oeCommit
          ELSE /\ oeCommit' = [on |-> TRUE, left |-> taken,
                               take |-> [k \in taken |-> OeBundle(k, notes)],
                               kind |-> OeSynced, anchor |-> anchors, notes |-> notes,
                               owners |-> oeRegistry.owners]
               /\ oeKind' = oeKind /\ oeAnchor' = oeAnchor /\ oeOwners' = oeOwners
    BY <1>2 DEF OeRead, oeCopy
  <2>6. \A k : \A m \in OeBundle(k, notes) : k \in oeRegistry.owners[OeTurnOf(m)]
    <3>1. \A k : \A m \in OeBundle(k, notes) :
            m \in OeMessages /\ OeSynced[m] = "live" /\ k \in notes[m]
      BY DEF OeBundle
    <3>2. \A m \in OeMessages : OeSynced[m] = "live" =>
            notes[m] = IF anchors[m] # 0 THEN oeRegistry.owners[anchors[m]] ELSE oeOwners[m]
      BY DEF OeNotes
    <3> HIDE DEF notes, anchors
    <3>3. \A m \in OeMessages : OeSynced[m] = "live" =>
            \/ anchors[m] = 0 /\ notes[m] = {}
            \/ anchors[m] = OeTurnOf(m)
      BY <2>4 DEF OePlaced
    <3>4. \A m \in OeMessages : OeTurnOf(m) # 0
      BY OeAssumption DEF OeMessages, OeTurnOf
    <3> QED BY <3>1, <3>2, <3>3, <3>4
  <2>7. CASE taken = {}
    BY <2>2, <2>4, <2>5, <2>7 DEF OeCountOK, EvictsTurnsOfTheTask
  <2>8. CASE taken # {}
    <3> DEFINE take == [k \in taken |-> OeBundle(k, notes)]
    <3>1. /\ oeCommit'.take = take /\ oeCommit'.owners = oeRegistry.owners
          /\ oeCommit'.kind = OeSynced /\ oeCommit'.anchor = anchors /\ oeCommit'.notes = notes
      BY <2>5, <2>8
    <3>2. \A k \in DOMAIN take : \A m \in take[k] : k \in oeRegistry.owners[OeTurnOf(m)]
      BY <2>6
    <3> HIDE DEF take, notes, anchors
    <3>3. EvictsTurnsOfTheTask'
      BY <3>1, <3>2 DEF EvictsTurnsOfTheTask
    <3>4. OeCountOK'
      BY <2>3, <2>4, <2>5, <2>8, <3>1 DEF OeCountOK
    <3> QED BY <3>3, <3>4
  <2> QED BY <2>7, <2>8
<1>3. CASE OeSaved
  <2>1. /\ oeCommit.on /\ oeCommit' = [on |-> FALSE] /\ oeAstray' = oeAstray
        /\ oeAnchor' = oeCommit.anchor
        /\ \A m \in OeMessages : oeKind'[m] \in {"live", "unseen"} =>
             oeKind'[m] = oeCommit.kind[m] /\ oeOwners'[m] = oeCommit.notes[m]
    BY <1>3 DEF OeSaved, OeSaves
  <2>2. OeCountOK'
    BY <2>1 DEF OeTurnInv, OeCountOK, OePlaced
  <2> QED BY <1>0, <2>1, <2>2 DEF OeTurnInv, EvictsTurnsOfTheTask
<1>4. CASE OeEngineDies
  BY <1>0, <1>4, OeTurnKept DEF OeEngineDies
<1>5. ASSUME NEW k \in OeTasks, OeArchives(k) PROVE OeTurnInv'
  <2>1. oeCommit.on /\ oeCommit' = [oeCommit EXCEPT !["left"] = oeCommit["left"] \ {k}]
    BY <1>5 DEF OeArchives
  <2>2. \A f \in OeFields \ {"left"} : oeCommit'[f] = oeCommit[f]
    BY <2>1 DEF OeTurnInv, OeInv, OeCommitWhole, OeFields
  <2>3. /\ oeCommit'.take = oeCommit.take /\ oeCommit'.kind = oeCommit.kind
        /\ oeCommit'.anchor = oeCommit.anchor /\ oeCommit'.notes = oeCommit.notes
        /\ oeCommit'.owners = oeCommit.owners
    BY <2>2 DEF OeFields
  <2> QED BY <1>0, <1>5, <2>1, <2>3, OeTurnKept DEF OeArchives
<1>6. CASE UNCHANGED oeVars
  BY <1>1, <1>6 DEF oeVars
<1> QED BY <1>1, <1>2, <1>3, <1>4, <1>5, <1>6 DEF OeNext

\* The engine finds the turn of a message by counting what users said, and what it takes
\* out for a task is of a turn that the estimator gave to the task.
THEOREM LeavesWithItsTask == OeSpec => []EvictsTurnsOfTheTask
<1>1. OeTurnInv => EvictsTurnsOfTheTask
  BY DEF OeTurnInv
<1> QED BY <1>1, OeTurnInit, OeTurnStep, PTL DEF OeSpec

-------------------------------------------------------------------------------
(* The archives and the tool that reads them *)

\* The file of i is there, in the directory and under the key that lead to it.
ArLeads(i, d, k, file) ==
  /\ i \in ArItems => file[i] # "none" /\ ArHome(i) = d /\ ArKey(i) = k

ArFilesOK(file, keyFile, lookup, stubs) ==
  /\ \A i \in stubs : file[i] # "none"
  /\ \A d \in ArPlaces, k \in ArKeys :
       /\ ArLeads(keyFile[d][k], d, k, file)
       /\ ArLeads(ArEntries(lookup[d])[k], d, k, file)

ArLooking == {"byKey", "byList", "byScan"}

\* What a request or call holds at each of its steps.
ArHoldsOK(t, file) ==
  /\ t.at # "idle" => t.key \in ArKeys
  /\ t.at \in {"open", "fill"} =>
       t.item \in ArItems /\ t.errand = "archive" /\ ArHome(t.item) = t.dir /\ ArKey(t.item) = t.key
  /\ t.at \in {"fill", "fetch"} \cup ArWriting => t.item \in ArItems /\ file[t.item] # "none"
  /\ t.at \in {"fetch"} \cup ArWriting => ArLeads(t.item, t.dir, t.key, file)
  /\ t.at \in {"listOpen", "listFill"} => \A k \in ArKeys : ArLeads(t.seen[k], t.dir, k, file)

\* What a call of the tool still owes for the stubs it began with.
ArCallOK(t, file) ==
  /\ t.at \in ArLooking \cup {"fetch", "told"} => t.errand = "recover"
  /\ t.errand = "recover" /\ t.at # "idle" =>
       \A i \in t.known : i \in ArItems /\ file[i] # "none" /\ ArKey(i) = t.key
  /\ t.at \in ArLooking => t.met \/ \A i \in t.known : ArHome(i) \in {t.dir, ArProxy} \cup t.todo
  /\ t.at = "told" =>
       /\ t.item # ArNone => ArKey(t.item) = t.key
       /\ t.item = ArNone => t.known = {} \/ t.met

ArInv ==
  /\ ArtifactTypeOK
  /\ ArFilesOK(arFile, arKeyFile, arLookup, arStubs)
  /\ \A p \in ArProcs : ArHoldsOK(arTask[p], arFile) /\ ArCallOK(arTask[p], arFile)

\* Keys and directories of texts are keys and directories.
LEMMA ArNames == \A i \in ArItems : ArKey(i) \in ArKeys /\ ArHome(i) \in ArPlaces
BY ArtifactAssumption DEF ArKeys, ArHome, ArPlaces

\* Nothing is archived at first.
LEMMA ArInitInv == ArtifactInit => ArInv
<1>. SUFFICES ASSUME ArtifactInit PROVE ArInv
  OBVIOUS
<1>. USE ArtifactAssumption DEF ArtifactInit, ArNoEntries, ArPlaces, ArUnread
<1>1. ArtifactTypeOK
  BY DEF ArtifactTypeOK, ArTasks, ArIdle
<1>2. ArFilesOK(arFile, arKeyFile, arLookup, arStubs)
  BY DEF ArFilesOK, ArLeads, ArEntries
<1>3. \A p \in ArProcs : ArHoldsOK(arTask[p], arFile) /\ ArCallOK(arTask[p], arFile)
  BY DEF ArIdle, ArHoldsOK, ArCallOK, ArWriting, ArLooking
<1>. QED BY <1>1, <1>2, <1>3 DEF ArInv

\* An archive that has been opened once stays a file.
LEMMA ArGrows ==
  ASSUME NEW file, NEW more, NEW t,
         \A i \in ArItems : file[i] # "none" => more[i] # "none",
         ArHoldsOK(t, file), ArCallOK(t, file)
  PROVE ArHoldsOK(t, more) /\ ArCallOK(t, more)
BY DEF ArHoldsOK, ArCallOK, ArLeads, ArWriting

\* So what leads to it goes on leading to it.
LEMMA ArFilesGrow ==
  ASSUME NEW file, NEW more, NEW keyFile, NEW lookup, NEW stubs, stubs \subseteq ArItems,
         \A i \in ArItems : file[i] # "none" => more[i] # "none",
         ArFilesOK(file, keyFile, lookup, stubs)
  PROVE ArFilesOK(more, keyFile, lookup, stubs)
BY DEF ArFilesOK, ArLeads

\* What the invariant says of one request or call.
LEMMA ArTyped ==
  ASSUME ArInv, NEW p \in ArProcs
  PROVE /\ arTask[p] \in ArTasks /\ arTask \in [ArProcs -> ArTasks]
        /\ ArHoldsOK(arTask[p], arFile) /\ ArCallOK(arTask[p], arFile)
BY DEF ArInv, ArtifactTypeOK, ArTasks

\* A step of p that leaves the files alone needs a look at p only.
LEMMA ArOwnStep ==
  ASSUME ArInv, NEW p \in ArProcs, NEW t \in ArTasks,
         arTask' = [arTask EXCEPT ![p] = t], arFaults' \in 0..ArMaxFaults,
         UNCHANGED <<arFile, arKeyFile, arLookup, arStubs>>,
         ArHoldsOK(t, arFile), ArCallOK(t, arFile)
  PROVE ArInv'
<1>1. ArtifactTypeOK'
  BY DEF ArInv, ArtifactTypeOK, ArTasks
<1>2. \A q \in ArProcs : arTask'[q] = IF q = p THEN t ELSE arTask[q]
  BY DEF ArInv, ArtifactTypeOK
<1>. QED BY <1>1, <1>2 DEF ArInv

\* A step that ends the request or call.
LEMMA ArIdleStep ==
  ASSUME ArInv, NEW p \in ArProcs,
         arTask' = [arTask EXCEPT ![p] = ArIdle], arFaults' \in 0..ArMaxFaults,
         UNCHANGED <<arFile, arKeyFile, arLookup, arStubs>>
  PROVE ArInv'
<1>1. ArIdle \in ArTasks /\ ArHoldsOK(ArIdle, arFile) /\ ArCallOK(ArIdle, arFile)
  BY DEF ArIdle, ArTasks, ArHoldsOK, ArCallOK, ArWriting, ArLooking, ArNoEntries, ArPlaces
<1>. QED BY <1>1, ArOwnStep

\* A lookup goes on only from a directory that holds none of the known texts.
LEMMA ArNotHereStep ==
  ASSUME ArInv, NEW p \in ArProcs, NEW met \in BOOLEAN, ArNotHere(p, met),
         arTask[p].at # "idle", arTask[p].errand = "recover",
         met \/ \A i \in arTask[p].known :
                  ArHome(i) # arTask[p].dir /\ ArHome(i) \in {ArProxy} \cup arTask[p].todo,
         arFaults' \in 0..ArMaxFaults, UNCHANGED <<arFile, arKeyFile, arLookup, arStubs>>
  PROVE ArInv'
<1>. DEFINE t == arTask[p]
<1>0. t \in ArTasks /\ ArHoldsOK(t, arFile) /\ ArCallOK(t, arFile)
  BY ArTyped
<1>1. CASE /\ t.dir = ArProxy /\ t.todo = {}
           /\ arTask' = [arTask EXCEPT ![p].at = "told", ![p].item = ArNone, ![p].met = met]
  <2>. DEFINE u == [t EXCEPT !.at = "told", !.item = ArNone, !.met = met]
  <2>1. arTask' = [arTask EXCEPT ![p] = u]
    BY <1>1, ArTyped DEF ArTasks
  <2>2. u \in ArTasks /\ ArHoldsOK(u, arFile) /\ ArCallOK(u, arFile)
    BY <1>0, <1>1 DEF ArTasks, ArHoldsOK, ArCallOK, ArWriting, ArLooking
  <2>. QED BY <2>1, <2>2, ArOwnStep
<1>2. ASSUME NEW d \in IF t.dir = ArProxy THEN t.todo ELSE {ArProxy},
             arTask' = [arTask EXCEPT
               ![p].at = "byKey", ![p].item = ArNone, ![p].met = met, ![p].dir = d,
               ![p].todo = IF t.dir = ArProxy THEN t.todo \ {d} ELSE t.todo]
      PROVE ArInv'
  <2>. DEFINE left == IF t.dir = ArProxy THEN t.todo \ {d} ELSE t.todo
              u == [t EXCEPT !.at = "byKey", !.item = ArNone, !.met = met, !.dir = d, !.todo = left]
  <2>1. arTask' = [arTask EXCEPT ![p] = u]
    BY <1>2, ArTyped DEF ArTasks
  <2>2. d \in ArPlaces /\ left \subseteq ArDirs
    BY <1>0, ArtifactAssumption DEF ArTasks, ArPlaces
  <2>3. u \in ArTasks
    BY <1>0, <2>2 DEF ArTasks
  <2>4. ArHoldsOK(u, arFile)
    BY <1>0 DEF ArTasks, ArHoldsOK, ArWriting
  <2>5. met \/ \A i \in t.known : ArHome(i) \in {d, ArProxy} \cup left
    OBVIOUS
  <2>6. ArCallOK(u, arFile)
    <3>1. /\ u.at = "byKey" /\ u.errand = "recover" /\ u.known = t.known /\ u.key = t.key
          /\ u.met = met /\ u.dir = d /\ u.todo = left
      BY <1>0 DEF ArTasks
    <3>2. \A i \in t.known : i \in ArItems /\ arFile[i] # "none" /\ ArKey(i) = t.key
      BY <1>0 DEF ArCallOK
    <3>. HIDE DEF u
    <3>. QED BY <2>5, <3>1, <3>2 DEF ArCallOK, ArLooking
  <2>. QED BY <2>1, <2>3, <2>4, <2>6, ArOwnStep
<1>. QED BY <1>1, <1>2 DEF ArNotHere

\* The steps that write nothing.
LEMMA ArCallSteps ==
  ASSUME ArInv, NEW p \in ArProcs,
         \/ ArArchive(p) \/ ArRecover(p) \/ ArByKey(p) \/ ArByList(p) \/ ArByScan(p)
         \/ ArFetch(p) \/ ArAnswered(p) \/ ArRepairFails(p) \/ ArStops(p) \/ ArList(p)
  PROVE ArInv'
<1>. DEFINE t == arTask[p]
            u == arTask'[p]
<1>0. /\ t \in ArTasks /\ arTask \in [ArProcs -> ArTasks]
      /\ ArHoldsOK(t, arFile) /\ ArCallOK(t, arFile)
      /\ ArtifactTypeOK /\ ArFilesOK(arFile, arKeyFile, arLookup, arStubs)
  BY ArTyped DEF ArInv
<1>a. arFaults' = arFaults \/ (arFaults < ArMaxFaults /\ arFaults' = arFaults + 1)
  BY DEF ArArchive, ArRecover, ArByKey, ArByList, ArByScan, ArFetch, ArAnswered, ArRepairFails,
         ArStops, ArList
<1>b. arFaults \in 0..ArMaxFaults /\ ArMaxFaults \in Nat
  BY <1>0, ArtifactAssumption DEF ArtifactTypeOK
<1>c. UNCHANGED <<arFile, arKeyFile, arLookup, arStubs>>
  BY DEF ArArchive, ArRecover, ArByKey, ArByList, ArByScan, ArFetch, ArAnswered, ArRepairFails,
         ArStops, ArList
<1>1. UNCHANGED <<arFile, arKeyFile, arLookup, arStubs>> /\ arFaults' \in 0..ArMaxFaults
  BY <1>a, <1>b, <1>c
<1>2. CASE ArArchive(p)
  <2>1. PICK i \in ArItems : arTask' = [arTask EXCEPT ![p] =
          [ArIdle EXCEPT !.at = "open", !.item = i, !.key = ArKey(i), !.dir = ArHome(i)]]
    BY <1>2 DEF ArArchive
  <2>. DEFINE v == [ArIdle EXCEPT !.at = "open", !.item = i, !.key = ArKey(i), !.dir = ArHome(i)]
  <2>2. v \in ArTasks /\ ArHoldsOK(v, arFile) /\ ArCallOK(v, arFile)
    BY ArNames DEF ArIdle, ArTasks, ArHoldsOK, ArCallOK, ArWriting, ArLooking, ArNoEntries
  <2>. QED BY <1>1, <2>1, <2>2, ArOwnStep
<1>3. CASE ArRecover(p)
  <2>0. PICK i \in arStubs : \E route \in ArRoutes(i.in) : arTask' = [arTask EXCEPT ![p] =
          [ArIdle EXCEPT !.at = "byKey", !.errand = "recover", !.key = ArKey(i),
             !.dir = route.dir, !.todo = route.todo,
             !.known = {j \in arStubs : /\ ArKey(j) = ArKey(i)
                                        /\ ArHome(j) \in {route.dir} \cup route.todo}]]
    BY <1>3 DEF ArRecover
  <2>1. PICK route \in ArRoutes(i.in) : arTask' = [arTask EXCEPT ![p] =
          [ArIdle EXCEPT !.at = "byKey", !.errand = "recover", !.key = ArKey(i),
             !.dir = route.dir, !.todo = route.todo,
             !.known = {j \in arStubs : /\ ArKey(j) = ArKey(i)
                                        /\ ArHome(j) \in {route.dir} \cup route.todo}]]
    BY <2>0
  <2>. DEFINE mine == {j \in arStubs : /\ ArKey(j) = ArKey(i)
                                       /\ ArHome(j) \in {route.dir} \cup route.todo}
              v == [ArIdle EXCEPT !.at = "byKey", !.errand = "recover", !.key = ArKey(i),
                      !.dir = route.dir, !.todo = route.todo, !.known = mine]
  <2>2. arStubs \subseteq ArItems /\ i \in ArItems /\ i.in \in ArSessions
    BY <1>0, <2>1, ArtifactAssumption DEF ArtifactTypeOK
  <2>3. route.dir \in ArPlaces /\ route.todo \subseteq ArDirs
    BY <2>2, ArtifactAssumption DEF ArRoutes, ArPlaces
  <2>4. mine \subseteq ArItems /\ \A j \in mine :
          arFile[j] # "none" /\ ArKey(j) = ArKey(i) /\ ArHome(j) \in {route.dir} \cup route.todo
    BY <1>0, <2>2 DEF ArFilesOK
  <2>5. v \in ArTasks
    BY <2>2, <2>3, <2>4, ArNames DEF ArIdle, ArTasks, ArNoEntries
  <2>6. ArHoldsOK(v, arFile) /\ ArCallOK(v, arFile)
    <3>. HIDE DEF mine
    <3>. QED BY <2>2, <2>4, ArNames DEF ArIdle, ArHoldsOK, ArCallOK, ArWriting, ArLooking
  <2>. HIDE DEF mine
  <2>7. arTask' = [arTask EXCEPT ![p] = v]
    BY <2>1 DEF mine
  <2>. HIDE DEF v
  <2>. QED BY <1>1, <2>5, <2>6, <2>7, ArOwnStep
<1>4. CASE ArByKey(p)
  <2>. DEFINE w == arKeyFile[t.dir][t.key]
  <2>1. t.at = "byKey" /\ t.key \in ArKeys /\ t.dir \in ArPlaces
    BY <1>0, <1>4 DEF ArByKey, ArAt, ArHoldsOK, ArTasks
  <2>2. CASE w \in ArItems
    <3>. DEFINE v == [t EXCEPT !.at = "fetch", !.item = w]
    <3>1. arTask' = [arTask EXCEPT ![p] = v]
      BY <1>0, <1>4, <2>2 DEF ArByKey, ArFound, ArTasks
    <3>2. ArLeads(w, t.dir, t.key, arFile)
      BY <1>0, <2>1 DEF ArFilesOK
    <3>3. v \in ArTasks /\ ArHoldsOK(v, arFile) /\ ArCallOK(v, arFile)
      BY <1>0, <2>1, <2>2, <3>2 DEF ArTasks, ArHoldsOK, ArCallOK, ArLeads, ArWriting, ArLooking
    <3>. QED BY <1>1, <3>1, <3>3, ArOwnStep
  <2>3. CASE w \notin ArItems
    <3>. DEFINE v == [t EXCEPT !.at = "byList"]
    <3>1. arTask' = [arTask EXCEPT ![p] = v]
      BY <1>0, <1>4, <2>3 DEF ArByKey, ArGoes, ArTasks
    <3>2. v \in ArTasks /\ ArHoldsOK(v, arFile) /\ ArCallOK(v, arFile)
      BY <1>0, <2>1 DEF ArTasks, ArHoldsOK, ArCallOK, ArWriting, ArLooking
    <3>. QED BY <1>1, <3>1, <3>2, ArOwnStep
  <2>. QED BY <2>2, <2>3
<1>5. CASE ArByList(p)
  <2>. DEFINE w == ArEntries(arLookup[t.dir])[t.key]
  <2>1. t.at = "byList" /\ t.key \in ArKeys /\ t.dir \in ArPlaces
    BY <1>0, <1>5 DEF ArByList, ArAt, ArHoldsOK, ArTasks
  <2>2. CASE w \in ArItems
    <3>. DEFINE v == [t EXCEPT !.at = "fetch", !.item = w]
    <3>1. arTask' = [arTask EXCEPT ![p] = v]
      BY <1>0, <1>5, <2>2 DEF ArByList, ArFound, ArTasks
    <3>2. ArLeads(w, t.dir, t.key, arFile)
      BY <1>0, <2>1 DEF ArFilesOK
    <3>3. v \in ArTasks /\ ArHoldsOK(v, arFile) /\ ArCallOK(v, arFile)
      BY <1>0, <2>1, <2>2, <3>2 DEF ArTasks, ArHoldsOK, ArCallOK, ArLeads, ArWriting, ArLooking
    <3>. QED BY <1>1, <3>1, <3>3, ArOwnStep
  <2>3. CASE w \notin ArItems
    <3>. DEFINE v == [t EXCEPT !.at = "byScan"]
    <3>1. arTask' = [arTask EXCEPT ![p] = v]
      BY <1>0, <1>5, <2>3 DEF ArByList, ArGoes, ArTasks
    <3>2. v \in ArTasks /\ ArHoldsOK(v, arFile) /\ ArCallOK(v, arFile)
      BY <1>0, <2>1 DEF ArTasks, ArHoldsOK, ArCallOK, ArWriting, ArLooking
    <3>. QED BY <1>1, <3>1, <3>2, ArOwnStep
  <2>. QED BY <2>2, <2>3
<1>6. CASE ArByScan(p)
  <2>. DEFINE here == {i \in ArItems : ArHome(i) = t.dir /\ ArKey(i) = t.key}
              met == t.met \/ \E i \in here : arFile[i] = "empty"
  <2>1. t.at = "byScan" /\ t.key \in ArKeys /\ t.errand = "recover"
    BY <1>0, <1>6 DEF ArByScan, ArAt, ArHoldsOK, ArCallOK, ArLooking
  <2>2. ASSUME NEW i \in here, arFile[i] = "whole", ArFound(p, i, "key") PROVE ArInv'
    <3>. DEFINE v == [t EXCEPT !.at = "key", !.item = i]
    <3>1. arTask' = [arTask EXCEPT ![p] = v]
      BY <1>0, <2>2 DEF ArFound, ArTasks
    <3>2. v \in ArTasks /\ ArHoldsOK(v, arFile) /\ ArCallOK(v, arFile)
      BY <1>0, <2>1, <2>2 DEF ArTasks, ArHoldsOK, ArCallOK, ArLeads, ArWriting, ArLooking
    <3>. QED BY <1>1, <3>1, <3>2, ArOwnStep
  <2>3. ASSUME \A i \in here : arFile[i] # "whole", ArNotHere(p, met) PROVE ArInv'
    <3>1. ASSUME ~met, NEW i \in t.known
          PROVE ArHome(i) # t.dir /\ ArHome(i) \in {ArProxy} \cup t.todo
      <4>1. /\ i \in ArItems /\ arFile[i] # "none" /\ ArKey(i) = t.key
            /\ ArHome(i) \in {t.dir, ArProxy} \cup t.todo
        BY <1>0, <2>1, <3>1 DEF ArCallOK, ArLooking
      <4>2. i \in here => arFile[i] = "empty"
        BY <1>0, <2>3, <4>1 DEF ArtifactTypeOK
      <4>. QED BY <3>1, <4>1, <4>2
    <3>2. met \in BOOLEAN
      BY <1>0 DEF ArTasks
    <3>. HIDE DEF met
    <3>. QED BY <1>1, <2>1, <2>3, <3>1, <3>2, ArNotHereStep
  <2>. QED BY <1>6, <2>2, <2>3 DEF ArByScan
<1>7. CASE ArFetch(p)
  <2>1. t.at = "fetch" /\ t.key \in ArKeys /\ t.item \in ArItems /\ ArKey(t.item) = t.key
    BY <1>0, <1>7 DEF ArFetch, ArAt, ArHoldsOK, ArLeads
  <2>2. CASE arFile[t.item] = "whole"
    <3>. DEFINE v == [t EXCEPT !.at = "told"]
    <3>1. arTask' = [arTask EXCEPT ![p] = v]
      BY <1>0, <1>7, <2>2 DEF ArFetch, ArGoes, ArTasks
    <3>2. v \in ArTasks /\ ArHoldsOK(v, arFile) /\ ArCallOK(v, arFile)
      BY <1>0, <2>1, ArtifactAssumption DEF ArTasks, ArHoldsOK, ArCallOK, ArWriting, ArLooking
    <3>. QED BY <1>1, <3>1, <3>2, ArOwnStep
  <2>3. CASE arFile[t.item] # "whole"
    <3>. DEFINE v == [t EXCEPT !.at = "told", !.item = ArNone, !.met = TRUE]
    <3>1. arTask' = [arTask EXCEPT ![p] = v]
      BY <1>0, <1>7, <2>3 DEF ArFetch, ArTasks
    <3>2. v \in ArTasks /\ ArHoldsOK(v, arFile) /\ ArCallOK(v, arFile)
      BY <1>0, <2>1 DEF ArTasks, ArHoldsOK, ArCallOK, ArWriting, ArLooking
    <3>. QED BY <1>1, <3>1, <3>2, ArOwnStep
  <2>. QED BY <2>2, <2>3
<1>8. CASE ArAnswered(p) \/ ArStops(p)
  BY <1>1, <1>8, ArIdleStep DEF ArAnswered, ArStops
<1>9. CASE ArRepairFails(p)
  BY <1>1, <1>9, ArNotHereStep DEF ArRepairFails
<1>10. CASE ArList(p)
  <2>. DEFINE v == [t EXCEPT !.at = "listOpen", !.seen = ArEntries(arLookup[t.dir])]
  <2>1. arTask' = [arTask EXCEPT ![p] = v]
    BY <1>0, <1>10 DEF ArList, ArTasks
  <2>2. t.at = "list" /\ t.dir \in ArPlaces
    BY <1>0, <1>10 DEF ArList, ArAt, ArTasks
  <2>3. ArEntries(arLookup[t.dir]) \in [ArKeys -> ArItems \cup {ArNone}]
    BY <1>0, <2>2 DEF ArEntries, ArNoEntries, ArtifactTypeOK
  <2>4. v \in ArTasks
    BY <1>0, <2>3 DEF ArTasks, ArWriting
  <2>5. ArHoldsOK(v, arFile) /\ ArCallOK(v, arFile)
    BY <1>0, <2>2 DEF ArTasks, ArHoldsOK, ArCallOK, ArFilesOK, ArWriting, ArLooking
  <2>. QED BY <1>1, <2>1, <2>4, <2>5, ArOwnStep
<1>. QED
  BY <1>2, <1>3, <1>4, <1>5, <1>6, <1>7, <1>8, <1>9, <1>10

\* A step of p that grows the files needs a look at p and at the files.
LEMMA ArFileStep ==
  ASSUME ArInv, NEW p \in ArProcs, NEW t \in ArTasks,
         arTask' = [arTask EXCEPT ![p] = t], UNCHANGED arFaults,
         arFile' \in [ArItems -> {"none", "empty", "whole"}],
         arKeyFile' \in [ArPlaces -> [ArKeys -> ArItems \cup {ArNone} \cup ArUnread]],
         arLookup' \in [ArPlaces -> [ArKeys -> ArItems \cup {ArNone}] \cup ArUnread],
         arStubs' \subseteq ArItems,
         \A i \in ArItems : arFile[i] # "none" => arFile'[i] # "none",
         ArFilesOK(arFile', arKeyFile', arLookup', arStubs'),
         ArHoldsOK(t, arFile'), ArCallOK(t, arFile')
  PROVE ArInv'
<1>1. ArtifactTypeOK'
  BY DEF ArInv, ArtifactTypeOK, ArTasks
<1>2. \A q \in ArProcs : arTask'[q] = IF q = p THEN t ELSE arTask[q]
  BY DEF ArInv, ArtifactTypeOK
<1>3. ASSUME NEW q \in ArProcs, q # p
      PROVE ArHoldsOK(arTask[q], arFile') /\ ArCallOK(arTask[q], arFile')
  BY ArGrows, <1>3 DEF ArInv
<1>. QED BY <1>1, <1>2, <1>3 DEF ArInv

\* What the files hold for p's next step, when it goes on to `at` only.
LEMMA ArNextTask ==
  ASSUME ArInv, NEW p \in ArProcs, NEW at, ArGoes(p, at),
         at \in {"fill", "key", "keyFill", "list", "listFill", "fetch"}
  PROVE LET t == [arTask[p] EXCEPT !.at = at] IN
        arTask' = [arTask EXCEPT ![p] = t] /\ t \in ArTasks
BY ArTyped DEF ArGoes, ArTasks, ArWriting

\* An archive is opened and filled.
LEMMA ArArchiveSteps ==
  ASSUME ArInv, NEW p \in ArProcs, ArOpen(p) \/ ArFill(p)
  PROVE ArInv'
<1>. DEFINE t == arTask[p]
<1>0. /\ t \in ArTasks /\ arTask \in [ArProcs -> ArTasks]
      /\ ArHoldsOK(t, arFile) /\ ArCallOK(t, arFile)
      /\ ArtifactTypeOK /\ ArFilesOK(arFile, arKeyFile, arLookup, arStubs)
  BY ArTyped DEF ArInv
<1>. DEFINE v == [t EXCEPT !.at = IF ArOpen(p) THEN "fill" ELSE "key"]
            w == IF ArOpen(p) THEN "empty" ELSE "whole"
<1>1. /\ t.at = IF ArOpen(p) THEN "open" ELSE "fill"
      /\ t.item \in ArItems /\ t.errand = "archive"
      /\ ArHome(t.item) = t.dir /\ ArKey(t.item) = t.key /\ t.key \in ArKeys
  BY <1>0 DEF ArOpen, ArFill, ArAt, ArHoldsOK
<1>2. arFile' = [arFile EXCEPT ![t.item] = w]
  BY <1>1 DEF ArOpen, ArFill, ArAt
<1>3. arTask' = [arTask EXCEPT ![p] = v] /\ v \in ArTasks
  <2>1. CASE ArOpen(p)
    BY <2>1, <1>0, ArNextTask DEF ArOpen
  <2>2. CASE ~ArOpen(p)
    BY <2>2, <1>0, ArNextTask DEF ArFill
  <2>. QED BY <2>1, <2>2
<1>4. /\ arFile' \in [ArItems -> {"none", "empty", "whole"}]
      /\ \A i \in ArItems : arFile[i] # "none" => arFile'[i] # "none"
      /\ arFile'[t.item] # "none"
  BY <1>0, <1>1, <1>2 DEF ArtifactTypeOK
<1>5. UNCHANGED <<arKeyFile, arLookup, arStubs, arFaults>>
  BY DEF ArOpen, ArFill
<1>6. ArFilesOK(arFile', arKeyFile', arLookup', arStubs')
  BY <1>0, <1>4, <1>5, ArFilesGrow DEF ArtifactTypeOK
<1>7. ArHoldsOK(v, arFile') /\ ArCallOK(v, arFile')
  BY <1>0, <1>1, <1>4 DEF ArTasks, ArHoldsOK, ArCallOK, ArLeads, ArWriting, ArLooking
<1>. HIDE DEF v, w
<1>. QED BY <1>0, <1>3, <1>4, <1>5, <1>6, <1>7, ArFileStep DEF ArtifactTypeOK

\* A key file is opened and filled.
LEMMA ArKeySteps ==
  ASSUME ArInv, NEW p \in ArProcs, ArKeyOpen(p) \/ ArKeyFill(p)
  PROVE ArInv'
<1>. DEFINE t == arTask[p]
<1>0. /\ t \in ArTasks /\ arTask \in [ArProcs -> ArTasks]
      /\ ArHoldsOK(t, arFile) /\ ArCallOK(t, arFile)
      /\ ArtifactTypeOK /\ ArFilesOK(arFile, arKeyFile, arLookup, arStubs)
  BY ArTyped DEF ArInv
<1>. DEFINE v == [t EXCEPT !.at = IF ArKeyOpen(p) THEN "keyFill" ELSE "list"]
<1>1. /\ t.at = IF ArKeyOpen(p) THEN "key" ELSE "keyFill"
      /\ t.item \in ArItems /\ arFile[t.item] # "none" /\ ArLeads(t.item, t.dir, t.key, arFile)
      /\ t.key \in ArKeys /\ t.dir \in ArPlaces
  BY <1>0 DEF ArKeyOpen, ArKeyFill, ArAt, ArHoldsOK, ArWriting, ArTasks
<1>2. PICK w \in {ArEmpty, t.item, ArGarbled} :
        arKeyFile' = [arKeyFile EXCEPT ![t.dir][t.key] = w]
  BY DEF ArKeyOpen, ArKeyFill, ArOver
<1>3. arTask' = [arTask EXCEPT ![p] = v] /\ v \in ArTasks
  <2>1. CASE ArKeyOpen(p)
    BY <2>1, <1>0, ArNextTask DEF ArKeyOpen
  <2>2. CASE ~ArKeyOpen(p)
    BY <2>2, <1>0, ArNextTask DEF ArKeyFill
  <2>. QED BY <2>1, <2>2
<1>4. UNCHANGED <<arFile, arLookup, arStubs, arFaults>>
  BY DEF ArKeyOpen, ArKeyFill
<1>5. arKeyFile' \in [ArPlaces -> [ArKeys -> ArItems \cup {ArNone} \cup ArUnread]]
  BY <1>0, <1>1, <1>2 DEF ArtifactTypeOK, ArUnread
<1>6. ArLeads(w, t.dir, t.key, arFile)
  BY <1>1, <1>2, ArtifactAssumption DEF ArLeads
<1>7. ArFilesOK(arFile', arKeyFile', arLookup', arStubs')
  <2>1. ASSUME NEW d \in ArPlaces, NEW k \in ArKeys PROVE ArLeads(arKeyFile'[d][k], d, k, arFile)
    <3>1. arKeyFile'[d][k] = IF d = t.dir /\ k = t.key THEN w ELSE arKeyFile[d][k]
      BY <1>0, <1>1, <1>2 DEF ArtifactTypeOK
    <3>2. ArLeads(arKeyFile[d][k], d, k, arFile)
      BY <1>0 DEF ArFilesOK
    <3>. QED BY <1>6, <3>1, <3>2
  <2>. QED BY <1>0, <1>4, <2>1 DEF ArFilesOK
<1>8. ArHoldsOK(v, arFile') /\ ArCallOK(v, arFile')
  BY <1>0, <1>1, <1>4 DEF ArTasks, ArHoldsOK, ArCallOK, ArWriting, ArLooking
<1>. HIDE DEF v
<1>. QED BY <1>0, <1>3, <1>4, <1>5, <1>7, <1>8, ArFileStep DEF ArtifactTypeOK

\* One file of all keys changes.
LEMMA ArListWritten ==
  ASSUME ArInv, NEW d \in ArPlaces,
         NEW w \in [ArKeys -> ArItems \cup {ArNone}] \cup ArUnread,
         arLookup' = [arLookup EXCEPT ![d] = w],
         \A k \in ArKeys : ArLeads(ArEntries(w)[k], d, k, arFile)
  PROVE /\ arLookup' \in [ArPlaces -> [ArKeys -> ArItems \cup {ArNone}] \cup ArUnread]
        /\ ArFilesOK(arFile, arKeyFile, arLookup', arStubs)
<1>1. /\ arLookup \in [ArPlaces -> [ArKeys -> ArItems \cup {ArNone}] \cup ArUnread]
      /\ ArFilesOK(arFile, arKeyFile, arLookup, arStubs)
  BY DEF ArInv, ArtifactTypeOK
<1>2. \A e \in ArPlaces : arLookup'[e] = IF e = d THEN w ELSE arLookup[e]
  BY <1>1
<1>3. ASSUME NEW e \in ArPlaces, NEW k \in ArKeys
      PROVE ArLeads(ArEntries(arLookup'[e])[k], e, k, arFile)
  <2>1. ArLeads(ArEntries(arLookup[e])[k], e, k, arFile)
    BY <1>1 DEF ArFilesOK
  <2>. QED BY <1>2, <2>1
<1>. QED BY <1>1, <1>3 DEF ArFilesOK

\* key-lookup.json is opened and filled.
LEMMA ArListSteps ==
  ASSUME ArInv, NEW p \in ArProcs, ArListOpen(p) \/ ArListFill(p)
  PROVE ArInv'
<1>. DEFINE t == arTask[p]
<1>0. /\ t \in ArTasks /\ arTask \in [ArProcs -> ArTasks]
      /\ ArHoldsOK(t, arFile) /\ ArCallOK(t, arFile)
      /\ ArtifactTypeOK /\ ArFilesOK(arFile, arKeyFile, arLookup, arStubs)
  BY ArTyped DEF ArInv
<1>1. CASE ArListOpen(p)
  <2>. DEFINE v == [t EXCEPT !.at = "listFill"]
  <2>1. /\ t.at = "listOpen" /\ t.dir \in ArPlaces
        /\ UNCHANGED <<arFile, arKeyFile, arStubs, arFaults>>
        /\ arLookup' = [arLookup EXCEPT ![t.dir] = ArEmpty]
    BY <1>0, <1>1 DEF ArListOpen, ArAt, ArTasks
  <2>2. arTask' = [arTask EXCEPT ![p] = v] /\ v \in ArTasks
    BY <1>1, ArNextTask DEF ArListOpen
  <2>3. ArEmpty \in ArUnread /\ \A k \in ArKeys : ArLeads(ArEntries(ArEmpty)[k], t.dir, k, arFile)
    BY ArtifactAssumption DEF ArUnread, ArEntries, ArNoEntries, ArLeads
  <2>4. /\ arLookup' \in [ArPlaces -> [ArKeys -> ArItems \cup {ArNone}] \cup ArUnread]
        /\ ArFilesOK(arFile, arKeyFile, arLookup', arStubs)
    BY <2>1, <2>3, ArListWritten
  <2>5. ArHoldsOK(v, arFile) /\ ArCallOK(v, arFile)
    BY <1>0, <2>1 DEF ArTasks, ArHoldsOK, ArCallOK, ArWriting, ArLooking
  <2>. HIDE DEF v
  <2>. QED BY <1>0, <2>1, <2>2, <2>4, <2>5, ArFileStep DEF ArtifactTypeOK
<1>2. CASE ArListFill(p)
  <2>. DEFINE new == [t.seen EXCEPT ![t.key] = t.item]
              v == IF t.errand = "archive" THEN ArIdle ELSE [t EXCEPT !.at = "fetch"]
  <2>1. /\ t.at = "listFill" /\ t.key \in ArKeys /\ t.dir \in ArPlaces
        /\ t.item \in ArItems /\ arFile[t.item] # "none" /\ ArLeads(t.item, t.dir, t.key, arFile)
        /\ \A k \in ArKeys : ArLeads(t.seen[k], t.dir, k, arFile)
        /\ t.seen \in [ArKeys -> ArItems \cup {ArNone}]
    BY <1>0, <1>2 DEF ArListFill, ArAt, ArHoldsOK, ArWriting, ArTasks
  <2>2. PICK w \in {new, ArGarbled} : arLookup' = [arLookup EXCEPT ![t.dir] = w]
    BY <1>2 DEF ArListFill, ArOver
  <2>3. new \in [ArKeys -> ArItems \cup {ArNone}]
    BY <2>1
  <2>4. \A k \in ArKeys : ArLeads(new[k], t.dir, k, arFile)
    BY <2>1
  <2>5. ArGarbled \in ArUnread /\ \A k \in ArKeys : ArLeads(ArEntries(ArGarbled)[k], t.dir, k, arFile)
    BY ArtifactAssumption DEF ArUnread, ArEntries, ArNoEntries, ArLeads
  <2>6. new \in ArUnread => \A k \in ArKeys : ArLeads(ArEntries(new)[k], t.dir, k, arFile)
    BY ArtifactAssumption DEF ArEntries, ArNoEntries, ArLeads
  <2>7. new \notin ArUnread => ArEntries(new) = new
    BY DEF ArEntries
  <2>8. /\ arLookup' \in [ArPlaces -> [ArKeys -> ArItems \cup {ArNone}] \cup ArUnread]
        /\ ArFilesOK(arFile, arKeyFile, arLookup', arStubs)
    <3>. HIDE DEF new
    <3>. QED BY <2>1, <2>2, <2>3, <2>4, <2>5, <2>6, <2>7, ArListWritten
  <2>9. UNCHANGED <<arFile, arKeyFile, arFaults>> /\ arStubs' \subseteq arStubs \cup {t.item}
    BY <1>2 DEF ArListFill
  <2>10. arStubs' \subseteq ArItems /\ ArFilesOK(arFile', arKeyFile', arLookup', arStubs')
    BY <1>0, <2>1, <2>8, <2>9 DEF ArFilesOK, ArtifactTypeOK
  <2>11. arTask' = [arTask EXCEPT ![p] = v] /\ v \in ArTasks
         /\ ArHoldsOK(v, arFile) /\ ArCallOK(v, arFile)
    <3>1. CASE t.errand = "archive"
      <4>1. v = ArIdle /\ arTask' = [arTask EXCEPT ![p] = v]
        BY <1>2, <3>1 DEF ArListFill
      <4>2. ArIdle \in ArTasks /\ ArHoldsOK(ArIdle, arFile) /\ ArCallOK(ArIdle, arFile)
        BY DEF ArIdle, ArTasks, ArHoldsOK, ArCallOK, ArWriting, ArLooking, ArNoEntries, ArPlaces
      <4>. QED BY <4>1, <4>2
    <3>2. CASE t.errand # "archive"
      <4>1. arTask' = [arTask EXCEPT ![p] = v] /\ v \in ArTasks
        BY <1>2, <3>2, ArNextTask DEF ArListFill
      <4>2. v.at = "fetch" /\ v.item = t.item /\ v.errand = "recover" /\ v.known = t.known
            /\ v.key = t.key /\ v.dir = t.dir
        BY <1>0, <3>2 DEF ArTasks
      <4>3. ArHoldsOK(v, arFile)
        BY <2>1, <4>2 DEF ArHoldsOK, ArWriting
      <4>4. ArCallOK(v, arFile)
        <5>1. \A i \in t.known : i \in ArItems /\ arFile[i] # "none" /\ ArKey(i) = t.key
          BY <1>0, <2>1, <3>2 DEF ArCallOK, ArTasks
        <5>. HIDE DEF v
        <5>. QED BY <4>2, <5>1 DEF ArCallOK, ArLooking
      <4>. QED BY <4>1, <4>3, <4>4
    <3>. QED BY <3>1, <3>2
  <2>. HIDE DEF v, new
  <2>. QED BY <1>0, <2>8, <2>9, <2>10, <2>11, ArFileStep DEF ArtifactTypeOK
<1>. QED BY <1>1, <1>2

\* The inductive invariant holds for any texts, sessions, processes and failures.
THEOREM ArInvariance == ArtifactSpec => []ArInv
<1>1. ArInv /\ [ArtifactNext]_arVars => ArInv'
  <2>. SUFFICES ASSUME ArInv, [ArtifactNext]_arVars PROVE ArInv'
    OBVIOUS
  <2>1. CASE ArtifactNext
    BY <2>1, ArCallSteps, ArArchiveSteps, ArKeySteps, ArListSteps DEF ArtifactNext
  <2>2. CASE UNCHANGED arVars
    BY <2>2 DEF arVars, ArInv, ArtifactTypeOK
  <2>. QED BY <2>1, <2>2
<1>. QED BY ArInitInv, <1>1, PTL DEF ArtifactSpec

\* The tool answers with a text of the key it was given, and answers that there is none
\* only for the reasons OmittedIsRecovered names.
THEOREM OmittedWasRecovered == ArtifactSpec => []OmittedIsRecovered
<1>1. ArInv => OmittedIsRecovered
  BY DEF ArInv, ArCallOK, OmittedIsRecovered, ArAt
<1>. QED BY ArInvariance, <1>1, PTL

-------------------------------------------------------------------------------
\* The points of a request that executes the scheduled plan.
OpenClawCleaning == {"open", "recover", "prepare", "execute", "write", "record", "clear", "finish"}

\* What the operation that holds the session lock has made sure of.
OcTaskInv ==
  LET q == ocTask.plan IN
  /\ OpenClawAt("idle") => ocTask = OpenClawNoTask
  /\ ~OpenClawAt("idle") => q \in OcPlans
  /\ ocTask.at \in {"tidy", "leave"} => ocTask.errand \in {"approve", "cancel"}
  /\ ocTask.at \in {"approve", "point", "publish"} => ocTask.errand = "approve"
  /\ OpenClawAt("cancel") => ocTask.errand = "cancel"
  /\ ocTask.at \in OpenClawCleaning =>
       ocTask.errand = "clean" /\ ocPointer = [status |-> "scheduled", plan |-> q]
  /\ ocTask.errand \in {"approve", "cancel"} => ~OpenClawCommitOpen /\ ~OpenClawIntends(q)
  /\ OpenClawAt("point") => OpenClawSays \in {"approved", "scheduled"}
  /\ OpenClawAt("publish") => /\ OpenClawSays \in {"approved", "scheduled"}
                              /\ ocPointer = [status |-> "scheduled", plan |-> q]
  /\ ocTask.at \in {"recover", "prepare", "execute", "write", "record"} => OpenClawSays = "scheduled"
  /\ ocTask.at \in {"prepare", "execute", "finish"} => ~OpenClawIntends(q)
  /\ OpenClawAt("write") => ocIntent[q] = [before |-> ocCopy, after |-> OpenClawCleanedCopy(q)]
  /\ OpenClawAt("write") => q \notin ocCopy.cleaned
  /\ OpenClawAt("record") =>
       /\ ocTask.result \in Terminal
       /\ IF ocTask.result = "applied" THEN q \in ocCopy.cleaned /\ OpenClawIntends(q)
                                       ELSE ~OpenClawIntends(q)
  /\ OpenClawAt("clear") => OpenClawSays = "applied"
  /\ OpenClawAt("finish") => OpenClawSays \in Terminal

\* A pointer stands for a plan that was approved, a closed one for a plan that has ended.
OcPointerInv ==
  /\ ocPointer.status # "none" => ocPointer.plan \in OcPlans
  /\ ocPointer.status = "scheduled" => ocReceipt[ocPointer.plan] # "analyzed"
  /\ ocPointer.status = "terminal" => ocReceipt[ocPointer.plan] \in Terminal

\* An intent is the copy with its plan cleaned out, and the copy is one of its two,
\* unless analyze has annotated it.
OcIntentInv ==
  \A q \in OcPlans : OpenClawIntends(q) =>
    /\ q \notin ocIntent[q].before.cleaned
    /\ ocIntent[q].after = [ocIntent[q].before EXCEPT !.cleaned = @ \cup {q}]
    /\ ocReceipt[q] \in {"scheduled", "applied"}
    /\ ocCopy \in {ocIntent[q].before, ocIntent[q].after} \/ q \in ocBlurred

OcInv ==
  /\ OpenClawTypeOK
  /\ OcTaskInv /\ OcPointerInv /\ OcIntentInv
  /\ OpenClawReceiptsTell /\ OpenClawIntentIsPointed

-------------------------------------------------------------------------------
\* The invariant of the clean execution holds before anything is scheduled.
LEMMA OcStart == OpenClawInit => OcInv
<1> SUFFICES ASSUME OpenClawInit PROVE OcInv
  OBVIOUS
<1> USE OpenClawCleanAssumption DEF OpenClawInit, OpenClawNoTask, OpenClawNoIntent
<1>1. \A q \in OcPlans : ~OpenClawIntends(q) /\ ocReceipt[q] = "analyzed"
  BY DEF OpenClawIntends
<1>2. OpenClawTypeOK
  <2>1. OpenClawNoIntent \in OpenClawIntents
    BY DEF OpenClawIntents, OpenClawCopies
  <2>2. ocCopy \in OpenClawCopies /\ ocTask \in OpenClawTasks
    BY DEF OpenClawCopies, OpenClawTasks, OpenClawLabels
  <2>3. ocFaults \in 0..OcMaxFaults /\ ocReceipt \in [OcPlans -> Status]
    BY DEF Status
  <2> QED BY <2>1, <2>2, <2>3 DEF OpenClawTypeOK
<1>3. OcTaskInv /\ OcPointerInv
  BY DEF OcTaskInv, OcPointerInv, OpenClawAt, OpenClawCleaning
<1> QED BY <1>1, <1>2, <1>3 DEF OcInv, OcIntentInv, OpenClawReceiptsTell, OpenClawIntentIsPointed

\* The task keeps its type wherever it goes.
LEMMA OcGoTyped ==
  ASSUME OpenClawTypeOK
  PROVE  /\ \A label \in OpenClawLabels : OpenClawGo(label) => ocTask' \in OpenClawTasks
         /\ \A label \in OpenClawLabels, s \in Terminal :
              OpenClawSettle(label, s) => ocTask' \in OpenClawTasks
         /\ OpenClawEnd => ocTask' \in OpenClawTasks
<1>1. ocTask \in OpenClawTasks
  BY DEF OpenClawTypeOK
<1>2. \A label \in OpenClawLabels : OpenClawGo(label) => ocTask' \in OpenClawTasks
  BY <1>1 DEF OpenClawGo, OpenClawTasks
<1>3. \A label \in OpenClawLabels, s \in Terminal :
        OpenClawSettle(label, s) => ocTask' \in OpenClawTasks
  BY <1>1 DEF OpenClawSettle, OpenClawTasks
<1>4. OpenClawEnd => ocTask' \in OpenClawTasks
  BY DEF OpenClawEnd, OpenClawNoTask, OpenClawTasks, OpenClawLabels
<1> QED BY <1>2, <1>3, <1>4

\* Every step keeps the files and the task typed.
LEMMA OcTypeStep ==
  ASSUME OcInv, OpenClawNext
  PROVE  OpenClawTypeOK'
<1> USE OpenClawCleanAssumption, OcGoTyped DEF OcInv, OpenClawTypeOK, OpenClawLabels, Status,
   Terminal
<1>1. CASE OpenClawCommand
  <2>1. ocTask' \in OpenClawTasks
    BY <1>1 DEF OpenClawCommand, OpenClawTasks, OpenClawNoTask
  <2> QED BY <1>1, <2>1 DEF OpenClawCommand, ocFiles, ocContext
<1>2. CASE OpenClawAssemble
  <2>1. ocTask' \in OpenClawTasks
    BY <1>2 DEF OpenClawAssemble, OpenClawTasks, OpenClawNoTask
  <2> QED BY <1>2, <2>1 DEF OpenClawAssemble, ocFiles, ocContext
<1>3. CASE OpenClawOnwards
  <2>1. OpenClawTidied \in [status : {"none", "scheduled", "terminal"}, plan : OcPlans \cup {OcNone}]
        /\ OpenClawClosed \in [status : {"none", "scheduled", "terminal"}, plan : OcPlans \cup {OcNone}]
    BY DEF OpenClawTidied, OpenClawClosed
  <2>2. ~OpenClawAt("idle") => ocTask.plan \in OcPlans
    BY DEF OcTaskInv
  <2>3. \A q \in OcPlans : OpenClawDropIntent(q) => ocIntent' \in [OcPlans -> OpenClawIntents]
    <3>1. OpenClawNoIntent \in OpenClawIntents
      BY DEF OpenClawIntents, OpenClawCopies, OpenClawNoIntent
    <3> QED BY <3>1 DEF OpenClawDropIntent
  <2>4. \A q \in OcPlans : OpenClawCleanedCopy(q) \in OpenClawCopies
    BY DEF OpenClawCopies, OpenClawCleanedCopy
  <2>5. CASE OpenClawTidy \/ OpenClawLeave
    <3>1. ocTask.errand \in {"approve", "cancel"}
      BY <2>5 DEF OcTaskInv, OpenClawTidy, OpenClawLeave, OpenClawAt
    <3> QED BY <2>1, <2>5, <3>1 DEF OpenClawTidy, OpenClawLeave, ocContext
  <2>6. CASE OpenClawApprove \/ OpenClawPublish \/ OpenClawCancel \/ OpenClawOpen
    BY <2>2, <2>6 DEF OpenClawApprove, OpenClawPublish, OpenClawCancel, OpenClawOpen, ocContext,
       OpenClawSetReceipt, OpenClawAt
  <2>7. CASE OpenClawPoint
    BY <2>2, <2>7 DEF OpenClawPoint, ocContext, OpenClawAt
  <2>8. CASE OpenClawRecover \/ OpenClawPrepare
    BY <2>2, <2>3, <2>8 DEF OpenClawRecover, OpenClawPrepare, ocContext, ocFiles, OpenClawAt
  <2>9. CASE OpenClawExecute
    <3>1. ocIntent' \in [OcPlans -> OpenClawIntents]
      BY <2>2, <2>4, <2>9 DEF OpenClawExecute, OpenClawAt, OpenClawIntents
    <3> QED BY <2>9, <3>1 DEF OpenClawExecute, ocContext
  <2>10. CASE OpenClawWrite
    BY <2>2, <2>4, <2>10 DEF OpenClawWrite, ocFiles, OpenClawAt
  <2>11. CASE OpenClawRecord
    <3>1. ocTask.result \in Terminal
      BY <2>11 DEF OpenClawRecord, OcTaskInv
    <3> QED BY <2>2, <2>11, <3>1 DEF OpenClawRecord, ocContext, OpenClawAt, OpenClawSetReceipt
  <2>12. CASE OpenClawClear \/ OpenClawFinish
    BY <2>1, <2>2, <2>3, <2>12 DEF OpenClawClear, OpenClawFinish, ocContext, OpenClawAt
  <2> QED BY <1>3, <2>5, <2>6, <2>7, <2>8, <2>9, <2>10, <2>11, <2>12 DEF OpenClawOnwards
<1>4. CASE OpenClawSync \/ OpenClawUnchanged \/ OpenClawAnnotate
  <2>1. OpenClawOverwrite => /\ ocCopy' \in OpenClawCopies /\ ocTorn' \in BOOLEAN
                             /\ ocRebuilt' \in BOOLEAN /\ ocFaults' \in 0..OcMaxFaults
    <3>1. ASSUME OpenClawOverwrite
          PROVE  ocTorn' \in BOOLEAN /\ ocRebuilt' \in BOOLEAN /\ ocFaults' \in 0..OcMaxFaults
      <4>1. ocFaults' \in 0..OcMaxFaults
        BY <3>1 DEF OpenClawOverwrite, OpenClawFault
      <4>2. ocTorn' \in BOOLEAN /\ ocRebuilt' \in BOOLEAN
        BY <3>1 DEF OpenClawOverwrite
      <4> QED BY <4>1, <4>2
    <3>2. ASSUME OpenClawOverwrite
          PROVE  ocCopy' \in OpenClawCopies
      <4>1. ocCopy.rev \in Nat /\ ocCopy.rev + 1 \in Nat
        BY DEF OpenClawCopies
      <4> QED BY <3>2, <4>1 DEF OpenClawOverwrite, OpenClawCopies
    <3> QED BY <3>1, <3>2
  <2> QED BY <1>4, <2>1 DEF OpenClawSync, OpenClawUnchanged, OpenClawAnnotate, ocFiles, ocVars
<1>5. CASE OpenClawStop
  BY <1>5 DEF OpenClawStop, OpenClawFault, ocFiles, ocContext
<1> QED BY <1>1, <1>2, <1>3, <1>4, <1>5 DEF OpenClawNext

\* What the task carries when it goes on, and when it ends.
LEMMA OcGoFields ==
  ASSUME OpenClawTypeOK
  PROVE  /\ \A label \in OpenClawLabels : OpenClawGo(label) =>
              /\ ocTask'.at = label /\ ocTask'.plan = ocTask.plan
              /\ ocTask'.errand = ocTask.errand /\ ocTask'.result = ocTask.result
         /\ \A label \in OpenClawLabels, s \in Terminal : OpenClawSettle(label, s) =>
              /\ ocTask'.at = label /\ ocTask'.plan = ocTask.plan
              /\ ocTask'.errand = ocTask.errand /\ ocTask'.result = s
         /\ OpenClawEnd => ocTask' = OpenClawNoTask /\ ocTask'.at = "idle" /\ ocTask'.errand = "none"
<1>1. ocTask \in OpenClawTasks
  BY DEF OpenClawTypeOK
<1>2. OpenClawEnd => ocTask' = OpenClawNoTask /\ ocTask'.at = "idle" /\ ocTask'.errand = "none"
  BY DEF OpenClawEnd, OpenClawNoTask
<1>3. \A label \in OpenClawLabels : OpenClawGo(label) =>
        /\ ocTask'.at = label /\ ocTask'.plan = ocTask.plan
        /\ ocTask'.errand = ocTask.errand /\ ocTask'.result = ocTask.result
  BY <1>1 DEF OpenClawGo, OpenClawTasks
<1>4. \A label \in OpenClawLabels, s \in Terminal : OpenClawSettle(label, s) =>
        /\ ocTask'.at = label /\ ocTask'.plan = ocTask.plan
        /\ ocTask'.errand = ocTask.errand /\ ocTask'.result = s
  BY <1>1 DEF OpenClawSettle, OpenClawTasks
<1> QED BY <1>2, <1>3, <1>4

\* The copy an intent announces is the one before it, with the plan cleaned out.
LEMMA OcAfter ==
  ASSUME OcInv, NEW q \in OcPlans, OpenClawIntends(q)
  PROVE  ocIntent[q].after.cleaned = ocIntent[q].before.cleaned \cup {q}
<1>1. ocIntent[q] \in OpenClawIntents
  BY DEF OcInv, OpenClawTypeOK
<1>2. ocIntent[q].before \in OpenClawCopies
  BY <1>1 DEF OpenClawIntents
<1>3. ocIntent[q].after = [ocIntent[q].before EXCEPT !.cleaned = @ \cup {q}]
  BY DEF OcInv, OcIntentInv
<1> QED BY <1>2, <1>3 DEF OpenClawCopies

\* Others change the copy: what was cleaned out stays out, or the copy is gone.
LEMMA OcOverwrites ==
  ASSUME OcInv, OpenClawOverwrite
  PROVE  /\ ocCopy'.cleaned = ocCopy.cleaned \/ (ocCopy'.cleaned = {} /\ ocRebuilt')
         /\ ocRebuilt => ocRebuilt'
BY DEF OcInv, OpenClawTypeOK, OpenClawOverwrite, OpenClawCopies

\* A command starts when no commit is open, and touches no file yet.
LEMMA OcCommandStep ==
  ASSUME OcInv, OpenClawCommand
  PROVE  OcTaskInv' /\ OcPointerInv' /\ OcIntentInv' /\ OpenClawReceiptsTell' /\ OpenClawIntentIsPointed'
<1> USE DEF OcInv, OpenClawCommand, OpenClawAt, OpenClawIntends, OpenClawCommitOpen, ocFiles,
       ocContext, OpenClawCleaning
<1>1. OcTaskInv'
  BY DEF OcTaskInv
<1>2. OcPointerInv'
  BY DEF OcPointerInv
<1>3. OcIntentInv'
  BY DEF OcIntentInv
<1>4. OpenClawReceiptsTell'
  BY DEF OpenClawReceiptsTell
<1>5. OpenClawIntentIsPointed'
  BY DEF OpenClawIntentIsPointed
<1> QED BY <1>1, <1>2, <1>3, <1>4, <1>5

\* A request takes up the plan of the pointer.
LEMMA OcAssembleStep ==
  ASSUME OcInv, OpenClawAssemble
  PROVE  OcTaskInv' /\ OcPointerInv' /\ OcIntentInv' /\ OpenClawReceiptsTell' /\ OpenClawIntentIsPointed'
<1> USE DEF OcInv, OpenClawAssemble, OpenClawAt, OpenClawTypeOK, OpenClawIntends, ocFiles,
       ocContext
<1>1. OcTaskInv'
  BY DEF OcTaskInv, OcPointerInv
<1>2. OcPointerInv'
  BY DEF OcPointerInv
<1>3. OcIntentInv'
  BY DEF OcIntentInv
<1>4. OpenClawReceiptsTell'
  BY DEF OpenClawReceiptsTell
<1>5. OpenClawIntentIsPointed'
  BY DEF OpenClawIntentIsPointed
<1> QED BY <1>1, <1>2, <1>3, <1>4, <1>5

\* To close the pointer of a plan that has ended leaves no intent without a pointer.
LEMMA OcTidyStep ==
  ASSUME OcInv, OpenClawTidy
  PROVE  OcTaskInv' /\ OcPointerInv' /\ OcIntentInv' /\ OpenClawReceiptsTell' /\ OpenClawIntentIsPointed'
<1> USE OcGoFields DEF OcInv, OpenClawTidy, OpenClawAt, OpenClawLabels, Terminal,
       OpenClawIntends, OpenClawCommitOpen, ocContext, OpenClawTidied, OpenClawClosed,
       OpenClawCleaning
<1>1. OcTaskInv'
  BY DEF OcTaskInv
<1>2. OcPointerInv'
  BY DEF OcPointerInv
<1>3. OcIntentInv'
  BY DEF OcIntentInv
<1>4. OpenClawReceiptsTell'
  BY DEF OpenClawReceiptsTell
<1>5. OpenClawIntentIsPointed'
  BY DEF OcTaskInv, OpenClawIntentIsPointed
<1> QED BY <1>1, <1>2, <1>3, <1>4, <1>5

\* The same when a command leaves.
LEMMA OcLeaveStep ==
  ASSUME OcInv, OpenClawLeave
  PROVE  OcTaskInv' /\ OcPointerInv' /\ OcIntentInv' /\ OpenClawReceiptsTell' /\ OpenClawIntentIsPointed'
<1> USE OcGoFields DEF OcInv, OpenClawLeave, OpenClawAt, Terminal, OpenClawIntends,
       OpenClawCommitOpen, ocContext, OpenClawTidied, OpenClawClosed, OpenClawCleaning
<1>1. OcTaskInv'
  BY DEF OcTaskInv
<1>2. OcPointerInv'
  BY DEF OcPointerInv
<1>3. OcIntentInv'
  BY DEF OcIntentInv
<1>4. OpenClawReceiptsTell'
  BY DEF OpenClawReceiptsTell
<1>5. OpenClawIntentIsPointed'
  BY DEF OcTaskInv, OpenClawIntentIsPointed
<1> QED BY <1>1, <1>2, <1>3, <1>4, <1>5

\* An approval goes on only with a plan that has not ended.
LEMMA OcApproveStep ==
  ASSUME OcInv, OpenClawApprove
  PROVE  OcTaskInv' /\ OcPointerInv' /\ OcIntentInv' /\ OpenClawReceiptsTell' /\ OpenClawIntentIsPointed'
<1> USE OcGoFields DEF OcInv, OpenClawApprove, OpenClawAt, OpenClawLabels, Terminal,
       OpenClawSays, OpenClawTypeOK, OpenClawIntends, OpenClawCommitOpen, OpenClawSetReceipt,
       ocContext, OpenClawCleaning, Status
<1>1. OcTaskInv'
  BY DEF OcTaskInv
<1>2. OcPointerInv'
  BY DEF OcPointerInv
<1>3. OcIntentInv'
  BY DEF OcIntentInv
<1>4. OpenClawReceiptsTell'
  BY DEF OpenClawReceiptsTell
<1>5. OpenClawIntentIsPointed'
  BY DEF OpenClawIntentIsPointed
<1> QED BY <1>1, <1>2, <1>3, <1>4, <1>5

\* A pointer that is replaced stood for a plan that has ended, and has no intent.
LEMMA OcPointStep ==
  ASSUME OcInv, OpenClawPoint
  PROVE  OcTaskInv' /\ OcPointerInv' /\ OcIntentInv' /\ OpenClawReceiptsTell' /\ OpenClawIntentIsPointed'
<1> USE OcGoFields DEF OcInv, OpenClawPoint, OpenClawAt, OpenClawLabels, Terminal,
       OpenClawSays, OpenClawTypeOK, OpenClawIntends, OpenClawCommitOpen, ocContext,
       OpenClawVacant, OpenClawCleaning
<1>1. OcTaskInv'
  BY DEF OcTaskInv, OcPointerInv
<1>2. OcPointerInv'
  BY DEF OcTaskInv, OcPointerInv
<1>3. OcIntentInv'
  BY DEF OcIntentInv
<1>4. OpenClawReceiptsTell'
  BY DEF OpenClawReceiptsTell
<1>5. OpenClawIntentIsPointed'
  BY DEF OpenClawIntentIsPointed
<1> QED BY <1>1, <1>2, <1>3, <1>4, <1>5

\* A plan is published after its pointer was written.
LEMMA OcPublishStep ==
  ASSUME OcInv, OpenClawPublish
  PROVE  OcTaskInv' /\ OcPointerInv' /\ OcIntentInv' /\ OpenClawReceiptsTell' /\ OpenClawIntentIsPointed'
<1> USE OcGoFields DEF OcInv, OpenClawPublish, OpenClawAt, OpenClawLabels, OpenClawSays,
       OpenClawTypeOK, OpenClawIntends, OpenClawCommitOpen, OpenClawSetReceipt, ocContext,
       OpenClawCleaning
<1>1. OcTaskInv'
  BY DEF OcTaskInv
<1>2. OcPointerInv'
  BY DEF OcTaskInv, OcPointerInv
<1>3. OcIntentInv'
  BY DEF OcIntentInv
<1>4. OpenClawReceiptsTell'
  BY DEF OpenClawReceiptsTell
<1>5. OpenClawIntentIsPointed'
  BY DEF OcTaskInv, OpenClawIntentIsPointed
<1> QED BY <1>1, <1>2, <1>3, <1>4, <1>5

\* Who cancels has found no intent of the plan.
LEMMA OcCancelStep ==
  ASSUME OcInv, OpenClawCancel
  PROVE  OcTaskInv' /\ OcPointerInv' /\ OcIntentInv' /\ OpenClawReceiptsTell' /\ OpenClawIntentIsPointed'
<1> USE OcGoFields DEF OcInv, OpenClawCancel, OpenClawAt, OpenClawLabels, Terminal,
       OpenClawSays, OpenClawTypeOK, OpenClawIntends, OpenClawCommitOpen, OpenClawSetReceipt,
       ocContext, OpenClawCleaning
<1>1. OcTaskInv'
  BY DEF OcTaskInv
<1>2. OcPointerInv'
  BY DEF OcPointerInv
<1>3. OcIntentInv'
  BY DEF OcTaskInv, OcIntentInv
<1>4. OpenClawReceiptsTell'
  BY DEF OcTaskInv, OpenClawReceiptsTell
<1>5. OpenClawIntentIsPointed'
  BY DEF OpenClawIntentIsPointed
<1> QED BY <1>1, <1>2, <1>3, <1>4, <1>5

\* A pointer stands for a plan that was approved: none of the branches is left out.
LEMMA OcOpenStep ==
  ASSUME OcInv, OpenClawOpen
  PROVE  OcTaskInv' /\ OcPointerInv' /\ OcIntentInv' /\ OpenClawReceiptsTell' /\ OpenClawIntentIsPointed'
<1> USE OcGoFields DEF OcInv, OpenClawOpen, OpenClawAt, OpenClawLabels, Terminal, OpenClawSays,
       OpenClawTypeOK, OpenClawIntends, OpenClawSetReceipt, ocContext, OpenClawCleaning, Status
<1>1. OcTaskInv'
  <2>1. ocTask.plan \in OcPlans /\ OpenClawSays # "analyzed" /\ ocTask.errand = "clean"
    BY DEF OcTaskInv, OcPointerInv
  <2>2. ocTask'.at = "finish" => ~OpenClawIntends(ocTask.plan)
    BY <2>1 DEF OcIntentInv
  <2> QED BY <2>1, <2>2 DEF OcTaskInv
<1>2. OcPointerInv'
  BY DEF OcPointerInv
<1>3. OcIntentInv'
  BY DEF OcIntentInv
<1>4. OpenClawReceiptsTell'
  BY DEF OpenClawReceiptsTell
<1>5. OpenClawIntentIsPointed'
  BY DEF OcTaskInv, OpenClawIntentIsPointed
<1> QED BY <1>1, <1>2, <1>3, <1>4, <1>5

\* Recovery takes the copy for the one before or after the rewrite, or gives the plan up.
LEMMA OcRecoverStep ==
  ASSUME OcInv, OpenClawRecover
  PROVE  OcTaskInv' /\ OcPointerInv' /\ OcIntentInv' /\ OpenClawReceiptsTell' /\ OpenClawIntentIsPointed'
<1> USE OpenClawCleanAssumption, OcGoFields DEF OcInv, OpenClawRecover, OpenClawAt,
   OpenClawLabels, Terminal, OpenClawSays, OpenClawTypeOK, OpenClawIntends, OpenClawCommitOpen,
   OpenClawSetReceipt, OpenClawDropIntent, ocFiles, ocContext, OpenClawTidied, OpenClawClosed,
   OpenClawVacant, OpenClawCleanedCopy, OpenClawCleaning, Status
<1>1. OcTaskInv'
  <2>1. ocTask.plan \in OcPlans /\ ocTask.errand = "clean" /\ OpenClawSays = "scheduled"
        /\ ocPointer = [status |-> "scheduled", plan |-> ocTask.plan]
    BY DEF OcTaskInv
  <2>2. CASE ~OpenClawIntends(ocTask.plan)
    BY <2>1, <2>2 DEF OcTaskInv
  <2>3. CASE ocTask' = OpenClawNoTask
    BY <2>1, <2>3 DEF OcTaskInv, OpenClawNoTask
  <2>4. CASE OpenClawIntends(ocTask.plan) /\ ocCopy = ocIntent[ocTask.plan].after
             /\ OpenClawSettle("record", "applied") /\ UNCHANGED ocIntent
    <3>1. ocTask.plan \in ocCopy.cleaned
      BY <2>1, <2>4, OcAfter
    <3> QED BY <2>1, <2>4, <3>1 DEF OcTaskInv
  <2>5. CASE OpenClawDropIntent(ocTask.plan) /\ (OpenClawGo("prepare") \/ OpenClawSettle("record", "stale"))
    <3>1. ~OpenClawIntends(ocTask.plan)'
      BY <2>1, <2>5
    <3>2. ocTask'.plan = ocTask.plan /\ ocTask'.errand = "clean"
          /\ (ocTask'.at = "prepare" \/ (ocTask'.at = "record" /\ ocTask'.result = "stale"))
      BY <2>1, <2>5
    <3> QED BY <2>1, <3>1, <3>2 DEF OcTaskInv
  <2> QED BY <2>2, <2>3, <2>4, <2>5
<1>2. OcPointerInv'
  BY DEF OcTaskInv, OpenClawIntentIsPointed, OcPointerInv
<1>3. OcIntentInv'
  BY DEF OcTaskInv, OpenClawIntentIsPointed, OcIntentInv
<1>4. OpenClawReceiptsTell'
  BY DEF OcTaskInv, OpenClawReceiptsTell, OpenClawIntentIsPointed, OcIntentInv
<1>5. OpenClawIntentIsPointed'
  BY DEF OcTaskInv, OpenClawIntentIsPointed, OcPointerInv
<1> QED BY <1>1, <1>2, <1>3, <1>4, <1>5

\* A verdict against the plan is reached with no intent on the disk.
LEMMA OcPrepareStep ==
  ASSUME OcInv, OpenClawPrepare
  PROVE  OcTaskInv' /\ OcPointerInv' /\ OcIntentInv' /\ OpenClawReceiptsTell' /\ OpenClawIntentIsPointed'
<1> USE OcGoFields DEF OcInv, OpenClawPrepare, OpenClawAt, OpenClawLabels, Terminal,
       OpenClawSays, OpenClawIntends, ocFiles, ocContext, OpenClawCleaning
<1>1. OcTaskInv'
  BY DEF OcTaskInv
<1>2. OcPointerInv'
  BY DEF OcPointerInv
<1>3. OcIntentInv'
  BY DEF OcIntentInv
<1>4. OpenClawReceiptsTell'
  BY DEF OpenClawReceiptsTell
<1>5. OpenClawIntentIsPointed'
  BY DEF OpenClawIntentIsPointed
<1> QED BY <1>1, <1>2, <1>3, <1>4, <1>5

\* The intent is written before the copy.
LEMMA OcExecuteStep ==
  ASSUME OcInv, OpenClawExecute
  PROVE  OcTaskInv' /\ OcPointerInv' /\ OcIntentInv' /\ OpenClawReceiptsTell' /\ OpenClawIntentIsPointed'
<1> USE OpenClawCleanAssumption, OcGoFields DEF OcInv, OpenClawExecute, OpenClawAt,
       OpenClawLabels, Terminal, OpenClawSays, OpenClawTypeOK, OpenClawIntends, ocContext,
       OpenClawCleanedCopy, OpenClawCleaning, Status
<1>1. OcTaskInv'
  <2>1. ocTask.plan \in OcPlans /\ ocTask.errand = "clean" /\ OpenClawSays = "scheduled"
        /\ ocPointer = [status |-> "scheduled", plan |-> ocTask.plan] /\ ~OpenClawIntends(ocTask.plan)
    BY DEF OcTaskInv
  <2>2. CASE OpenClawGo("write") /\ ocTask.plan \notin ocCopy.cleaned
    <3>1. ocIntent'[ocTask.plan] = [before |-> ocCopy, after |-> OpenClawCleanedCopy(ocTask.plan)]
      BY <2>1, <2>2
    <3> QED BY <3>1 DEF OcTaskInv
  <2>3. CASE UNCHANGED ocIntent
    BY <2>3 DEF OcTaskInv
  <2> QED BY <2>2, <2>3
<1>2. OcPointerInv'
  BY DEF OcPointerInv
<1>3. OcIntentInv'
  <2>1. ocTask.plan \in OcPlans /\ ocTask.errand = "clean" /\ OpenClawSays = "scheduled"
        /\ ocPointer = [status |-> "scheduled", plan |-> ocTask.plan] /\ ~OpenClawIntends(ocTask.plan)
    BY DEF OcTaskInv
  <2>2. CASE ocTask.plan \notin ocCopy.cleaned
             /\ ocIntent' = [ocIntent EXCEPT ![ocTask.plan] =
                               [before |-> ocCopy, after |-> OpenClawCleanedCopy(ocTask.plan)]]
    <3>1. ocIntent'[ocTask.plan] = [before |-> ocCopy, after |-> OpenClawCleanedCopy(ocTask.plan)]
      BY <2>1, <2>2
    <3>2. \A r \in OcPlans \ {ocTask.plan} : ocIntent'[r] = ocIntent[r]
      OBVIOUS
    <3>3. \A r \in OcPlans : OpenClawIntends(r)' => r = ocTask.plan
      BY <2>1, <3>2 DEF OpenClawIntentIsPointed
    <3> QED BY <2>1, <3>1, <3>3 DEF OcIntentInv
  <2>3. CASE UNCHANGED ocIntent
    BY <2>3 DEF OcIntentInv
  <2> QED BY <2>2, <2>3
<1>4. OpenClawReceiptsTell'
  BY DEF OpenClawReceiptsTell
<1>5. OpenClawIntentIsPointed'
  BY DEF OcTaskInv, OpenClawIntentIsPointed
<1> QED BY <1>1, <1>2, <1>3, <1>4, <1>5

\* The copy becomes what the intent says.
LEMMA OcWriteStep ==
  ASSUME OcInv, OpenClawWrite
  PROVE  OcTaskInv' /\ OcPointerInv' /\ OcIntentInv' /\ OpenClawReceiptsTell' /\ OpenClawIntentIsPointed'
<1> USE OpenClawCleanAssumption, OcGoFields DEF OcInv, OpenClawWrite, OpenClawAt,
   OpenClawLabels, Terminal, OpenClawSays, OpenClawTypeOK, OpenClawIntends, OpenClawCommitOpen,
   OpenClawSetReceipt, OpenClawDropIntent, ocFiles, ocContext, OpenClawTidied, OpenClawClosed,
   OpenClawVacant, OpenClawCleanedCopy, OpenClawCleaning, Status
<1>1. OcTaskInv'
  <2>1. ocTask.plan \in OcPlans /\ OpenClawSays = "scheduled" /\ ocTask.errand = "clean"
        /\ ocPointer = [status |-> "scheduled", plan |-> ocTask.plan]
        /\ ocIntent[ocTask.plan] = [before |-> ocCopy, after |-> OpenClawCleanedCopy(ocTask.plan)]
    BY DEF OcTaskInv
  <2>2. ocCopy'.cleaned = ocCopy.cleaned \cup {ocTask.plan} /\ ocCopy'.rev = ocCopy.rev
    BY DEF OpenClawCopies
  <2>3. OpenClawIntends(ocTask.plan)
    BY <2>1, <2>2 DEF OpenClawNoIntent
  <2> QED BY <2>1, <2>2, <2>3 DEF OcTaskInv
<1>2. OcPointerInv'
  BY DEF OcTaskInv, OpenClawIntentIsPointed, OcPointerInv
<1>3. OcIntentInv'
  <2>1. ocTask.plan \in OcPlans /\ OpenClawSays = "scheduled" /\ ocTask.errand = "clean"
        /\ ocPointer = [status |-> "scheduled", plan |-> ocTask.plan]
        /\ ocIntent[ocTask.plan] = [before |-> ocCopy, after |-> OpenClawCleanedCopy(ocTask.plan)]
    BY DEF OcTaskInv
  <2>2. ocCopy'.cleaned = ocCopy.cleaned \cup {ocTask.plan} /\ ocCopy'.rev = ocCopy.rev
    BY DEF OpenClawCopies
  <2>3. \A r \in OcPlans : OpenClawIntends(r) => r = ocTask.plan
    BY <2>1 DEF OpenClawIntentIsPointed
  <2> QED BY <2>1, <2>2, <2>3 DEF OcIntentInv
<1>4. OpenClawReceiptsTell'
  <2>1. ocTask.plan \in OcPlans /\ OpenClawSays = "scheduled" /\ OpenClawIntends(ocTask.plan)
    <3>1. ocTask.plan \in OcPlans /\ OpenClawSays = "scheduled"
          /\ ocIntent[ocTask.plan].after = OpenClawCleanedCopy(ocTask.plan)
      BY DEF OcTaskInv
    <3>2. ocTask.plan \in OpenClawCleanedCopy(ocTask.plan).cleaned
      BY DEF OpenClawCopies
    <3> QED BY <3>1, <3>2 DEF OpenClawNoIntent
  <2>2. ocCopy'.cleaned = ocCopy.cleaned \cup {ocTask.plan}
    BY DEF OpenClawCopies
  <2> QED BY <2>1, <2>2 DEF OpenClawReceiptsTell
<1>5. OpenClawIntentIsPointed'
  BY DEF OcTaskInv, OpenClawIntentIsPointed, OcPointerInv
<1> QED BY <1>1, <1>2, <1>3, <1>4, <1>5

\* The receipt says applied only when the plan is cleaned out of the copy.
LEMMA OcRecordStep ==
  ASSUME OcInv, OpenClawRecord
  PROVE  OcTaskInv' /\ OcPointerInv' /\ OcIntentInv' /\ OpenClawReceiptsTell' /\ OpenClawIntentIsPointed'
<1> USE OcGoFields DEF OcInv, OpenClawRecord, OpenClawAt, OpenClawLabels, Terminal,
       OpenClawSays, OpenClawTypeOK, OpenClawIntends, OpenClawSetReceipt, ocContext,
       OpenClawCleaning
<1>1. OcTaskInv'
  BY DEF OcTaskInv
<1>2. OcPointerInv'
  BY DEF OcTaskInv, OcPointerInv
<1>3. OcIntentInv'
  BY DEF OcTaskInv, OcIntentInv
<1>4. OpenClawReceiptsTell'
  BY DEF OcTaskInv, OpenClawReceiptsTell
<1>5. OpenClawIntentIsPointed'
  BY DEF OcTaskInv, OpenClawIntentIsPointed
<1> QED BY <1>1, <1>2, <1>3, <1>4, <1>5

\* The intent goes after the receipt is recorded.
LEMMA OcClearStep ==
  ASSUME OcInv, OpenClawClear
  PROVE  OcTaskInv' /\ OcPointerInv' /\ OcIntentInv' /\ OpenClawReceiptsTell' /\ OpenClawIntentIsPointed'
<1> USE OcGoFields DEF OcInv, OpenClawClear, OpenClawAt, OpenClawLabels, Terminal,
       OpenClawSays, OpenClawTypeOK, OpenClawIntends, OpenClawDropIntent, ocContext,
       OpenClawCleaning
<1>1. OcTaskInv'
  BY DEF OcTaskInv
<1>2. OcPointerInv'
  BY DEF OcPointerInv
<1>3. OcIntentInv'
  BY DEF OcIntentInv
<1>4. OpenClawReceiptsTell'
  BY DEF OcTaskInv, OpenClawReceiptsTell
<1>5. OpenClawIntentIsPointed'
  BY DEF OpenClawIntentIsPointed
<1> QED BY <1>1, <1>2, <1>3, <1>4, <1>5

\* The pointer is closed last.
LEMMA OcFinishStep ==
  ASSUME OcInv, OpenClawFinish
  PROVE  OcTaskInv' /\ OcPointerInv' /\ OcIntentInv' /\ OpenClawReceiptsTell' /\ OpenClawIntentIsPointed'
<1> USE OcGoFields DEF OcInv, OpenClawFinish, OpenClawAt, Terminal, OpenClawSays,
       OpenClawIntends, ocContext, OpenClawClosed, OpenClawCleaning
<1>1. OcTaskInv'
  BY DEF OcTaskInv
<1>2. OcPointerInv'
  BY DEF OcTaskInv, OcPointerInv
<1>3. OcIntentInv'
  BY DEF OcIntentInv
<1>4. OpenClawReceiptsTell'
  BY DEF OpenClawReceiptsTell
<1>5. OpenClawIntentIsPointed'
  BY DEF OcTaskInv, OpenClawIntentIsPointed
<1> QED BY <1>1, <1>2, <1>3, <1>4, <1>5

\* Others change the copy only when there is no intent at all.
LEMMA OcSyncStep ==
  ASSUME OcInv, OpenClawSync
  PROVE  OcTaskInv' /\ OcPointerInv' /\ OcIntentInv' /\ OpenClawReceiptsTell' /\ OpenClawIntentIsPointed'
<1> USE DEF OcInv, OpenClawSync, OpenClawAt, OpenClawIntends, OpenClawCommitOpen, ocFiles
<1>1. OcTaskInv'
  BY DEF OcTaskInv
<1>2. OcPointerInv'
  BY DEF OcPointerInv
<1>3. OcIntentInv'
  <2>1. \A r \in OcPlans : ~OpenClawIntends(r)
    BY DEF OpenClawIntentIsPointed
  <2> QED BY <2>1 DEF OcIntentInv
<1>4. OpenClawReceiptsTell'
  <2>1. /\ ocCopy'.cleaned = ocCopy.cleaned \/ (ocCopy'.cleaned = {} /\ ocRebuilt')
        /\ ocRebuilt => ocRebuilt'
    BY OcOverwrites
  <2> QED BY <2>1 DEF OpenClawReceiptsTell
<1>5. OpenClawIntentIsPointed'
  BY DEF OpenClawIntentIsPointed
<1> QED BY <1>1, <1>2, <1>3, <1>4, <1>5

\* Analysis changes the copy under an intent, and that is noted.
LEMMA OcAnnotateStep ==
  ASSUME OcInv, OpenClawAnnotate
  PROVE  OcTaskInv' /\ OcPointerInv' /\ OcIntentInv' /\ OpenClawReceiptsTell' /\ OpenClawIntentIsPointed'
<1> USE DEF OcInv, OpenClawAnnotate, OpenClawAt, OpenClawIntends, ocFiles
<1>1. OcTaskInv'
  BY DEF OcTaskInv, OpenClawNoTask
<1>2. OcPointerInv'
  BY DEF OcPointerInv
<1>3. OcIntentInv'
  BY DEF OcIntentInv
<1>4. OpenClawReceiptsTell'
  <2>1. /\ ocCopy'.cleaned = ocCopy.cleaned \/ (ocCopy'.cleaned = {} /\ ocRebuilt')
        /\ ocRebuilt => ocRebuilt'
    BY OcOverwrites
  <2> QED BY <2>1 DEF OpenClawReceiptsTell
<1>5. OpenClawIntentIsPointed'
  BY DEF OpenClawIntentIsPointed
<1> QED BY <1>1, <1>2, <1>3, <1>4, <1>5

\* A task that dies leaves files the next one can tell apart.
LEMMA OcStopStep ==
  ASSUME OcInv, OpenClawStop
  PROVE  OcTaskInv' /\ OcPointerInv' /\ OcIntentInv' /\ OpenClawReceiptsTell' /\ OpenClawIntentIsPointed'
<1> USE OcGoFields DEF OcInv, OpenClawStop, OpenClawAt, OpenClawIntends, ocFiles, ocContext,
       OpenClawCleaning
<1>1. OcTaskInv'
  BY DEF OcTaskInv
<1>2. OcPointerInv'
  BY DEF OcPointerInv
<1>3. OcIntentInv'
  BY DEF OcIntentInv
<1>4. OpenClawReceiptsTell'
  BY DEF OpenClawReceiptsTell
<1>5. OpenClawIntentIsPointed'
  BY DEF OpenClawIntentIsPointed
<1> QED BY <1>1, <1>2, <1>3, <1>4, <1>5

\* Every step of the clean execution keeps the invariant.
LEMMA OcStep == OcInv /\ [OpenClawNext]_ocVars => OcInv'
<1> SUFFICES ASSUME OcInv, [OpenClawNext]_ocVars PROVE OcInv'
  OBVIOUS
<1>1. ASSUME OpenClawNext PROVE OcTaskInv' /\ OcPointerInv' /\ OcIntentInv'
                                /\ OpenClawReceiptsTell' /\ OpenClawIntentIsPointed'
  <2>1. ASSUME OpenClawOnwards PROVE OcTaskInv' /\ OcPointerInv' /\ OcIntentInv'
                                     /\ OpenClawReceiptsTell' /\ OpenClawIntentIsPointed'
    BY <2>1, OcTidyStep, OcLeaveStep, OcApproveStep, OcPointStep, OcPublishStep, OcCancelStep,
       OcOpenStep, OcRecoverStep, OcPrepareStep, OcExecuteStep, OcWriteStep, OcRecordStep,
       OcClearStep, OcFinishStep DEF OpenClawOnwards
  <2>2. CASE OpenClawUnchanged
    BY <2>2 DEF OpenClawUnchanged, ocVars, OcInv, OcTaskInv, OcPointerInv, OcIntentInv,
       OpenClawReceiptsTell, OpenClawIntentIsPointed, OpenClawAt, OpenClawIntends,
       OpenClawCommitOpen
  <2> QED BY <1>1, <2>1, <2>2, OcCommandStep, OcAssembleStep, OcSyncStep, OcAnnotateStep, OcStopStep
          DEF OpenClawNext
<1>2. ASSUME UNCHANGED ocVars PROVE OcInv'
  BY <1>2 DEF ocVars, OcInv, OpenClawTypeOK, OcTaskInv, OcPointerInv, OcIntentInv,
     OpenClawReceiptsTell, OpenClawIntentIsPointed, OpenClawAt, OpenClawSays, OpenClawIntends,
     OpenClawCommitOpen, OpenClawCleanedCopy
<1> QED BY <1>1, <1>2, OcTypeStep DEF OcInv

\* The invariant of the clean execution of OpenClaw, for any number of plans, changes of
\* the copy and faults.
THEOREM OpenClawInvariance == OpenClawSpec => []OcInv
BY OcStart, OcStep, PTL DEF OpenClawSpec

\* Receipts, pointer, intents, copy and task of the clean execution of OpenClaw are well
\* typed.
THEOREM OpenClawTypeCorrect == OpenClawSpec => []OpenClawTypeOK
<1>1. OcInv => OpenClawTypeOK
  BY DEF OcInv
<1> QED BY <1>1, OpenClawInvariance, PTL

\* However often the process dies, the shared receipts say what happened to the copy.
THEOREM CopyIsTold == OpenClawSpec => []OpenClawReceiptsTell
<1>1. OcInv => OpenClawReceiptsTell
  BY DEF OcInv
<1> QED BY <1>1, OpenClawInvariance, PTL

\* Only the plan of the pointer has an intent or is scheduled: the guards of sync,
\* approve and cancel look at the right one.
THEOREM IntentIsPointed == OpenClawSpec => []OpenClawIntentIsPointed
<1>1. OcInv => OpenClawIntentIsPointed
  BY DEF OcInv
<1> QED BY <1>1, OpenClawInvariance, PTL

-------------------------------------------------------------------------------
(* The clean execution of OpenClaw is one of CleanExecution.               *)

\* The receipt of q becomes s: along the table, and to applied only when it is cleaned
\* out of the copy.
OcWritten(q, s) ==
  /\ ocReceipt' = [ocReceipt EXCEPT ![q] = s]
  /\ UNCHANGED ocCopy
  /\ <<ocReceipt[q], s>> \in Transitions
  /\ s = "applied" => q \in ocCopy.cleaned

\* A step writes at most one receipt, as the table allows.
LEMMA OcReceiptWritten ==
  ASSUME OcInv, OpenClawNext
  PROVE  ocReceipt' = ocReceipt \/ \E q \in OcPlans, s \in Status : OcWritten(q, s)
<1>. PICK q : q = ocTask.plan
  OBVIOUS
<1>1. ~OpenClawAt("idle") => q \in OcPlans
  BY DEF OcInv, OcTaskInv
<1>2. q \in OcPlans => ocReceipt[q] \in Status
  BY DEF OcInv, OpenClawTypeOK
<1>3. CASE OpenClawApprove
  <2>1. OpenClawSays = "analyzed" => OcWritten(q, "approved")
    BY <1>3 DEF OpenClawApprove, OpenClawSetReceipt, OpenClawSays, OcWritten, ocContext, Transitions,
       Terminal
  <2>. QED  BY <1>1, <1>3, <2>1 DEF OpenClawApprove, OpenClawAt, Status
<1>4. CASE OpenClawPublish \/ OpenClawOpen
  <2>1. OpenClawSays = "approved" => OcWritten(q, "scheduled")
    BY <1>4 DEF OpenClawPublish, OpenClawOpen, OpenClawSetReceipt, OpenClawSays, OcWritten, ocContext,
       Transitions
  <2>. QED  BY <1>1, <1>4, <2>1 DEF OpenClawPublish, OpenClawOpen, OpenClawAt, Status
<1>5. CASE OpenClawCancel
  <2>1. q \in OcPlans
    BY <1>1, <1>5 DEF OpenClawCancel, OpenClawAt
  <2>2. OpenClawSays \notin Terminal => OcWritten(q, "cancelled")
    BY <1>2, <1>5, <2>1 DEF OpenClawCancel, OpenClawSetReceipt, OpenClawSays, OcWritten, ocContext,
       Transitions, Terminal, Status
  <2>. QED  BY <1>5, <2>1, <2>2 DEF OpenClawCancel, Status
<1>6. CASE OpenClawRecord
  <2>1. /\ q \in OcPlans /\ ocReceipt[q] = "scheduled" /\ ocTask.result \in Terminal
        /\ ocTask.result = "applied" => q \in ocCopy.cleaned
    BY <1>1, <1>6 DEF OpenClawRecord, OpenClawAt, OpenClawSays, OcInv, OcTaskInv
  <2>2. OcWritten(q, ocTask.result)
    BY <1>6, <2>1 DEF OpenClawRecord, OpenClawSetReceipt, OcWritten, ocContext, Transitions, Terminal
  <2>. QED  BY <2>1, <2>2 DEF Status, Terminal
<1>7. CASE ~OpenClawApprove /\ ~OpenClawPublish /\ ~OpenClawOpen /\ ~OpenClawCancel /\ ~OpenClawRecord
  BY <1>7 DEF OpenClawNext, OpenClawOnwards, OpenClawCommand, OpenClawAssemble, OpenClawSync,
     OpenClawUnchanged, OpenClawAnnotate, OpenClawStop, OpenClawTidy, OpenClawLeave, OpenClawPoint,
     OpenClawRecover, OpenClawPrepare, OpenClawExecute, OpenClawWrite, OpenClawClear, OpenClawFinish,
     ocFiles, ocVars
<1>. QED  BY <1>3, <1>4, <1>5, <1>6, <1>7

\* The copy changes when a scheduled plan is cleaned out of it; others may change what
\* else is in it, or damage all of it.
LEMMA OcCopyWritten ==
  ASSUME OcInv, OpenClawNext
  PROVE  \/ ocCopy'.cleaned = ocCopy.cleaned
         \/ /\ UNCHANGED ocReceipt
            /\ \/ ocCopy'.cleaned = {}
               \/ \E q \in OcPlans : /\ ocCopy'.cleaned = ocCopy.cleaned \cup {q}
                                     /\ ocReceipt[q] = "scheduled"
<1>1. ocCopy \in OpenClawCopies
  BY DEF OcInv, OpenClawTypeOK
<1>2. CASE OpenClawWrite
  <2>. PICK q : q = ocTask.plan
    OBVIOUS
  <2>1. q \in OcPlans /\ ocReceipt[q] = "scheduled"
    BY <1>2 DEF OpenClawWrite, OpenClawAt, OpenClawSays, OcInv, OcTaskInv
  <2>2. ocCopy'.cleaned = ocCopy.cleaned \cup {q} /\ UNCHANGED ocReceipt
    BY <1>1, <1>2 DEF OpenClawWrite, OpenClawCleanedCopy, OpenClawCopies, ocFiles
  <2>. QED  BY <2>1, <2>2
<1>3. CASE OpenClawSync \/ OpenClawAnnotate
  BY <1>1, <1>3 DEF OpenClawSync, OpenClawAnnotate, OpenClawOverwrite, OpenClawCopies, ocFiles
<1>4. CASE ~OpenClawWrite /\ ~OpenClawSync /\ ~OpenClawAnnotate
  BY <1>4 DEF OpenClawNext, OpenClawOnwards, OpenClawCommand, OpenClawAssemble, OpenClawUnchanged,
     OpenClawStop, OpenClawTidy, OpenClawLeave, OpenClawApprove, OpenClawPoint, OpenClawPublish,
     OpenClawCancel, OpenClawOpen, OpenClawRecover, OpenClawPrepare, OpenClawExecute, OpenClawRecord,
     OpenClawClear, OpenClawFinish, ocContext, ocVars
<1>. QED  BY <1>2, <1>3, <1>4

\* An operation under the session lock is a step of the execution, or changes nothing of it.
LEMMA OpenClawExecutesStep ==
  OcInv /\ [OpenClawNext]_ocVars => [OpenClawExecution!Next]_(OpenClawExecution!vars)
<1>. DEFINE Reported == {q \in OcPlans : ocReceipt[q] = "applied"}
            Carried  == ocCopy.cleaned \cup Reported
<1>. SUFFICES ASSUME OcInv, OpenClawNext
              PROVE  OpenClawExecution!Next \/ UNCHANGED <<ocReceipt, Carried>>
  BY DEF ocVars, OpenClawExecution!vars
<1>1. ocReceipt \in [OcPlans -> Status]
  BY DEF OcInv, OpenClawTypeOK
<1>2. CASE ocReceipt' # ocReceipt
  <2>1. PICK q \in OcPlans, s \in Status : OcWritten(q, s)
    BY <1>2, OcReceiptWritten
  <2>2. CASE s = "applied"
    <3>1. Carried' = Carried /\ q \in Carried
      BY <1>1, <2>1, <2>2 DEF OcWritten
    <3>2. OpenClawExecution!Report(q)
      BY <2>1, <2>2, <3>1 DEF OcWritten, OpenClawExecution!Report, OpenClawExecution!Transitions, Transitions
    <3>. QED  BY <3>2 DEF OpenClawExecution!Next
  <2>3. CASE s # "applied"
    <3>1. Reported' = Reported
      BY <1>1, <2>1, <2>3 DEF OcWritten, Transitions
    <3>2. Carried' = Carried
      BY <2>1, <3>1 DEF OcWritten
    <3>3. OpenClawExecution!Advance(q)
      BY <2>1, <2>3, <3>2 DEF OcWritten, OpenClawExecution!Advance, OpenClawExecution!Transitions,
         OpenClawExecution!Status, Transitions, Status
    <3>. QED  BY <3>3 DEF OpenClawExecution!Next
  <2>. QED  BY <2>2, <2>3
<1>3. CASE ocReceipt' = ocReceipt
  <2>1. Reported' = Reported
    BY <1>3
  <2>2. CASE ocCopy'.cleaned = ocCopy.cleaned
    BY <1>3, <2>1, <2>2
  <2>3. CASE ocCopy'.cleaned = {}
    <3>1. Carried' = Reported
      BY <2>1, <2>3
    <3>2. Carried \subseteq OcPlans
      BY DEF OcInv, OpenClawTypeOK, OpenClawCopies
    <3>3. OpenClawExecution!Lose
      BY <1>3, <3>1, <3>2 DEF OpenClawExecution!Lose
    <3>. QED  BY <3>3 DEF OpenClawExecution!Next
  <2>4. ASSUME NEW q \in OcPlans, ocCopy'.cleaned = ocCopy.cleaned \cup {q}, ocReceipt[q] = "scheduled"
        PROVE  OpenClawExecution!Next
    <3>1. Carried' = Carried \cup {q}
      BY <2>1, <2>4
    <3>2. OpenClawExecution!CarryOut(q)
      BY <1>3, <2>4, <3>1 DEF OpenClawExecution!CarryOut
    <3>. QED  BY <3>2 DEF OpenClawExecution!Next
  <2>. QED  BY <2>2, <2>3, <2>4, OcCopyWritten
<1>. QED  BY <1>2, <1>3

\* OpenClaw executes plans as CleanExecution promises, for any number of plans, changes
\* of the copy, crashes and failed writes; only a damaged copy loses what was taken out.
THEOREM OpenClawRefinement == OpenClawSpec => OpenClawExecutes
<1>1. OpenClawInit => OpenClawExecution!Init
  BY DEF OpenClawInit, OpenClawExecution!Init
<1>. QED
  BY <1>1, OpenClawInvariance, OpenClawExecutesStep, PTL
  DEF OpenClawSpec, OpenClawExecutes, OpenClawExecution!Spec
===============================================================================
