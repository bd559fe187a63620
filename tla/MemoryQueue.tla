------------------------------ MODULE MemoryQueue ------------------------------
(***************************************************************************)
(* The queue of procedural memory (components/packages/features/memory).   *)
(*                                                                         *)
(* When OpenClaw has evicted tasks it enqueues what it archived of them,   *)
(* takes a batch from the queue, has it distilled into skills, marks the   *)
(* batch and saves the skills.  All sessions share one queue file, batches *)
(* hold entries of any session, and every change reads the whole file and  *)
(* writes the whole file, with no lock around the two.  An entry is an     *)
(* archived payload; the order of the queue and the skills' texts are left *)
(* out: an entry stands for the skills made of it as well.                 *)
(***************************************************************************)
EXTENDS Naturals, FiniteSets

CONSTANTS
  MqClients,   \* OpenClaw sessions at work, of one process or several
  MqEntries,   \* archived payloads
  MqOfSession, \* the entries of each session
  MqBatch,     \* entries a batch may hold
  MqMaxFaults  \* failed calls and deaths

ASSUME MemoryAssumption ==
  /\ MqBatch \in Nat \ {0} /\ MqMaxFaults \in Nat
  /\ IsFiniteSet(MqEntries) /\ MqOfSession \subseteq SUBSET MqEntries

MqStatus == {"absent", "queued", "inflight", "distilled", "failed"}

VARIABLES
  mqFile,    \* the queue file: the status of each entry
  mqSkills,  \* entries whose skills are in their session's file
  mqPc, mqHeld, mqCopy, mqSaved, mqLeft, \* a call: entries, files as read, entries to save
  mqTwice,   \* history: entries taken into a batch after they had been in one
  mqTaken,   \* history: entries taken into a batch
  mqAdded,   \* history: entries that were enqueued
  mqUndone,  \* history: entries whose state somebody overwrote unseen
  mqOrphans, \* history: entries of a call that ended early
  mqFaults

mqCall    == <<mqHeld, mqCopy, mqSaved, mqLeft>>
mqHistory == <<mqTwice, mqTaken, mqAdded, mqUndone, mqOrphans>>
mqVars    == <<mqFile, mqSkills, mqPc, mqCall, mqHistory, mqFaults>>

\* Mutant: an entry that is being distilled is taken as well.
MqWaitingOrInflight(file) == {e \in MqEntries : file[e] \in {"queued", "inflight"}}

\* An entry of an interrupted batch stays what it is: nobody takes it again.
MqWaiting(file) == {e \in MqEntries : file[e] = "queued"}

\* drainBatch: the first entries that are queued.
MqTakes(file, batch) ==
  /\ batch \subseteq MqWaiting(file)
  /\ Cardinality(batch) <= MqBatch
  /\ batch = MqWaiting(file) \/ Cardinality(batch) = MqBatch

MemoryInit ==
  /\ mqFile = [e \in MqEntries |-> "absent"] /\ mqSkills = {}
  /\ mqPc = [c \in MqClients |-> "idle"]
  /\ mqHeld = [c \in MqClients |-> {}]
  /\ mqCopy = [c \in MqClients |-> [e \in MqEntries |-> "absent"]]
  /\ mqSaved = [c \in MqClients |-> {}] /\ mqLeft = [c \in MqClients |-> {}]
  /\ mqTwice = {} /\ mqTaken = {} /\ mqAdded = {} /\ mqUndone = {} /\ mqOrphans = {}
  /\ mqFaults = 0

Mq(c, from, to) == mqPc[c] = from /\ mqPc' = [mqPc EXCEPT ![c] = to]

\* The queue file is read; nothing else happens until it is written.
MqReads(c) == mqCopy' = [mqCopy EXCEPT ![c] = mqFile]

\* The file read before is written back with one status for some entries; only
\* enqueue puts entries into it.
MqWrites(c, entries, status) ==
  /\ mqFile' = [e \in MqEntries |->
       IF e \in entries /\ (mqCopy[c][e] = "absent" => status = "queued")
         THEN status ELSE mqCopy[c][e]]
  /\ mqUndone' = mqUndone \cup {e \in MqEntries : mqFile[e] # mqCopy[c][e]}

\* An eviction has archived some tasks, or none, and enqueue reads the file.
MemoryCall(c) ==
  /\ \E wanted \in SUBSET MqEntries :
       LET new == {e \in wanted : mqFile[e] = "absent"} IN
       /\ Mq(c, "idle", IF new = {} THEN "drain" ELSE "add")
       /\ mqHeld' = [mqHeld EXCEPT ![c] = new]
  /\ MqReads(c)
  /\ UNCHANGED <<mqFile, mqSkills, mqSaved, mqLeft, mqHistory, mqFaults>>

MemoryAdd(c) ==
  /\ Mq(c, "add", "drain")
  /\ MqWrites(c, mqHeld[c], "queued")
  /\ mqAdded' = mqAdded \cup mqHeld[c]
  /\ mqHeld' = [mqHeld EXCEPT ![c] = {}]
  /\ UNCHANGED <<mqSkills, mqCopy, mqSaved, mqLeft, mqTwice, mqTaken, mqOrphans, mqFaults>>

\* drainBatch reads the file and chooses; with an empty batch the call ends.
MemoryDrain(c) ==
  /\ \E batch \in SUBSET MqEntries :
       /\ MqTakes(mqFile, batch)
       /\ Mq(c, "drain", IF batch = {} THEN "idle" ELSE "take")
       /\ mqHeld' = [mqHeld EXCEPT ![c] = batch]
  /\ MqReads(c)
  /\ UNCHANGED <<mqFile, mqSkills, mqSaved, mqLeft, mqHistory, mqFaults>>

MemoryTake(c) ==
  /\ Mq(c, "take", "distill")
  /\ MqWrites(c, mqHeld[c], "inflight")
  /\ mqTwice' = mqTwice \cup (mqTaken \cap mqHeld[c])
  /\ mqTaken' = mqTaken \cup mqHeld[c]
  /\ UNCHANGED <<mqSkills, mqCall, mqAdded, mqOrphans, mqFaults>>

\* The distiller has answered; completeBatch reads the file.
MemoryComplete(c) ==
  /\ Mq(c, "distill", "mark")
  /\ MqReads(c)
  /\ UNCHANGED <<mqFile, mqSkills, mqHeld, mqSaved, mqLeft, mqHistory, mqFaults>>

MemoryMark(c) ==
  /\ Mq(c, "mark", "skills")
  /\ MqWrites(c, mqHeld[c], "distilled")
  /\ mqLeft' = [mqLeft EXCEPT ![c] = mqHeld[c]]
  /\ UNCHANGED <<mqSkills, mqHeld, mqCopy, mqSaved, mqTwice, mqTaken, mqAdded, mqOrphans, mqFaults>>

\* One session after the other: its skills are read, and written with the new ones.
MemoryLoad(c) ==
  /\ mqLeft[c] # {} /\ Mq(c, "skills", "save")
  /\ mqSaved' = [mqSaved EXCEPT ![c] = mqSkills]
  /\ UNCHANGED <<mqFile, mqSkills, mqHeld, mqCopy, mqLeft, mqHistory, mqFaults>>

MemorySave(c) ==
  /\ Mq(c, "save", "skills")
  /\ \E session \in MqOfSession :
       LET new == mqLeft[c] \cap session IN
       /\ new # {}
       /\ mqSkills' = (mqSkills \ session) \cup (mqSaved[c] \cap session) \cup new
       /\ mqUndone' = mqUndone \cup ((mqSkills \cap session) \ mqSaved[c])
       /\ mqLeft' = [mqLeft EXCEPT ![c] = @ \ session]
  /\ UNCHANGED <<mqFile, mqHeld, mqCopy, mqSaved, mqTwice, mqTaken, mqAdded, mqOrphans, mqFaults>>

MemoryDone(c) ==
  /\ mqLeft[c] = {} /\ Mq(c, "skills", "idle")
  /\ mqHeld' = [mqHeld EXCEPT ![c] = {}]
  /\ UNCHANGED <<mqFile, mqSkills, mqCopy, mqSaved, mqLeft, mqHistory, mqFaults>>

\* The distiller, the embeddings or a file failed: failBatch reads the queue,
\* whatever part of the skills has been saved.
MemoryFails(c) ==
  /\ mqPc[c] \in {"distill", "mark", "skills", "save"} /\ mqFaults < MqMaxFaults
  /\ mqPc' = [mqPc EXCEPT ![c] = "giveup"]
  /\ mqLeft' = [mqLeft EXCEPT ![c] = {}]
  /\ MqReads(c)
  /\ mqFaults' = mqFaults + 1
  /\ UNCHANGED <<mqFile, mqSkills, mqHeld, mqSaved, mqHistory>>

MemoryGiveUp(c) ==
  /\ Mq(c, "giveup", "idle")
  /\ MqWrites(c, mqHeld[c], "failed")
  /\ mqHeld' = [mqHeld EXCEPT ![c] = {}]
  /\ UNCHANGED <<mqSkills, mqCopy, mqSaved, mqLeft, mqTwice, mqTaken, mqAdded, mqOrphans, mqFaults>>

\* The process dies, or a file fails where the error leaves the call.
MemoryEnds(c) ==
  /\ mqPc[c] # "idle" /\ mqFaults < MqMaxFaults
  /\ mqPc' = [mqPc EXCEPT ![c] = "idle"]
  /\ mqOrphans' = mqOrphans \cup (IF mqPc[c] \in {"add", "take"} THEN {} ELSE mqHeld[c])
  /\ mqHeld' = [mqHeld EXCEPT ![c] = {}] /\ mqLeft' = [mqLeft EXCEPT ![c] = {}]
  /\ mqFaults' = mqFaults + 1
  /\ UNCHANGED <<mqFile, mqSkills, mqCopy, mqSaved, mqTwice, mqTaken, mqAdded, mqUndone>>

MemoryNext ==
  \E c \in MqClients :
    \/ MemoryCall(c) \/ MemoryAdd(c) \/ MemoryDrain(c) \/ MemoryTake(c)
    \/ MemoryComplete(c) \/ MemoryMark(c) \/ MemoryLoad(c) \/ MemorySave(c) \/ MemoryDone(c)
    \/ MemoryFails(c) \/ MemoryGiveUp(c) \/ MemoryEnds(c)

MemorySpec == MemoryInit /\ [][MemoryNext]_mqVars

(* Properties *************************************************************)

MemoryTypeOK ==
  /\ mqFile \in [MqEntries -> MqStatus] /\ mqSkills \subseteq MqEntries
  /\ mqPc \in [MqClients -> {"idle", "add", "drain", "take", "distill", "mark", "skills",
                              "save", "giveup"}]
  /\ mqHeld \in [MqClients -> SUBSET MqEntries]
  /\ mqCopy \in [MqClients -> [MqEntries -> MqStatus]]
  /\ mqSaved \in [MqClients -> SUBSET MqEntries] /\ mqLeft \in [MqClients -> SUBSET MqEntries]
  /\ mqTwice \subseteq MqEntries /\ mqTaken \subseteq MqEntries /\ mqAdded \subseteq MqEntries
  /\ mqUndone \subseteq MqEntries /\ mqOrphans \subseteq MqEntries
  /\ mqFaults \in 0..MqMaxFaults

\* A call is at work on an entry.
MqWorks(e, stages) == \E c \in MqClients : e \in mqHeld[c] /\ mqPc[c] \in stages

\* An entry nobody's stale copy was written over: it stays in the queue, is taken
\* once, is in flight only while a call works on it or was cut short with it, and
\* is distilled only if its skills are saved, are being saved, or went with such a
\* call.  The calls of several sessions share the file and may fail at every step.
MemoryQueueTells ==
  \A e \in MqEntries \ mqUndone :
    /\ e \in mqAdded => mqFile[e] # "absent"
    /\ e \notin mqTwice
    /\ mqFile[e] = "inflight" => e \in mqOrphans \/ MqWorks(e, {"distill", "mark", "giveup"})
    /\ mqFile[e] = "distilled" =>
         e \in mqSkills \/ e \in mqOrphans \/ MqWorks(e, {"skills", "save", "giveup"})
===============================================================================
