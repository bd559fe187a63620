----------------------------- MODULE ArtifactStore -----------------------------
(***************************************************************************)
(* The archives behind the stubs (components/packages/foundation/          *)
(* artifact-store) and the tool that reads them, memory_fault_recover.     *)
(*                                                                         *)
(* A text is taken out of a request only when it is archived.  Its archive *)
(* is a file of its own, named by segment and content; a key file and an   *)
(* entry of key-lookup.json lead from its data key to it.  All files are   *)
(* written in place: opened, which empties them, and then filled; without  *)
(* a lock, by the requests of several hosts and by the tool, which repairs *)
(* what it finds by a scan.  Two writers may leave a file garbled.  Texts, *)
(* hints and line windows are left out; the texts of one archive file have *)
(* one length, since nothing but its time differs between two of them.     *)
(***************************************************************************)
EXTENDS Naturals

CONSTANTS
  ArProcs,     \* requests and tool calls, of any process
  ArSessions,  \* session ids
  ArProxy,     \* "proxy-session", the id of a request without one
  ArDirs,      \* directories below tool-result-archives
  ArSafe,      \* the directory name made of a session id
  ArAside,     \* a directory beside tool-result-archives
  ArItems,     \* texts that may be taken out: [by, in, of, text]
  ArMaxFaults, \* writes that fail and processes that die
  ArNone, ArEmpty, ArGarbled

\* What takes texts out of requests.
ArByPath == {"trim", "exec", "read"}
ArPasses == ArByPath \cup {"memo", "evicted", "persist", "claude"}

ASSUME ArtifactAssumption ==
  /\ ArProxy \in ArSessions /\ ArSessions \subseteq ArDirs /\ ArAside \notin ArDirs
  /\ ArSafe \in [ArSessions -> ArDirs]
  /\ \A i \in ArItems : i.by \in ArPasses /\ i.in \in ArSessions
  /\ ArMaxFaults \in Nat
  /\ {ArNone, ArEmpty, ArGarbled} \cap ArItems = {}

\* The passes name what they trim by the path of the file, the exec pass also by
\* "unknown"; the others name it by call, entry or content.
ArKey(i) == [space |-> IF i.by \in ArByPath THEN "path" ELSE i.by, name |-> i.of]

ArKeys == {ArKey(i) : i \in ArItems}

\* Tool results that are persisted and Claude Code's evictions go to directories
\* of their own; the memo takes the session id as it is.
ArHome(i) ==
  CASE i.by \in {"persist", "claude"} -> ArAside
    [] i.by = "memo"                  -> i.in
    [] OTHER                          -> ArSafe[i.in]

VARIABLES
  arFile,     \* the archive of each text
  arKeyFile,  \* of each directory: the key files
  arLookup,   \* of each directory: key-lookup.json
  arStubs,    \* texts that a hint with their key stands for
  arTask,     \* what each request or tool call is doing
  arFaults

arVars == <<arFile, arKeyFile, arLookup, arStubs, arTask, arFaults>>

ArPlaces    == ArDirs \cup {ArAside}
ArUnread    == {ArEmpty, ArGarbled}
ArNoEntries == [k \in ArKeys |-> ArNone]

\* item: the text archived or found; known: the stubs of the key when a call
\* begins; met: it saw an emptied archive, or could not write.
ArIdle ==
  [at |-> "idle", errand |-> "archive", item |-> ArNone, key |-> ArNone, dir |-> ArAside,
   todo |-> {}, seen |-> ArNoEntries, known |-> {}, met |-> FALSE]

ArtifactInit ==
  /\ arFile = [i \in ArItems |-> "none"]
  /\ arKeyFile = [d \in ArPlaces |-> ArNoEntries]
  /\ arLookup = [d \in ArPlaces |-> ArNoEntries]
  /\ arStubs = {}
  /\ arTask = [p \in ArProcs |-> ArIdle]
  /\ arFaults = 0

ArAt(p, at) == arTask[p].at = at

\* The call goes on: to `at`, with whatever else changes.
ArGoes(p, at) == arTask' = [arTask EXCEPT ![p].at = at]

\* What a file may hold after a write, by what it held then: somebody else who
\* wrote since it was emptied may have written more.
ArOver(old, new) == IF old = ArEmpty THEN {new} ELSE {new, ArGarbled}

-------------------------------------------------------------------------------
\* archiveContent is called with a text that is to be taken out.
ArArchive(p) ==
  /\ ArAt(p, "idle")
  /\ \E i \in ArItems :
       arTask' = [arTask EXCEPT ![p] =
         [ArIdle EXCEPT !.at = "open", !.item = i, !.key = ArKey(i), !.dir = ArHome(i)]]
  /\ UNCHANGED <<arFile, arKeyFile, arLookup, arStubs, arFaults>>

ArOpen(p) ==
  /\ ArAt(p, "open") /\ ArGoes(p, "fill")
  /\ arFile' = [arFile EXCEPT ![arTask[p].item] = "empty"]
  /\ UNCHANGED <<arKeyFile, arLookup, arStubs, arFaults>>

ArFill(p) ==
  /\ ArAt(p, "fill") /\ ArGoes(p, "key")
  /\ arFile' = [arFile EXCEPT ![arTask[p].item] = "whole"]
  /\ UNCHANGED <<arKeyFile, arLookup, arStubs, arFaults>>

\* updateArchiveLookup: the key file, and then the file of all keys, which is
\* read and written with one entry more.
ArKeyOpen(p) ==
  /\ ArAt(p, "key") /\ ArGoes(p, "keyFill")
  /\ arKeyFile' = [arKeyFile EXCEPT ![arTask[p].dir][arTask[p].key] = ArEmpty]
  /\ UNCHANGED <<arFile, arLookup, arStubs, arFaults>>

ArKeyFill(p) ==
  /\ ArAt(p, "keyFill") /\ ArGoes(p, "list")
  /\ LET d == arTask[p].dir
         k == arTask[p].key IN
     \E v \in ArOver(arKeyFile[d][k], arTask[p].item) :
       arKeyFile' = [arKeyFile EXCEPT ![d][k] = v]
  /\ UNCHANGED <<arFile, arLookup, arStubs, arFaults>>

ArEntries(file) == IF file \in ArUnread THEN ArNoEntries ELSE file

ArList(p) ==
  /\ ArAt(p, "list")
  /\ arTask' = [arTask EXCEPT ![p].at = "listOpen", ![p].seen = ArEntries(arLookup[arTask[p].dir])]
  /\ UNCHANGED <<arFile, arKeyFile, arLookup, arStubs, arFaults>>

ArListOpen(p) ==
  /\ ArAt(p, "listOpen") /\ ArGoes(p, "listFill")
  /\ arLookup' = [arLookup EXCEPT ![arTask[p].dir] = ArEmpty]
  /\ UNCHANGED <<arFile, arKeyFile, arStubs, arFaults>>

\* The text is archived, and a stub with its key takes its place; a call of the
\* tool goes on to read what it found.
ArListFill(p) ==
  /\ ArAt(p, "listFill")
  /\ LET t == arTask[p] IN
     /\ \E v \in ArOver(arLookup[t.dir], [t.seen EXCEPT ![t.key] = t.item]) :
          arLookup' = [arLookup EXCEPT ![t.dir] = v]
     /\ IF t.errand = "archive"
          THEN /\ arStubs' = arStubs \cup {t.item}
               /\ arTask' = [arTask EXCEPT ![p] = ArIdle]
          ELSE ArGoes(p, "fetch") /\ UNCHANGED arStubs
  /\ UNCHANGED <<arFile, arKeyFile, arFaults>>

-------------------------------------------------------------------------------
\* Where a call looks: OpenClaw's tool in the directory of the session, by the id as
\* it is, and then for the proxy; the MCP server in all, in the order of the file
\* system.  Each lookup goes on to the proxy's directory.
ArRoutes(session) ==
  {[dir |-> session, todo |-> {ArProxy}]}
    \cup {[dir |-> d, todo |-> ArDirs \ {d}] : d \in ArDirs}

\* The agent calls memory_fault_recover with the key of a stub it sees.
ArRecover(p) ==
  /\ ArAt(p, "idle")
  /\ \E i \in arStubs : \E route \in ArRoutes(i.in) :
       arTask' = [arTask EXCEPT ![p] =
         [ArIdle EXCEPT !.at = "byKey", !.errand = "recover", !.key = ArKey(i),
            !.dir = route.dir, !.todo = route.todo,
            !.known = {j \in arStubs : /\ ArKey(j) = ArKey(i)
                                       /\ ArHome(j) \in {route.dir} \cup route.todo}]]
  /\ UNCHANGED <<arFile, arKeyFile, arLookup, arStubs, arFaults>>

\* Found: the call goes on with what leads to the archive.
ArFound(p, i, at) == arTask' = [arTask EXCEPT ![p].at = at, ![p].item = i]

\* Not in this directory: the proxy's, the next one, or the answer that there is no
\* archive.
ArNotHere(p, met) ==
  LET t == arTask[p] IN
  \/ /\ t.dir = ArProxy /\ t.todo = {}
     /\ arTask' = [arTask EXCEPT ![p].at = "told", ![p].item = ArNone, ![p].met = met]
  \/ \E d \in IF t.dir = ArProxy THEN t.todo ELSE {ArProxy} :
       arTask' = [arTask EXCEPT
         ![p].at = "byKey", ![p].item = ArNone, ![p].met = met, ![p].dir = d,
         ![p].todo = IF t.dir = ArProxy THEN t.todo \ {d} ELSE t.todo]

ArByKey(p) ==
  /\ ArAt(p, "byKey")
  /\ LET v == arKeyFile[arTask[p].dir][arTask[p].key] IN
       IF v \in ArItems THEN ArFound(p, v, "fetch") ELSE ArGoes(p, "byList")
  /\ UNCHANGED <<arFile, arKeyFile, arLookup, arStubs, arFaults>>

\* Mutant: without an entry the next directory is tried.
ArByListOnly(p) ==
  /\ ArAt(p, "byList")
  /\ LET v == ArEntries(arLookup[arTask[p].dir])[arTask[p].key] IN
       IF v \in ArItems THEN ArFound(p, v, "fetch") ELSE ArNotHere(p, arTask[p].met)
  /\ UNCHANGED <<arFile, arKeyFile, arLookup, arStubs, arFaults>>

ArByList(p) ==
  /\ ArAt(p, "byList")
  /\ LET v == ArEntries(arLookup[arTask[p].dir])[arTask[p].key] IN
       IF v \in ArItems THEN ArFound(p, v, "fetch") ELSE ArGoes(p, "byScan")
  /\ UNCHANGED <<arFile, arKeyFile, arLookup, arStubs, arFaults>>

\* The archives of the directory are read until one has the key; the lookup files
\* are then repaired.
ArByScan(p) ==
  /\ ArAt(p, "byScan")
  /\ LET t == arTask[p]
         here == {i \in ArItems : ArHome(i) = t.dir /\ ArKey(i) = t.key} IN
     \/ \E i \in here : arFile[i] = "whole" /\ ArFound(p, i, "key")
     \/ /\ \A i \in here : arFile[i] # "whole"
        /\ ArNotHere(p, t.met \/ \E i \in here : arFile[i] = "empty")
  /\ UNCHANGED <<arFile, arKeyFile, arLookup, arStubs, arFaults>>

\* readArchive: what the lookup leads to is not looked for anywhere else.
ArFetch(p) ==
  /\ ArAt(p, "fetch")
  /\ IF arFile[arTask[p].item] = "whole"
       THEN ArGoes(p, "told")
       ELSE arTask' = [arTask EXCEPT ![p].at = "told", ![p].item = ArNone, ![p].met = TRUE]
  /\ UNCHANGED <<arFile, arKeyFile, arLookup, arStubs, arFaults>>

ArAnswered(p) ==
  /\ ArAt(p, "told")
  /\ arTask' = [arTask EXCEPT ![p] = ArIdle]
  /\ UNCHANGED <<arFile, arKeyFile, arLookup, arStubs, arFaults>>

\* A repair that cannot be written counts as a directory without the archive.
ArRepairFails(p) ==
  /\ arTask[p].errand = "recover" /\ arFaults < ArMaxFaults
  /\ arTask[p].at \in {"key", "keyFill", "listOpen", "listFill"}
  /\ ArNotHere(p, TRUE)
  /\ arFaults' = arFaults + 1
  /\ UNCHANGED <<arFile, arKeyFile, arLookup, arStubs>>

\* An archive cannot be written and its text stays, or the process dies.
ArStops(p) ==
  /\ ~ArAt(p, "idle") /\ arFaults < ArMaxFaults
  /\ arTask' = [arTask EXCEPT ![p] = ArIdle]
  /\ arFaults' = arFaults + 1
  /\ UNCHANGED <<arFile, arKeyFile, arLookup, arStubs>>

ArtifactNext ==
  \E p \in ArProcs :
    \/ ArArchive(p) \/ ArOpen(p) \/ ArFill(p)
    \/ ArKeyOpen(p) \/ ArKeyFill(p) \/ ArList(p) \/ ArListOpen(p) \/ ArListFill(p)
    \/ ArRecover(p) \/ ArByKey(p) \/ ArByList(p) \/ ArByScan(p) \/ ArFetch(p) \/ ArAnswered(p)
    \/ ArRepairFails(p) \/ ArStops(p)

ArtifactSpec == ArtifactInit /\ [][ArtifactNext]_arVars

(* Properties *************************************************************)

ArWriting == {"key", "keyFill", "list", "listOpen", "listFill"}

ArTasks ==
  [at : {"idle", "open", "fill", "byKey", "byList", "byScan", "fetch", "told"} \cup ArWriting,
   errand : {"archive", "recover"}, item : ArItems \cup {ArNone},
   key : ArKeys \cup {ArNone}, dir : ArPlaces, todo : SUBSET ArDirs,
   seen : [ArKeys -> ArItems \cup {ArNone}], known : SUBSET ArItems, met : BOOLEAN]

ArtifactTypeOK ==
  /\ arFile \in [ArItems -> {"none", "empty", "whole"}]
  /\ arKeyFile \in [ArPlaces -> [ArKeys -> ArItems \cup {ArNone} \cup ArUnread]]
  /\ arLookup \in [ArPlaces -> [ArKeys -> ArItems \cup {ArNone}] \cup ArUnread]
  /\ arStubs \subseteq ArItems
  /\ arTask \in [ArProcs -> ArTasks]
  /\ arFaults \in 0..ArMaxFaults

\* A call with the key of a stub never answers with a text of another key, and
\* answers that there is no archive only if none was ever in the directories it
\* looks in, if an archive was being rewritten or stays emptied by a death, or if
\* its own repair failed: whatever else is torn, garbled, overwritten or repaired
\* at the same time.
OmittedIsRecovered ==
  \A p \in ArProcs : ArAt(p, "told") =>
    /\ arTask[p].item # ArNone => ArKey(arTask[p].item) = arTask[p].key
    /\ arTask[p].item = ArNone => arTask[p].known = {} \/ arTask[p].met
================================================================================
