------------------------------ MODULE CodexJournal ------------------------------
(***************************************************************************)
(* The context-history journal of a Codex session.  A provider that keeps  *)
(* response chains is sent only what is new; what it remembers is known to *)
(* the proxy from its journal alone, and from there it builds the request  *)
(* that replaces a history by a smaller one.                               *)
(*                                                                         *)
(* A request is journaled as pending, sent, and its response and its new   *)
(* status are journaled in two further appends.  It is named by the hash   *)
(* of what it says, so a client that sends it again meets its entries.  An *)
(* append holds the journal lock from the repair of the tail to the sync:  *)
(* one that dies leaves the whole line or a tail that the next one cuts.   *)
(*                                                                         *)
(* An item is the text of a user, or what a response said.  Texts have no  *)
(* id: the n-th copy of a text in a history is told from the others by n.  *)
(* What a response said has an id where the provider returned it and none  *)
(* where a request repeats it.                                             *)
(***************************************************************************)
EXTENDS Naturals, FiniteSets, Sequences

CONSTANTS JrClients,     \* requests in flight
          JrTexts,       \* what a user says
          JrNone,
          JrMaxSent,     \* bound on the requests of the session,
          JrMaxAnswers,  \* on the responses,
          JrMaxFaults    \* on failed appends, failed commits and crashes

\* A response that has an id is an item by its number.  A bag counts items.
JrItems == JrTexts \cup (1..JrMaxAnswers)
JrBags  == [JrItems -> Nat]

ASSUME CodexJournalAssumption ==
  /\ IsFiniteSet(JrTexts)
  /\ JrTexts \cap Nat = {} /\ JrNone \notin JrTexts \cup JrBags
  /\ JrMaxSent \in Nat /\ JrMaxAnswers \in Nat /\ JrMaxFaults \in Nat

VARIABLES jrJournal,  \* entries of journal.jsonl
          jrAnswers,  \* completed responses: their request and what the provider remembers
          jrKnown,    \* responses the client was given
          jrKept,     \* responses whose entries were both acknowledged
          jrPc,       \* control point of each request
          jrLoc,      \* what it knows
          jrSent, jrFaults

jrProc  == <<jrPc, jrLoc>>
jrCount == <<jrSent, jrFaults>>
jrVars  == <<jrJournal, jrAnswers, jrKnown, jrKept, jrPc, jrLoc, jrSent, jrFaults>>

-------------------------------------------------------------------------------
JrHeads == 0..JrMaxAnswers   \* 0: no response

\* The identity of a request: the response it continues and what it adds.
JrIds == [prev : JrHeads, text : JrTexts]

JrStatuses == {"pending", "completed", "failed", "incomplete"}
JrTerminal == {"completed", "failed"}

\* input: the payload that replaced the history, if one did.
JrRequests  == [kind : {"request"}, id : JrIds, ord : Nat \ {0}, status : JrStatuses,
                input : JrBags \cup {JrNone}]
\* answer, prev: response ids; prev is 0 where a new chain begins.
JrResponses == [kind : {"response"}, id : JrIds, answer : JrHeads, prev : JrHeads,
                status : JrStatuses]

JrLabels == {"idle", "route", "wait", "response", "status", "commit"}

\* "plain": the request as it came; "replay": with its whole history, to a provider
\* without chains; "rebase": with a smaller history; "original": as it came, after a
\* rebase that failed.  answer, status: what came back.
JrKinds == {"plain", "replay", "rebase", "original"}
JrFresh == {"replay", "rebase"}   \* those that begin a chain
JrLocal == [id : JrIds \cup {JrNone}, journaled : BOOLEAN, kind : JrKinds,
            input : JrBags \cup {JrNone}, answer : JrHeads, status : JrStatuses]

JrNoLocal == [id |-> JrNone, journaled |-> FALSE, kind |-> "plain", input |-> JrNone,
              answer |-> 0, status |-> "pending"]

JournalTypeOK ==
  /\ jrJournal \in Seq(JrRequests \cup JrResponses)
  /\ jrAnswers \in Seq([id : JrIds, kind : JrKinds, holds : JrBags])
  /\ Len(jrAnswers) <= JrMaxAnswers
  /\ jrKnown   \in SUBSET (1..Len(jrAnswers))
  /\ jrKept    \in SUBSET (1..Len(jrAnswers))
  /\ jrPc      \in [JrClients -> JrLabels]
  /\ jrLoc     \in [JrClients -> JrLocal]
  /\ jrSent    \in 0..JrMaxSent
  /\ jrFaults  \in 0..JrMaxFaults

JournalInit ==
  /\ jrJournal = <<>>
  /\ jrAnswers = <<>>
  /\ jrKnown   = {}
  /\ jrKept    = {}
  /\ jrPc      = [p \in JrClients |-> "idle"]
  /\ jrLoc     = [p \in JrClients |-> JrNoLocal]
  /\ jrSent    = 0
  /\ jrFaults  = 0

-------------------------------------------------------------------------------
\* Reading the journal.  k, l: positions of entries; 0 is none.
JrLast(S) == IF S = {} THEN 0 ELSE CHOOSE k \in S : \A l \in S : l <= k

JrOf(id)     == {k \in DOMAIN jrJournal : jrJournal[k].kind = "request" /\ jrJournal[k].id = id}
JrEntry(id)  == jrJournal[JrLast(JrOf(id))]
JrStatus(id) == IF JrOf(id) = {} THEN "none" ELSE JrEntry(id).status
JrSeenIds    == {jrJournal[k].id : k \in {l \in DOMAIN jrJournal : jrJournal[l].kind = "request"}}

\* committedResponses: responses of requests that were completed in the end.
JrCommitted ==
  {k \in DOMAIN jrJournal : /\ jrJournal[k].kind = "response"
                            /\ jrJournal[k].status = "completed"
                            /\ JrStatus(jrJournal[k].id) = "completed"}
JrHead(r, S) == JrLast({k \in S : jrJournal[k].answer = r})

JrOne(i) == [c \in JrItems |-> IF c = i THEN 1 ELSE 0]

\* buildCodexEffectiveHistoryView: the chain of the entry at k and its items.  ids: what
\* responses said, seen under their id; copies: seen without; next: the copies the
\* payload has had so far, which a replaced payload counts anew.
JrNothing == [complete |-> FALSE, asked |-> {}, ids |-> {}, copies |-> [c \in JrItems |-> 0],
              next |-> [c \in JrItems |-> 0]]
JrRoot    == [JrNothing EXCEPT !.complete = TRUE]

JrTurn(before, l) ==
  LET request == JrEntry(jrJournal[l].id)
      input == IF request.input = JrNone THEN JrOne(jrJournal[l].id.text) ELSE request.input
      start == IF request.input = JrNone THEN before.next ELSE JrNothing.next
      next  == [c \in JrItems |-> start[c] + input[c]]
  IN  [complete |-> before.complete,
       asked    |-> before.asked \cup {jrJournal[l].id},
       ids      |-> before.ids \cup {jrJournal[l].answer},
       copies   |-> [c \in JrItems |-> IF next[c] > before.copies[c] THEN next[c]
                                                                    ELSE before.copies[c]],
       next     |-> next]

JrView(k, S) ==
  LET view[l \in 0..Len(jrJournal)] ==
        IF l = 0 THEN JrNothing
        ELSE JrTurn(IF jrJournal[l].prev = 0 THEN JrRoot
                    ELSE view[JrHead(jrJournal[l].prev, {m \in S : m < l})], l)
  IN  view[k]

JrHistory(r) == JrView(JrHead(r, JrCommitted), JrCommitted)

\* How often a history has an item.
JrHolds(v) == [c \in JrItems |-> v.copies[c] + (IF c \in v.ids THEN 1 ELSE 0)]
-------------------------------------------------------------------------------
JrGo(p, label, l) == jrPc' = [jrPc EXCEPT ![p] = label] /\ jrLoc' = [jrLoc EXCEPT ![p] = l]
JrEnd(p)          == JrGo(p, "idle", JrNoLocal)
JrFault           == jrFaults < JrMaxFaults /\ jrFaults' = jrFaults + 1

\* An append that is acknowledged, and one that throws: the line is in the file or not.
JrAppends(e)   == jrJournal' = Append(jrJournal, e) /\ UNCHANGED jrFaults
JrThrows(e)    == JrFault /\ jrJournal' \in {jrJournal, Append(jrJournal, e)}

JrNextOrdinal == Cardinality(JrSeenIds) + 1

JrPending(i) == [kind |-> "request", id |-> i, ord |-> JrNextOrdinal, status |-> "pending",
                 input |-> JrNone]

\* A request arrives, perhaps not for the first time.  If it cannot be journaled it is
\* sent all the same, and nothing more is journaled of it.
JournalReceive(p) ==
  /\ jrPc[p] = "idle" /\ jrSent < JrMaxSent
  /\ \E i \in [prev : jrKnown \cup {0}, text : JrTexts] :
       LET l(ok) == [JrNoLocal EXCEPT !.id = i, !.journaled = ok]
       IN  \/ JrOf(i) # {} /\ UNCHANGED <<jrJournal, jrFaults>> /\ JrGo(p, "route", l(TRUE))
           \/ JrOf(i) = {} /\ JrAppends(JrPending(i)) /\ JrGo(p, "route", l(TRUE))
           \/ JrOf(i) = {} /\ JrThrows(JrPending(i)) /\ JrGo(p, "route", l(FALSE))
  /\ jrSent' = jrSent + 1
  /\ UNCHANGED <<jrAnswers, jrKnown, jrKept>>

JournalPlain(p) ==
  /\ jrPc[p] = "route"
  /\ JrGo(p, "wait", jrLoc[p])
  /\ UNCHANGED <<jrJournal, jrAnswers, jrKnown, jrKept, jrCount>>

\* buildCodexRebaseRequest: what is left of the history, without copies of the text that
\* is being sent, and that text.
JrPayload(h, X, t) ==
  [c \in JrItems |-> IF c = t THEN 1 ELSE IF c \in X THEN h[c] - 1 ELSE h[c]]

\* The history of the head must be complete; one copy of every item in X is evicted.
JournalRewrite(p) ==
  /\ jrPc[p] = "route"
  /\ LET l == jrLoc[p]
         v == JrHistory(l.id.prev)
         h == JrHolds(v)
     IN  /\ l.journaled /\ l.id.prev # 0 /\ v.complete
         /\ \E X \in SUBSET {c \in JrItems : h[c] > 0} :
              JrGo(p, "wait", [l EXCEPT !.kind = IF X = {} THEN "replay" ELSE "rebase",
                                        !.input = JrPayload(h, X, l.id.text)])
  /\ UNCHANGED <<jrJournal, jrAnswers, jrKnown, jrKept, jrCount>>

\* What the provider remembers of a response, itself included.
JrRemembers(l, r) ==
  [c \in JrItems |->
     (IF c = r THEN 1 ELSE 0) +
     (IF l.kind \in JrFresh THEN l.input[c]
      ELSE (IF c = l.id.text THEN 1 ELSE 0)
           + (IF l.id.prev = 0 THEN 0 ELSE jrAnswers[l.id.prev].holds[c]))]

\* A client may be given a response, or it gets lost on its way.
JrDelivers(r) == jrKnown' \in {jrKnown, jrKnown \cup ({r} \ {0})}

\* A completed response.  One that is streamed reaches the client before the journal;
\* after a rewrite the proxy reads all of it first.
JournalAnswer(p) ==
  /\ jrPc[p] = "wait" /\ Len(jrAnswers) < JrMaxAnswers
  /\ LET l == jrLoc[p]
         r == Len(jrAnswers) + 1
     IN  /\ jrAnswers' = Append(jrAnswers, [id |-> l.id, kind |-> l.kind,
                                            holds |-> JrRemembers(l, r)])
         /\ IF l.kind = "plain" THEN JrDelivers(r) ELSE UNCHANGED jrKnown
         /\ IF l.journaled
            THEN JrGo(p, "response", [l EXCEPT !.answer = r, !.status = "completed"])
            ELSE JrEnd(p)
  /\ UNCHANGED <<jrJournal, jrKept, jrCount>>

\* The original request, after a rebase that failed.
JrFallBack(p) == JrGo(p, "wait", [jrLoc[p] EXCEPT !.kind = "original", !.input = JrNone,
                                                  !.answer = 0, !.status = "pending"])

\* An error or a response that is not completed: a replay that failed counts as the
\* request it stands for.  The proxy journals it unless the connection broke.
JournalNoAnswer(p) ==
  /\ jrPc[p] = "wait"
  /\ LET l == jrLoc[p]
     IN  \/ l.kind = "rebase" /\ JrFallBack(p)
         \/ /\ l.kind # "rebase" /\ l.journaled
            /\ \E s \in {"failed", "incomplete"} :
                 JrGo(p, "response", [l EXCEPT !.kind = "original", !.input = JrNone,
                                               !.status = s])
         \/ l.kind # "rebase" /\ JrEnd(p)
  /\ UNCHANGED <<jrJournal, jrAnswers, jrKnown, jrKept, jrCount>>

-------------------------------------------------------------------------------
\* A journal that cannot be written fails a rebase, which falls back; another answer
\* is passed on all the same.
JrUnwritten(p) ==
  IF jrLoc[p].kind = "rebase" THEN JrFallBack(p) /\ UNCHANGED jrKnown
                              ELSE JrEnd(p) /\ JrDelivers(jrLoc[p].answer)

\* Mutant: every response continues the one its request names.
JrResponseChained(l) ==
  [kind |-> "response", id |-> l.id, answer |-> l.answer, prev |-> l.id.prev,
   status |-> l.status]

JrResponse(l) ==
  [kind |-> "response", id |-> l.id, answer |-> l.answer,
   prev |-> IF l.kind \in JrFresh THEN 0 ELSE l.id.prev, status |-> l.status]

JournalResponse(p) ==
  /\ jrPc[p] = "response"
  /\ LET e == JrResponse(jrLoc[p])
     IN  \/ JrAppends(e) /\ JrGo(p, "status", jrLoc[p]) /\ UNCHANGED jrKnown
         \/ JrThrows(e) /\ JrUnwritten(p)
  /\ UNCHANGED <<jrAnswers, jrKept, jrSent>>

\* Mutant: a status may follow another one whatever it is.
JrAdvancesAlways(old, new) == old # new

JrAdvances(old, new) == old # new /\ old \notin JrTerminal /\ new # "pending"

\* The first payload that was journaled stays.
JrUpdate(l) ==
  [JrEntry(l.id) EXCEPT !.status = l.status, !.input = IF @ = JrNone THEN l.input ELSE @]

JrKeep(l) == jrKept' = jrKept \cup ({l.answer} \ {0})

JrStatusWritten(p) ==
  IF jrLoc[p].kind = "rebase"
  THEN JrGo(p, "commit", jrLoc[p]) /\ UNCHANGED <<jrKnown, jrKept>>
  ELSE JrEnd(p) /\ JrKeep(jrLoc[p]) /\ JrDelivers(jrLoc[p].answer)

JournalStatus(p) ==
  /\ jrPc[p] = "status"
  /\ LET l == jrLoc[p]
     IN  \/ /\ ~JrAdvances(JrStatus(l.id), l.status)
            /\ JrStatusWritten(p) /\ UNCHANGED <<jrJournal, jrFaults>>
         \/ /\ JrAdvances(JrStatus(l.id), l.status)
            /\ \/ JrAppends(JrUpdate(l)) /\ JrStatusWritten(p)
               \/ JrThrows(JrUpdate(l)) /\ JrUnwritten(p) /\ UNCHANGED jrKept
  /\ UNCHANGED <<jrAnswers, jrSent>>

\* The epoch is committed, and the client is given the new response; or it is not, and
\* the original request is sent after the journal was told of the rebased one.
JournalCommit(p) ==
  /\ jrPc[p] = "commit"
  /\ JrDelivers(jrLoc[p].answer)
  /\ JrKeep(jrLoc[p])
  /\ JrEnd(p)
  /\ UNCHANGED <<jrJournal, jrAnswers, jrCount>>

JournalCommitFails(p) ==
  /\ jrPc[p] = "commit"
  /\ JrFault
  /\ JrFallBack(p)
  /\ UNCHANGED <<jrJournal, jrAnswers, jrKnown, jrKept, jrSent>>

\* The process dies.  (An append it was about to make is one that throws.)
JournalCrash(p) ==
  /\ jrPc[p] # "idle"
  /\ JrFault
  /\ JrEnd(p)
  /\ UNCHANGED <<jrJournal, jrAnswers, jrKnown, jrKept, jrSent>>

JournalNext ==
  \E p \in JrClients :
    \/ JournalReceive(p) \/ JournalPlain(p) \/ JournalRewrite(p) \/ JournalAnswer(p)
    \/ JournalNoAnswer(p) \/ JournalResponse(p) \/ JournalStatus(p) \/ JournalCommit(p)
    \/ JournalCommitFails(p) \/ JournalCrash(p)

JournalSpec == JournalInit /\ [][JournalNext]_jrVars

-------------------------------------------------------------------------------
\* A request that was answered more than once, and not always as it came.
JrMixed(i) ==
  \E r, q \in DOMAIN jrAnswers :
    r # q /\ jrAnswers[r].id = i /\ jrAnswers[q].id = i /\ jrAnswers[r].kind \in JrFresh

\* A history that the proxy takes for complete has every item as often as the provider
\* remembers it: what a rebase removed does not come back, and nothing else is lost.
HistoryIsWhatWasSent ==
  \A r \in DOMAIN jrAnswers :
    LET v == JrHistory(r)
    IN  v.complete /\ (\A i \in v.asked : ~JrMixed(i)) => JrHolds(v) = jrAnswers[r].holds

\* Responses that continue one another and were all journaled make a complete history,
\* unless a request among them had failed before, or the entry of a response came after
\* the entry of one that continues it.
JrLine(r) ==
  LET line[q \in 0..Len(jrAnswers)] ==
        IF q = 0 THEN {}
        ELSE {q} \cup (IF jrAnswers[q].kind \in JrFresh THEN {} ELSE line[jrAnswers[q].id.prev])
  IN  line[r]

JrOvertaken(q) ==
  \E k, l \in DOMAIN jrJournal :
    /\ k < l /\ jrJournal[k].kind = "response" /\ jrJournal[k].prev = q
    /\ jrJournal[l].kind = "response" /\ jrJournal[l].answer = q

JournaledTurnsAreFound ==
  \A r \in jrKept :
    LET line == JrLine(r)
    IN  /\ line \subseteq jrKept
        /\ \A q \in line : JrStatus(jrAnswers[q].id) # "failed" /\ ~JrOvertaken(q)
        => JrHistory(r).complete

\* Two requests have different numbers, and along a chain the numbers grow.
TurnsAreNumbered ==
  /\ \A i, j \in JrSeenIds : JrEntry(i).ord = JrEntry(j).ord => i = j
  /\ \A k, l \in JrCommitted :
       LET x == jrJournal[k]
           y == jrJournal[l]
       IN  y.prev # 0 /\ y.prev = x.answer => JrEntry(x.id).ord < JrEntry(y.id).ord
================================================================================
