-------------------------- MODULE CodexLifecycleProofs --------------------------
(***************************************************************************)
(* Proofs about CodexLifecycle for every number of proxies, tasks, turns   *)
(* and branches.  The planner judges a block by the tasks it had before    *)
(* the estimate, the backend refuses a pair whose sides differ after it.   *)
(* Together they are enough: a turn that has tasks is analysed and gets no *)
(* others, so a block can only gain a task through its other side, and     *)
(* then the sides differ.  The rest is the handoff: a plan is good for the *)
(* version it was made for, and whoever executes it holds the lock.        *)
(***************************************************************************)
EXTENDS CodexLifecycle, TLAPS

\* A request in progress has a number of its own and continues a committed turn.
RequestsInProgress ==
  \A p \in Procs :
    /\ loc[p].turn <= turns /\ loc[p].head <= turns
    /\ pc[p] = "idle" => loc[p].turn = 0
    /\ pc[p] # "idle" =>
         /\ loc[p].turn \in Turns \ committed
         /\ loc[p].head \in committed \cup {0} /\ loc[p].head < loc[p].turn
         /\ path[loc[p].turn] = path[loc[p].head] \cup {loc[p].turn}

DistinctRequests ==
  \A p, q \in Procs :
    p # q /\ pc[p] # "idle" /\ pc[q] # "idle" => loc[p].turn # loc[q].turn

\* A committed turn builds on committed turns before it.
CommittedHistories ==
  /\ committed \subseteq 1..turns
  /\ \A h \in committed \cup {0} : path[h] \subseteq committed /\ path[h] \subseteq 1..h

Locked == \A p \in Procs : pc[p] \in {"estimate", "inflight"} => lock = p

\* Nobody touches the registry while it is estimated.
Estimating ==
  \A p \in Procs : pc[p] = "estimate" =>
    /\ loc[p].base = registry
    /\ registry.watermark < loc[p].head
    /\ \A c \in Pairs(loc[p].head) : ~Mixed(registry, loc[p].head, c)

\* A plan is good for the version it was made for.
PlannedFor ==
  \A p \in Procs : pc[p] \in {"ready", "inflight"} =>
    /\ loc[p].version <= registry.version
    /\ pc[p] = "inflight" => loc[p].version = registry.version
    /\ loc[p].version = registry.version =>
         \A c \in loc[p].plan : Finished(registry, loc[p].head, c)

IInv == /\ TypeOK /\ RequestsInProgress /\ DistinctRequests /\ CommittedHistories
        /\ Locked /\ Estimating /\ PlannedFor /\ TurnsAnalysedOnce

-------------------------------------------------------------------------------
\* A removal the planner chose and the backend accepted is finished after the
\* estimate, if no turn that had tasks got others.
LEMMA ApplicableIsFinished ==
  ASSUME TypeOK, NEW r \in Registry, NEW n \in Registry, NEW h \in Heads,
         NEW c \in Candidates(r, n, h),
         \A t \in Turns : r.owner[t] # {} => n.owner[t] = r.owner[t],
         Applicable(r, n, h, c)
  PROVE  Finished(n, h, c)
PROOF
<1>1. c \in Turns /\ c \in Pairs(h) /\ Result(h, c) \subseteq Turns
  BY DEF Candidates, Pairs, Result, TypeOK
<1>2. \A s, t \in Result(h, c) : s = t
  BY <1>1 DEF Result, Turns
<1>3. ~Mixed(n, h, c)
  BY <1>1 DEF Applicable
<1>4. Owners(r, h, c) \subseteq Tasks /\ Owners(n, h, c) \subseteq Tasks
  BY <1>1 DEF Owners, Registry
<1>5. CASE Owners(r, h, c) = {}
  BY <1>4, <1>5 DEF Candidates, BlockOwners, Protected, Finished
<1>6. CASE Owners(r, h, c) # {}
  <2>1. PICK s \in {c} \cup Result(h, c) : r.owner[s] # {}
    BY <1>6 DEF Owners
  <2>2. n.owner[s] = r.owner[s] /\ r.owner[s] \subseteq Owners(r, h, c)
    BY <1>1, <2>1 DEF Owners
  <2>3. ASSUME NEW t \in {c} \cup Result(h, c) PROVE n.owner[t] \subseteq Owners(r, h, c)
    <3>1. CASE r.owner[t] # {}
      <4>1. n.owner[t] = r.owner[t]
        BY <1>1, <3>1
      <4>2. QED
        BY <4>1 DEF Owners
    <3>2. CASE r.owner[t] = {}
      <4>1. n.owner[t] = {} \/ n.owner[t] = n.owner[s]
        BY <1>2, <1>3, <2>1, <2>2, <3>2 DEF Mixed
      <4>2. QED
        BY <2>2, <4>1
    <3>3. QED
      BY <3>1, <3>2
  <2>4. Owners(n, h, c) \subseteq Owners(r, h, c)
    BY <2>3 DEF Owners
  <2>5. Owners(r, h, c) \subseteq Owners(n, h, c)
    <3>1. ASSUME NEW t \in {c} \cup Result(h, c)
          PROVE  r.owner[t] \subseteq n.owner[t]
      BY <1>1
    <3>2. QED
      BY <3>1 DEF Owners
  <2>6. QED
    BY <1>4, <1>6, <2>4, <2>5 DEF Candidates, BlockOwners, Protected, Finished
<1>7. QED
  BY <1>5, <1>6

-------------------------------------------------------------------------------
\* What an accepted answer does to the registry.
LEMMA ApplyAnswer ==
  ASSUME NEW r \in Registry, NEW h \in Heads, NEW u \in Answers(r, h)
  PROVE  /\ Apply(r, h, u) \in Registry
         /\ Apply(r, h, u).version = r.version + 1
         /\ Apply(r, h, u).watermark = h
         /\ \A t \in Turns :
              /\ r.owner[t] \subseteq Apply(r, h, u).owner[t]
              /\ t \notin Delta(r, h) => Apply(r, h, u).owner[t] = r.owner[t]
PROOF
<1>1. PICK S \in SUBSET Tasks :
        u \in [life : [S -> Lifecycle \ {"none"}], cover : [S -> SUBSET Delta(r, h)]]
  BY DEF Answers
<1>2. Updated(u) = S
  BY <1>1 DEF Updated
<1>3. \A k \in Updated(u) : k \in Tasks /\ u.life[k] \in Lifecycle
                             /\ u.cover[k] \subseteq Delta(r, h)
  BY <1>1, <1>2
<1>4. r.version + 1 \in Nat /\ r.owner \in [Turns -> SUBSET Tasks]
      /\ r.life \in [Tasks -> Lifecycle]
  BY DEF Registry
<1>5. Apply(r, h, u) \in Registry
  BY <1>3, <1>4 DEF Apply, Registry
<1>6. QED
  BY <1>3, <1>4, <1>5 DEF Apply

LEMMA TypeInitially == Init => TypeOK
PROOF
  BY CodexLifecycleAssumption
  DEF Init, TypeOK, Heads, Turns, EmptyRegistry, Registry, Lifecycle, Labels, NoLocal, Local

LEMMA InitiallyIInv == Init => IInv
PROOF
<1> SUFFICES ASSUME Init PROVE IInv
  OBVIOUS
<1>1. TypeOK
  BY TypeInitially
<1>2. RequestsInProgress /\ DistinctRequests
  BY CodexLifecycleAssumption
  DEF Init, RequestsInProgress, DistinctRequests, NoLocal
<1>3. CommittedHistories
  BY CodexLifecycleAssumption DEF Init, CommittedHistories, Heads
<1>4. Locked /\ Estimating /\ PlannedFor
  BY DEF Init, Locked, Estimating, PlannedFor
<1>5. TurnsAnalysedOnce
  BY DEF Init, TurnsAnalysedOnce, EmptyRegistry
<1>6. QED
  BY <1>1, <1>2, <1>3, <1>4, <1>5 DEF IInv

-------------------------------------------------------------------------------
LEMMA TypeStep == IInv /\ [Next]_vars => TypeOK'
PROOF
<1> SUFFICES ASSUME IInv, [Next]_vars PROVE TypeOK'
  OBVIOUS
<1> USE DEF Heads, Turns, Labels
<1>1. TypeOK /\ NoLocal \in Local /\ EmptyRegistry \in Registry
  BY CodexLifecycleAssumption DEF IInv, NoLocal, Local, EmptyRegistry, Registry, Lifecycle
<1>2. ASSUME NEW p \in Procs, Begin(p) PROVE TypeOK'
  <2>1. PICK h \in committed \cup {0} :
          /\ path' = [path EXCEPT ![turns + 1] = path[h] \cup {turns + 1}]
          /\ Goto(p, "plan", [NoLocal EXCEPT !.turn = turns + 1, !.head = h])
    BY <1>2 DEF Begin
  <2>2. turns + 1 \in Turns /\ turns + 1 \in Heads /\ h \in Heads
    BY <1>1, <1>2, CodexLifecycleAssumption DEF TypeOK, Begin
  <2>3. [NoLocal EXCEPT !.turn = turns + 1, !.head = h] \in Local
    BY <1>1, <2>2 DEF Local
  <2>4. path' \in [Heads -> SUBSET Turns]
    BY <1>1, <2>1, <2>2 DEF TypeOK
  <2>5. QED
    BY <1>1, <1>2, <2>1, <2>2, <2>3, <2>4 DEF TypeOK, Begin, Goto
<1>3. ASSUME NEW p \in Procs, Estimated(p) PROVE TypeOK'
  <2>1. loc[p].base \in Registry /\ loc[p].head \in Heads
    BY <1>1 DEF TypeOK, Local
  <2>2. PICK u \in Answers(loc[p].base, loc[p].head) :
          /\ registry' = Apply(loc[p].base, loc[p].head, u)
          /\ \/ Forward(p)
             \/ \E q \in Plans(loc[p].base, registry', loc[p].head) \ {{}} :
                  Goto(p, "ready", [loc[p] EXCEPT !.base = EmptyRegistry, !.plan = q,
                                           !.version = loc[p].base.version + 1])
          /\ analysed' = [t \in Turns |-> IF t \in Delta(loc[p].base, loc[p].head)
                                           THEN analysed[t] + 1 ELSE analysed[t]]
    BY <1>3 DEF Estimated
  <2>3. registry' \in Registry
    BY <2>1, <2>2, ApplyAnswer
  <2>4. pc' \in [Procs -> Labels] /\ loc' \in [Procs -> Local]
    <3>1. CASE Forward(p)
      BY <1>1, <3>1 DEF TypeOK, Forward, Goto, Local
    <3>2. ASSUME NEW q \in Plans(loc[p].base, registry', loc[p].head),
                 Goto(p, "ready", [loc[p] EXCEPT !.base = EmptyRegistry, !.plan = q,
                                          !.version = loc[p].base.version + 1])
          PROVE  pc' \in [Procs -> Labels] /\ loc' \in [Procs -> Local]
      <4>1. q \in SUBSET Turns
        BY <1>1, <3>2 DEF Plans, Candidates, Pairs, TypeOK
      <4>2. loc[p].base.version + 1 \in Nat
        BY <2>1 DEF Registry
      <4>3. QED
        BY <1>1, <3>2, <4>1, <4>2 DEF TypeOK, Goto, Local
    <3>3. QED
      BY <2>2, <3>1, <3>2
  <2>5. analysed' \in [Turns -> Nat]
    <3>1. \A t \in Turns : analysed[t] \in Nat
      BY <1>1 DEF TypeOK
    <3>2. PICK D : analysed' = [t \in Turns |-> IF t \in D THEN analysed[t] + 1
                                                         ELSE analysed[t]]
      BY <2>2
    <3>3. QED
      BY <3>1, <3>2
  <2>6. QED
    BY <1>1, <1>3, <2>3, <2>4, <2>5 DEF TypeOK, Estimated, Release, history
<1>4. ASSUME NEW p \in Procs, EnterPlanner(p) \/ Execute(p) PROVE TypeOK'
  <2>1. loc[p] \in Local /\ [loc[p] EXCEPT !.base = registry] \in Local
    BY <1>1 DEF TypeOK, Local
  <2>2. pc' \in [Procs -> Labels] /\ loc' \in [Procs -> Local]
    BY <1>1, <1>4, <2>1 DEF TypeOK, EnterPlanner, Execute, Goto
  <2>3. QED
    BY <1>1, <1>4, <2>2 DEF TypeOK, EnterPlanner, Execute, history
<1>5. ASSUME NEW p \in Procs, SkipPlanner(p) \/ NotEstimated(p) \/ SkipRebase(p)
      PROVE  TypeOK'
  <2>1. Forward(p)
    BY <1>5 DEF SkipPlanner, NotEstimated, SkipRebase
  <2>2. pc' \in [Procs -> Labels] /\ loc' \in [Procs -> Local]
    BY <1>1, <2>1 DEF TypeOK, Forward, Goto, Local
  <2>3. lock' \in Procs \cup {None}
    BY <1>1, <1>5 DEF TypeOK, SkipPlanner, NotEstimated, SkipRebase, Release
  <2>4. QED
    BY <1>1, <1>5, <2>2, <2>3 DEF TypeOK, SkipPlanner, NotEstimated, SkipRebase, history
<1>6. ASSUME NEW p \in Procs, Accepted(p) \/ Answered(p) PROVE TypeOK'
  <2>1. PICK dropped \in SUBSET Turns : Commit(p, dropped)
    BY <1>1, <1>6 DEF Accepted, Answered, TypeOK, Local
  <2>2. loc[p].turn \in Turns /\ loc[p].head \in Heads
    BY <1>1, <1>6 DEF Accepted, Answered, IInv, RequestsInProgress, TypeOK, Local
  <2>3. /\ committed' \in SUBSET Turns /\ called' \in SUBSET committed'
        /\ gone' \in [Heads -> SUBSET Turns]
    BY <1>1, <2>1, <2>2 DEF Commit, TypeOK
  <2>4. QED
    BY <1>1, <1>6, <2>3 DEF TypeOK, Accepted, Answered, Goto, Release
<1>7. ASSUME NEW p \in Procs, Lost(p) PROVE TypeOK'
  BY <1>1, <1>7 DEF TypeOK, Lost, Goto, Release, history
<1>8. CASE UNCHANGED vars
  BY <1>1, <1>8 DEF TypeOK, vars, history
<1>9. QED
  BY <1>2, <1>3, <1>4, <1>5, <1>6, <1>7, <1>8 DEF Next, Planning, Executing

-------------------------------------------------------------------------------
\* Requests in progress keep their numbers apart, and only those numbers are committed.
LEMMA RequestsStep ==
  IInv /\ [Next]_vars => (RequestsInProgress /\ DistinctRequests /\ CommittedHistories)'
PROOF
<1> SUFFICES ASSUME IInv, [Next]_vars
             PROVE  RequestsInProgress' /\ DistinctRequests' /\ CommittedHistories'
  OBVIOUS
<1> USE DEF Heads, Turns
<1>1. TypeOK /\ RequestsInProgress /\ DistinctRequests /\ CommittedHistories
  BY DEF IInv
<1>2. turns \in Nat /\ \A p \in Procs : loc[p].turn \in Nat /\ loc[p].head \in Nat
  BY <1>1, CodexLifecycleAssumption DEF TypeOK, Local
<1>3. ASSUME NEW p \in Procs, Begin(p)
      PROVE  RequestsInProgress' /\ DistinctRequests' /\ CommittedHistories'
  <2>1. PICK h \in committed \cup {0} :
          /\ path' = [path EXCEPT ![turns + 1] = path[h] \cup {turns + 1}]
          /\ Goto(p, "plan", [NoLocal EXCEPT !.turn = turns + 1, !.head = h])
    BY <1>3 DEF Begin
  <2>2. /\ turns' = turns + 1 /\ turns + 1 \in Turns /\ committed' = committed
        /\ h \in 0..turns /\ pc[p] = "idle"
    BY <1>1, <1>2, <1>3, CodexLifecycleAssumption DEF Begin, CommittedHistories, TypeOK
  <2>3. /\ path'[turns + 1] = path[h] \cup {turns + 1}
        /\ \A g \in 0..turns : path'[g] = path[g]
    BY <1>1, <1>2, <2>1, <2>2 DEF TypeOK
  <2>4. /\ loc'[p].turn = turns + 1 /\ loc'[p].head = h /\ pc'[p] = "plan"
        /\ \A q \in Procs \ {p} : loc'[q] = loc[q] /\ pc'[q] = pc[q]
    BY <1>1, <2>1 DEF TypeOK, Goto, NoLocal
  <2>5. RequestsInProgress'
    <3> SUFFICES ASSUME NEW q \in Procs
                 PROVE  /\ loc'[q].turn <= turns' /\ loc'[q].head <= turns'
                        /\ pc'[q] = "idle" => loc'[q].turn = 0
                        /\ pc'[q] # "idle" =>
                             /\ loc'[q].turn \in Turns \ committed'
                             /\ loc'[q].head \in committed' \cup {0}
                             /\ loc'[q].head < loc'[q].turn
                             /\ path'[loc'[q].turn] = path'[loc'[q].head] \cup {loc'[q].turn}
      BY DEF RequestsInProgress
    <3>1. CASE q = p
      BY <1>1, <1>2, <2>2, <2>3, <2>4, <3>1 DEF CommittedHistories
    <3>2. CASE q # p
      BY <1>1, <1>2, <2>2, <2>3, <2>4, <3>2 DEF RequestsInProgress
    <3>3. QED
      BY <3>1, <3>2
  <2>6. DistinctRequests'
    BY <1>1, <1>2, <2>4 DEF DistinctRequests, RequestsInProgress
  <2>7. CommittedHistories'
    BY <1>1, <1>2, <2>2, <2>3 DEF CommittedHistories
  <2>8. QED
    BY <2>5, <2>6, <2>7
<1>4. ASSUME NEW p \in Procs,
             \/ Planning(p) \/ Execute(p) \/ SkipRebase(p)
      PROVE  RequestsInProgress' /\ DistinctRequests' /\ CommittedHistories'
  <2>1. /\ loc'[p].turn = loc[p].turn /\ loc'[p].head = loc[p].head
        /\ pc[p] # "idle" /\ pc'[p] # "idle"
        /\ \A q \in Procs \ {p} : loc'[q] = loc[q] /\ pc'[q] = pc[q]
    <3>1. pc \in [Procs -> Labels] /\ loc \in [Procs -> Local] /\ pc[p] # "idle"
      BY <1>1, <1>4 DEF TypeOK, Planning, EnterPlanner, SkipPlanner, Estimated,
                        NotEstimated, Execute, SkipRebase
    <3>2. PICK label \in Labels \ {"idle"} : \E l :
            Goto(p, label, l) /\ l.turn = loc[p].turn /\ l.head = loc[p].head
      <4>1. CASE Forward(p)
        <5> DEFINE l == [NoLocal EXCEPT !.turn = loc[p].turn, !.head = loc[p].head]
        <5>1. Goto(p, "forward", l)
          BY <4>1 DEF Forward
        <5>2. l.turn = loc[p].turn /\ l.head = loc[p].head
          BY DEF NoLocal
        <5>3. QED
          BY <5>1, <5>2 DEF Labels
      <4>2. CASE EnterPlanner(p)
        BY <3>1, <4>2 DEF EnterPlanner, Labels, Local
      <4>3. CASE Estimated(p)
        <5>1. CASE Forward(p)
          BY <4>1, <5>1
        <5>2. ASSUME NEW q, Goto(p, "ready", [loc[p] EXCEPT
                                        !.base = EmptyRegistry, !.plan = q,
                                        !.version = loc[p].base.version + 1])
              PROVE  \E label \in Labels \ {"idle"} : \E l :
                       Goto(p, label, l) /\ l.turn = loc[p].turn /\ l.head = loc[p].head
          <6> DEFINE l == [loc[p] EXCEPT !.base = EmptyRegistry, !.plan = q,
                                         !.version = loc[p].base.version + 1]
          <6>1. l.turn = loc[p].turn /\ l.head = loc[p].head
            BY <3>1 DEF Local
          <6>2. QED
            BY <5>2, <6>1 DEF Labels
        <5>3. QED
          BY <4>3, <5>1, <5>2 DEF Estimated
      <4>4. CASE Execute(p)
        BY <3>1, <4>4 DEF Execute, Labels
      <4>5. QED
        BY <1>4, <4>1, <4>2, <4>3, <4>4 DEF Planning, SkipPlanner, NotEstimated, SkipRebase
    <3>3. QED
      BY <3>1, <3>2 DEF Goto
  <2>2. turns' = turns /\ path' = path /\ committed' = committed
    BY <1>4 DEF Planning, EnterPlanner, SkipPlanner, Estimated, NotEstimated,
                Execute, SkipRebase, history
  <2>3. RequestsInProgress'
    BY <1>1, <2>1, <2>2 DEF RequestsInProgress
  <2>4. DistinctRequests'
    BY <1>1, <2>1 DEF DistinctRequests
  <2>5. CommittedHistories'
    BY <1>1, <2>2 DEF CommittedHistories
  <2>6. QED
    BY <2>3, <2>4, <2>5
<1>5. ASSUME NEW p \in Procs, Accepted(p) \/ Answered(p)
      PROVE  RequestsInProgress' /\ DistinctRequests' /\ CommittedHistories'
  <2>1. /\ loc'[p] = NoLocal /\ pc'[p] = "idle" /\ pc[p] # "idle"
        /\ \A q \in Procs \ {p} : loc'[q] = loc[q] /\ pc'[q] = pc[q]
    BY <1>1, <1>5 DEF TypeOK, Accepted, Answered, Goto
  <2>2. /\ turns' = turns /\ path' = path /\ committed' = committed \cup {loc[p].turn}
    BY <1>5 DEF Accepted, Answered, Commit
  <2>3. \A q \in Procs \ {p} : pc[q] # "idle" => loc[q].turn # loc[p].turn
    BY <1>1, <2>1 DEF DistinctRequests
  <2>4. RequestsInProgress'
    BY <1>1, <1>2, <2>1, <2>2, <2>3 DEF RequestsInProgress, NoLocal
  <2>5. DistinctRequests'
    BY <1>1, <2>1 DEF DistinctRequests
  <2>6. CommittedHistories'
    <3>1. /\ loc[p].turn \in 1..turns /\ loc[p].head < loc[p].turn
          /\ path[loc[p].turn] = path[loc[p].head] \cup {loc[p].turn}
          /\ path[loc[p].head] \subseteq committed
          /\ path[loc[p].head] \subseteq 1..loc[p].head
      BY <1>1, <1>2, <2>1 DEF RequestsInProgress, CommittedHistories
    <3>2. path[loc[p].turn] \subseteq 1..loc[p].turn
      BY <1>2, <3>1
    <3>3. QED
      BY <1>1, <2>2, <3>1, <3>2 DEF CommittedHistories
  <2>7. QED
    BY <2>4, <2>5, <2>6
<1>6. ASSUME NEW p \in Procs, Lost(p)
      PROVE  RequestsInProgress' /\ DistinctRequests' /\ CommittedHistories'
  <2>1. /\ loc'[p] = NoLocal /\ pc'[p] = "idle"
        /\ \A q \in Procs \ {p} : loc'[q] = loc[q] /\ pc'[q] = pc[q]
        /\ turns' = turns /\ path' = path /\ committed' = committed
    BY <1>1, <1>6 DEF TypeOK, Lost, Goto, history
  <2>2. RequestsInProgress'
    BY <1>1, <1>2, <2>1 DEF RequestsInProgress, NoLocal
  <2>3. QED
    BY <1>1, <2>1, <2>2 DEF DistinctRequests, CommittedHistories
<1>7. CASE UNCHANGED vars
  BY <1>1, <1>7 DEF vars, history, RequestsInProgress, DistinctRequests, CommittedHistories
<1>8. QED
  BY <1>3, <1>4, <1>5, <1>6, <1>7 DEF Next, Planning, Executing

-------------------------------------------------------------------------------
LEMMA LockedStep == IInv /\ [Next]_vars => Locked'
PROOF
<1> SUFFICES ASSUME IInv, [Next]_vars PROVE Locked'
  OBVIOUS
<1>1. TypeOK /\ Locked
  BY DEF IInv
<1>2. ASSUME NEW p \in Procs, Begin(p) \/ SkipPlanner(p) \/ SkipRebase(p) PROVE Locked'
  BY <1>1, <1>2 DEF TypeOK, Locked, Begin, SkipPlanner, SkipRebase, Forward, Goto
<1>3. ASSUME NEW p \in Procs, EnterPlanner(p) \/ Execute(p) PROVE Locked'
  BY <1>1, <1>3, CodexLifecycleAssumption
  DEF TypeOK, Locked, EnterPlanner, Execute, Goto
<1>4. ASSUME NEW p \in Procs,
             Estimated(p) \/ NotEstimated(p) \/ Accepted(p) \/ Answered(p) \/ Lost(p)
      PROVE  Locked'
  <2>1. PICK label \in {"forward", "ready", "idle"} : \E l : Goto(p, label, l)
    BY <1>4 DEF Estimated, NotEstimated, Accepted, Answered, Lost, Forward
  <2>2. Release(p)
    BY <1>4 DEF Estimated, NotEstimated, Accepted, Answered, Lost
  <2>3. QED
    BY <1>1, <2>1, <2>2 DEF TypeOK, Locked, Goto, Release
<1>5. CASE UNCHANGED vars
  BY <1>1, <1>5 DEF vars, Locked
<1>6. QED
  BY <1>2, <1>3, <1>4, <1>5 DEF Next, Planning, Executing

\* What the registry is after an estimate, and what the plan made from it removes.
LEMMA EstimateStep ==
  ASSUME IInv, NEW p \in Procs, Estimated(p)
  PROVE  /\ lock = p /\ registry.watermark < loc[p].head
         /\ registry'.version = registry.version + 1
         /\ registry'.watermark = loc[p].head
         /\ \A t \in Turns :
              /\ registry.owner[t] \subseteq registry'.owner[t]
              /\ registry.owner[t] # {} => registry'.owner[t] = registry.owner[t]
              /\ registry'.owner[t] # {} =>
                   registry.owner[t] # {} \/ t \in Delta(registry, loc[p].head)
              /\ analysed'[t] = IF t \in Delta(registry, loc[p].head)
                               THEN analysed[t] + 1 ELSE analysed[t]
         /\ \/ Forward(p)
            \/ \E q : /\ Goto(p, "ready",
                             [loc[p] EXCEPT !.base = EmptyRegistry, !.plan = q,
                                            !.version = registry.version + 1])
                      /\ \A c \in q : Finished(registry', loc[p].head, c)
PROOF
<1>1. TypeOK /\ Locked /\ Estimating /\ TurnsAnalysedOnce
  BY DEF IInv
<1>2. PICK r \in Registry, h \in Heads : r = registry /\ h = loc[p].head
  BY <1>1 DEF TypeOK, Local
<1>3. lock = p /\ loc[p].base = r /\ r.watermark < h
  BY <1>1, <1>2 DEF Estimated, Locked, Estimating
<1>4. PICK u \in Answers(r, h) :
        /\ registry' = Apply(r, h, u)
        /\ \/ Forward(p)
           \/ \E q \in Plans(r, registry', h) \ {{}} :
                Goto(p, "ready", [loc[p] EXCEPT !.base = EmptyRegistry, !.plan = q,
                                         !.version = r.version + 1])
        /\ analysed' = [t \in Turns |-> IF t \in Delta(r, h) THEN analysed[t] + 1
                                                           ELSE analysed[t]]
  BY <1>2, <1>3 DEF Estimated
<1>5. PICK n \in Registry : n = registry' /\ n = Apply(r, h, u)
  BY <1>4, ApplyAnswer
<1>6. /\ n.version = r.version + 1 /\ n.watermark = h
      /\ \A t \in Turns :
           /\ r.owner[t] \subseteq n.owner[t]
           /\ t \notin Delta(r, h) => n.owner[t] = r.owner[t]
  BY <1>5, ApplyAnswer
<1>7. \A t \in Turns : r.owner[t] # {} => t \notin Delta(r, h)
  <2> SUFFICES ASSUME NEW t \in Turns, r.owner[t] # {} PROVE t \notin Delta(r, h)
    OBVIOUS
  <2>1. t <= r.watermark
    BY <1>1, <1>2 DEF TurnsAnalysedOnce
  <2>2. t \in Nat /\ r.watermark \in Nat
    BY DEF Registry, Heads, Turns
  <2>3. QED
    BY <2>1, <2>2 DEF Delta
<1>8. \A t \in Turns : r.owner[t] # {} => n.owner[t] = r.owner[t]
  BY <1>6, <1>7
<1>9. \A q \in Plans(r, n, h) : \A c \in q : Finished(n, h, c)
  BY <1>1, <1>8, ApplicableIsFinished DEF Plans
<1>10. \/ Forward(p)
       \/ \E q : /\ Goto(p, "ready", [loc[p] EXCEPT !.base = EmptyRegistry, !.plan = q,
                                                     !.version = r.version + 1])
                 /\ \A c \in q : Finished(n, h, c)
  BY <1>4, <1>5, <1>9
<1>11. \A t \in Turns :
         /\ n.owner[t] # {} => r.owner[t] # {} \/ t \in Delta(r, h)
         /\ analysed'[t] = IF t \in Delta(r, h) THEN analysed[t] + 1 ELSE analysed[t]
  BY <1>4, <1>6
<1>12. QED
  BY <1>2, <1>3, <1>5, <1>6, <1>8, <1>10, <1>11

-------------------------------------------------------------------------------
\* A step is a step of one process, and only an estimate touches the registry.
LEMMA OneActor ==
  ASSUME IInv, NEW p \in Procs, Begin(p) \/ Planning(p) \/ Executing(p)
  PROVE  /\ \A q \in Procs \ {p} : pc'[q] = pc[q] /\ loc'[q] = loc[q]
         /\ registry' = registry \/ Estimated(p)
PROOF
<1>1. pc \in [Procs -> Labels] /\ loc \in [Procs -> Local]
  BY DEF IInv, TypeOK
<1>2. PICK label, l : Goto(p, label, l)
  BY DEF Begin, Planning, EnterPlanner, SkipPlanner, Estimated, NotEstimated, Forward,
         Executing, Execute, SkipRebase, Accepted, Answered, Lost
<1>3. registry' = registry \/ Estimated(p)
  BY DEF Begin, Planning, EnterPlanner, SkipPlanner, NotEstimated,
         Executing, Execute, SkipRebase, Accepted, Answered, Lost
<1>4. QED
  BY <1>1, <1>2, <1>3 DEF Goto

\* The history that ends at a committed turn never changes.
LEMMA CommittedFrame ==
  ASSUME IInv, [Next]_vars, NEW h \in committed \cup {0}
  PROVE  /\ path'[h] = path[h] /\ Pairs(h)' = Pairs(h)
         /\ \A r, c : /\ Mixed(r, h, c)' <=> Mixed(r, h, c)
                      /\ Finished(r, h, c)' <=> Finished(r, h, c)
PROOF
<1>1. TypeOK /\ RequestsInProgress /\ CommittedHistories /\ turns \in Nat
  BY CodexLifecycleAssumption DEF IInv, TypeOK, Heads
<1>2. h \in 0..turns /\ h \in Heads /\ path[h] \subseteq committed
  BY <1>1, CodexLifecycleAssumption DEF CommittedHistories, TypeOK, Heads, Turns
<1>3. path'[h] = path[h] /\ Pairs(h)' = Pairs(h)
  <2>1. ASSUME NEW p \in Procs, Begin(p) PROVE path'[h] = path[h] /\ Pairs(h)' = Pairs(h)
    BY <1>1, <1>2, <2>1 DEF Begin, TypeOK, Pairs
  <2>2. ASSUME NEW p \in Procs, Accepted(p) \/ Answered(p)
        PROVE  path'[h] = path[h] /\ Pairs(h)' = Pairs(h)
    <3>1. loc[p].turn \notin committed /\ loc[p].turn # 0
      BY <1>1, <2>2 DEF RequestsInProgress, Accepted, Answered, Turns
    <3>2. path' = path
      BY <2>2 DEF Accepted, Answered
    <3>3. gone'[h] = gone[h] /\ path[h] \cap called' = path[h] \cap called
      BY <1>1, <1>2, <2>2, <3>1 DEF Accepted, Answered, Commit, TypeOK
    <3>4. QED
      BY <3>2, <3>3 DEF Pairs
  <2>3. ASSUME NEW p \in Procs,
               Planning(p) \/ Execute(p) \/ SkipRebase(p) \/ Lost(p)
        PROVE  path'[h] = path[h] /\ Pairs(h)' = Pairs(h)
    BY <2>3 DEF Planning, EnterPlanner, SkipPlanner, Estimated, NotEstimated,
                Execute, SkipRebase, Lost, history, Pairs
  <2>4. CASE UNCHANGED vars
    BY <2>4 DEF vars, history, Pairs
  <2>5. QED
    BY <2>1, <2>2, <2>3, <2>4 DEF Next, Executing
<1>4. \A c : Result(h, c)' = Result(h, c)
  BY <1>3 DEF Result
<1>5. QED
  BY <1>3, <1>4 DEF Mixed, Finished, Owners

LEMMA EstimatingStep == IInv /\ [Next]_vars => Estimating'
PROOF
<1> SUFFICES ASSUME IInv, [Next]_vars, NEW q \in Procs, pc'[q] = "estimate"
             PROVE  /\ loc'[q].base = registry'
                    /\ registry'.watermark < loc'[q].head
                    /\ \A c \in Pairs(loc[q].head)' : ~Mixed(registry, loc[q].head, c)'
  BY DEF Estimating
<1>1. TypeOK /\ RequestsInProgress /\ Estimating /\ Locked
  BY DEF IInv
<1>2. ASSUME pc[q] = "estimate", loc'[q] = loc[q], registry' = registry
      PROVE  /\ loc'[q].base = registry'
             /\ registry'.watermark < loc'[q].head
             /\ \A c \in Pairs(loc[q].head)' : ~Mixed(registry, loc[q].head, c)'
  <2>1. PICK h, r : h \in committed \cup {0} /\ h = loc[q].head /\ r = registry
    BY <1>1, <1>2 DEF RequestsInProgress
  <2>2. \A c \in Pairs(h)' : ~Mixed(r, h, c)'
    BY <1>1, <1>2, <2>1, CommittedFrame DEF Estimating
  <2>3. QED
    BY <1>1, <1>2, <2>1, <2>2 DEF Estimating, Pairs, Mixed, Result
<1>3. ASSUME NEW p \in Procs, p # q, Begin(p) \/ Planning(p) \/ Executing(p)
      PROVE  pc[q] = "estimate" /\ loc'[q] = loc[q] /\ registry' = registry
  <2>1. pc[q] = "estimate" /\ loc'[q] = loc[q]
    BY <1>3, OneActor
  <2>2. ~Estimated(p)
    BY <1>1, <1>3, <2>1 DEF Estimated, Locked
  <2>3. QED
    BY <1>3, <2>1, <2>2, OneActor
<1>4. ASSUME Begin(q) \/ Planning(q) \/ Executing(q) PROVE EnterPlanner(q)
  BY <1>1, <1>4
  DEF TypeOK, Begin, Planning, SkipPlanner, Estimated, NotEstimated, Forward, Goto,
      Executing, Execute, SkipRebase, Accepted, Answered, Lost
<1>5. CASE EnterPlanner(q)
  <2>1. /\ loc'[q].base = registry /\ loc'[q].head = loc[q].head /\ registry' = registry
        /\ path' = path /\ called' = called /\ gone' = gone
    BY <1>1, <1>5 DEF EnterPlanner, Goto, TypeOK, Local, history
  <2>2. QED
    BY <1>5, <2>1 DEF EnterPlanner, ReadyForEstimate, Pairs, Mixed, Result
<1>6. CASE UNCHANGED vars
  BY <1>2, <1>6 DEF vars
<1>7. QED
  BY <1>2, <1>3, <1>4, <1>5, <1>6 DEF Next

LEMMA PlannedForStep == IInv /\ [Next]_vars => PlannedFor'
PROOF
<1> SUFFICES ASSUME IInv, [Next]_vars, NEW q \in Procs, pc'[q] \in {"ready", "inflight"}
             PROVE  /\ loc'[q].version <= registry'.version
                    /\ pc'[q] = "inflight" => loc'[q].version = registry'.version
                    /\ loc'[q].version = registry'.version =>
                         \A c \in loc'[q].plan : Finished(registry, loc[q].head, c)'
  BY DEF PlannedFor
<1> DEFINE Good == /\ loc'[q].version <= registry'.version
                   /\ pc'[q] = "inflight" => loc'[q].version = registry'.version
                   /\ loc'[q].version = registry'.version =>
                        \A c \in loc'[q].plan : Finished(registry, loc[q].head, c)'
<1>1. TypeOK /\ RequestsInProgress /\ PlannedFor /\ Locked
  BY DEF IInv
<1>2. registry.version \in Nat /\ loc[q].version \in Nat
  BY <1>1 DEF TypeOK, Registry, Local
<1>3. ASSUME pc[q] \in {"ready", "inflight"}, loc'[q] = loc[q], registry' = registry,
             pc'[q] = "inflight" => loc[q].version = registry.version
      PROVE  Good
  <2>1. PICK h, r : h \in committed \cup {0} /\ h = loc[q].head /\ r = registry
    BY <1>1, <1>3 DEF RequestsInProgress
  <2>2. h \in committed \cup {0} /\ \A c : Finished(r, h, c)' <=> Finished(r, h, c)
    BY <2>1, CommittedFrame
  <2>3. \A c : Finished(registry, loc[q].head, c)' <=> Finished(registry, loc[q].head, c)
    BY <1>3, <2>1, <2>2 DEF Finished, Owners, Result
  <2>4. QED
    BY <1>1, <1>3, <2>3 DEF PlannedFor
<1>4. ASSUME NEW p \in Procs, p # q, Begin(p) \/ Planning(p) \/ Executing(p)
      PROVE  Good
  <2>1. pc[q] = pc'[q] /\ loc'[q] = loc[q]
    BY <1>4, OneActor
  <2>2. CASE Estimated(p)
    <3>1. lock = p /\ registry'.version = registry.version + 1
      BY <2>2, EstimateStep
    <3>2. pc'[q] # "inflight" /\ loc[q].version <= registry.version
      BY <1>1, <1>4, <2>1, <3>1 DEF Locked, PlannedFor
    <3>3. QED
      BY <1>2, <2>1, <3>1, <3>2
  <2>3. CASE registry' = registry
    BY <1>1, <1>3, <2>1, <2>3 DEF PlannedFor
  <2>4. QED
    BY <1>4, <2>2, <2>3, OneActor
<1>5. CASE Estimated(q)
  <2>1. registry'.version = registry.version + 1 /\ ~Forward(q) /\ path' = path
    BY <1>1, <1>5, EstimateStep DEF Forward, Goto, TypeOK, Estimated, history
  <2>2. PICK plan :
          /\ Goto(q, "ready", [loc[q] EXCEPT !.base = EmptyRegistry, !.plan = plan,
                                          !.version = registry.version + 1])
          /\ \A c \in plan : Finished(registry', loc[q].head, c)
    BY <1>5, <2>1, EstimateStep
  <2>3. /\ loc'[q].version = registry.version + 1 /\ loc'[q].plan = plan
        /\ loc'[q].head = loc[q].head /\ pc'[q] = "ready"
    BY <1>1, <2>2 DEF Goto, TypeOK, Local
  <2>4. \A c \in plan : Finished(registry, loc[q].head, c)'
    BY <2>1, <2>2, <2>3 DEF Finished, Owners, Result
  <2>5. QED
    BY <1>2, <2>1, <2>3, <2>4
<1>6. CASE Execute(q)
  BY <1>1, <1>3, <1>6 DEF Execute, Goto, TypeOK
<1>7. ASSUME Begin(q) \/ Planning(q) \/ Executing(q) PROVE Estimated(q) \/ Execute(q)
  BY <1>1, <1>7
  DEF TypeOK, Begin, Planning, EnterPlanner, SkipPlanner, NotEstimated, Forward, Goto,
      Executing, SkipRebase, Accepted, Answered, Lost
<1>8. CASE UNCHANGED vars
  BY <1>1, <1>3, <1>8 DEF vars, PlannedFor
<1>9. QED
  BY <1>4, <1>5, <1>6, <1>7, <1>8 DEF Next

LEMMA AnalysedStep == IInv /\ [Next]_vars => TurnsAnalysedOnce'
PROOF
<1> SUFFICES ASSUME IInv, [Next]_vars PROVE TurnsAnalysedOnce'
  OBVIOUS
<1>1. TypeOK /\ RequestsInProgress /\ CommittedHistories /\ TurnsAnalysedOnce
  BY DEF IInv
<1>2. ASSUME NEW p \in Procs, Estimated(p) PROVE TurnsAnalysedOnce'
  <2> SUFFICES ASSUME NEW t \in Turns
               PROVE  /\ analysed'[t] <= 1
                      /\ registry'.owner[t] # {} => analysed'[t] = 1
                      /\ analysed'[t] = 1 => t <= registry'.watermark
    BY DEF TurnsAnalysedOnce
  <2>1. /\ t \in Nat /\ analysed[t] \in Nat
        /\ registry.watermark \in Nat /\ loc[p].head \in Nat
    BY <1>1 DEF TypeOK, Registry, Local, Heads, Turns
  <2>2. /\ registry.watermark < loc[p].head /\ registry'.watermark = loc[p].head
        /\ registry'.owner[t] # {} =>
             registry.owner[t] # {} \/ t \in Delta(registry, loc[p].head)
        /\ analysed'[t] = IF t \in Delta(registry, loc[p].head)
                         THEN analysed[t] + 1 ELSE analysed[t]
    BY <1>2, EstimateStep
  <2>3. /\ analysed[t] <= 1
        /\ registry.owner[t] # {} => analysed[t] = 1
        /\ analysed[t] = 1 => t <= registry.watermark
    BY <1>1 DEF TurnsAnalysedOnce
  <2>4. CASE t \in Delta(registry, loc[p].head)
    <3>1. t > registry.watermark /\ t \in path[loc[p].head]
      BY <2>4 DEF Delta
    <3>2. t <= loc[p].head
      <4>1. loc[p].head \in committed \cup {0}
        BY <1>1, <1>2 DEF Estimated, RequestsInProgress
      <4>2. path[loc[p].head] \subseteq 1..loc[p].head
        BY <1>1, <4>1 DEF CommittedHistories
      <4>3. QED
        BY <2>1, <3>1, <4>2
    <3>3. QED
      BY <2>1, <2>2, <2>3, <2>4, <3>1, <3>2
  <2>5. CASE t \notin Delta(registry, loc[p].head)
    BY <2>1, <2>2, <2>3, <2>5
  <2>6. QED
    BY <2>4, <2>5
<1>3. ASSUME NEW p \in Procs, ~Estimated(p), Begin(p) \/ Planning(p) \/ Executing(p)
      PROVE  TurnsAnalysedOnce'
  <2>1. registry' = registry /\ analysed' = analysed
    BY <1>3 DEF Begin, Planning, EnterPlanner, SkipPlanner, NotEstimated,
                Executing, Execute, SkipRebase, Accepted, Answered, Lost
  <2>2. QED
    BY <1>1, <2>1 DEF TurnsAnalysedOnce
<1>4. CASE UNCHANGED vars
  BY <1>1, <1>4 DEF vars, TurnsAnalysedOnce
<1>5. QED
  BY <1>2, <1>3, <1>4 DEF Next

-------------------------------------------------------------------------------
\* The inductive invariant of the planner and its executor: request numbers, who holds
\* the lock, what an estimate started from and which version a plan is good for.
THEOREM LifecycleInvariance == Spec => []IInv
PROOF
<1>1. IInv /\ [Next]_vars => IInv'
  <2> SUFFICES ASSUME IInv, [Next]_vars PROVE IInv'
    OBVIOUS
  <2>1. TypeOK'
    BY TypeStep
  <2>2. (RequestsInProgress /\ DistinctRequests /\ CommittedHistories)'
    BY RequestsStep
  <2>3. Locked' /\ Estimating' /\ PlannedFor'
    BY LockedStep, EstimatingStep, PlannedForStep
  <2>4. TurnsAnalysedOnce'
    BY AnalysedStep
  <2>5. QED
    BY <2>1, <2>2, <2>3, <2>4 DEF IInv
<1>2. QED
  BY InitiallyIInv, <1>1, PTL DEF Spec

THEOREM TypeCorrect == Spec => []TypeOK
PROOF
<1>1. IInv => TypeOK
  BY DEF IInv
<1>2. QED
  BY <1>1, LifecycleInvariance, PTL

\* Whatever the branches, a turn is covered by one accepted estimate at most, and tasks
\* own analysed turns only (the watermark the registry keeps is one number).
THEOREM EachTurnOnce == Spec => []TurnsAnalysedOnce
PROOF
<1>1. IInv => TurnsAnalysedOnce
  BY DEF IInv
<1>2. QED
  BY <1>1, LifecycleInvariance, PTL

\* The registry is stored one version after the other; watermark and ownership only grow.
THEOREM RegistryAdvances == Spec => RegistryMovesForward
PROOF
<1> DEFINE Forth ==
      registry' # registry =>
        /\ registry'.version = registry.version + 1
        /\ registry'.watermark > registry.watermark
        /\ \A t \in Turns : registry.owner[t] \subseteq registry'.owner[t]
<1>1. IInv /\ [Next]_vars => [Forth]_vars
  <2> SUFFICES ASSUME IInv, Next PROVE Forth
    OBVIOUS
  <2>1. PICK p \in Procs : Begin(p) \/ Planning(p) \/ Executing(p)
    BY DEF Next
  <2>2. CASE Estimated(p)
    <3>1. registry.watermark \in Nat /\ loc[p].head \in Nat
      BY DEF IInv, TypeOK, Registry, Local, Heads
    <3>2. QED
      BY <2>2, <3>1, EstimateStep
  <2>3. QED
    BY <2>1, <2>2, OneActor
<1>2. QED
  BY <1>1, LifecycleInvariance, PTL DEF Spec, RegistryMovesForward

\* What a new response chain drops is finished by the registry of that moment: the
\* block by block validation makes up for the tasks the planner did not see.
THEOREM RemovedWasFinished == Spec => RemovedIsFinished
PROOF
<1> DEFINE Removed ==
      \A p \in Procs : LET t == loc[p].turn  h == loc[p].head IN
        \A c \in gone'[t] \ (gone[t] \cup gone[h]) : Finished(registry, h, c)
<1>1. IInv /\ [Next]_vars => [Removed]_vars
  <2> SUFFICES ASSUME IInv, Next, NEW q \in Procs,
                      NEW c \in gone'[loc[q].turn] \ (gone[loc[q].turn] \cup gone[loc[q].head])
               PROVE  Finished(registry, loc[q].head, c)
    OBVIOUS
  <2>1. TypeOK /\ RequestsInProgress /\ DistinctRequests /\ PlannedFor
    BY DEF IInv
  <2>2. PICK p \in Procs : Accepted(p) \/ Answered(p)
    BY DEF Next, Begin, Planning, EnterPlanner, SkipPlanner, Estimated, NotEstimated,
           Executing, Execute, SkipRebase, Lost, history
  <2>3. PICK dropped :
          /\ Commit(p, dropped)
          /\ dropped = {} \/ (pc[p] = "inflight" /\ dropped = loc[p].plan)
    BY <2>2 DEF Accepted, Answered
  <2>4. pc[p] # "idle" /\ loc[p].turn \in Turns /\ 0 \notin Turns
    BY <2>1, <2>2 DEF Accepted, Answered, RequestsInProgress, Turns
  <2>5. /\ gone'[loc[p].turn] = gone[loc[p].head] \cup dropped
        /\ \A t \in Heads \ {loc[p].turn} : gone'[t] = gone[t]
    BY <2>1, <2>3, <2>4 DEF Commit, TypeOK, Heads, Turns
  <2>6. q = p
    BY <2>1, <2>4, <2>5 DEF TypeOK, Local, RequestsInProgress, DistinctRequests
  <2>7. pc[p] = "inflight" /\ c \in loc[p].plan
    BY <2>3, <2>5, <2>6
  <2>8. QED
    BY <2>1, <2>6, <2>7 DEF PlannedFor
<1>2. QED
  BY <1>1, LifecycleInvariance, PTL DEF Spec, RemovedIsFinished
=============================================================================
