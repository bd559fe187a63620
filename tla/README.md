# TLA+ models of LightRSI

LightRSI keeps the context of long-running LLM agents small.  A *preset*
(TokenPilot) stabilises the prompt prefix, shortens tool output before it reaches
the model, and removes the context of finished tasks, either automatically or after
a user has selected tasks in the *Context Cleaner*.  Hosts are connected by
adapters: a local proxy (Codex), a gateway (Claude Code), a plugin with an embedded
proxy (OpenClaw), a native command (DeepSeek Harness) and in-process extensions
(OpenCode, pi).

Nothing in this system has a database under it.  Plans, receipts, schedules, epochs,
registries and locks are files in a state directory which a CLI, an MCP server, hooks
and one or more proxies share; every one of these processes may be killed at any
moment, and a request to a provider may be outstanding for minutes while the others
go on.  The models are about that: what the files say to each other in every
interleaving, after every crash and after every failed write.

Contents: [components](#1-components), [modules](#2-modules),
[runs](#3-runs), [fairness](#4-fairness), [proofs](#5-proofs),
[findings](#6-findings), [known weaknesses](#7-known-weaknesses),
[not modelled](#8-what-is-not-modelled), [plan](#9-plan), [use](#10-use).
Paths are relative to the repository's `src/`; `PROJECT.json` maps each definition to
the lines it translates.

## 1. Components

`P/` stands for `components/packages`, `A/` for `components/adapters`.

### Context Cleaner: shared store and control plane, `P/features/cleaner`

*State.*  For every plan id a plan record, a receipt and, during a transition, a
transaction file; one lock file per store.  *Operations.*  Analyse, approve (and
schedule), cancel, record an execution, recover.  *Interactions.*  Every adapter with
a cleaner calls it; it calls the host back to write a schedule (two-phase: receipt
approved, host pointer written, receipt scheduled).  *Hard.*  The two files change
one after the other; the control plane reads both without the lock before it asks for
a transition; anybody may cancel at any time.  *Correct when* plan and receipt never
part without a log that reconciles them, what a caller was told stays true, and no
pending transaction can block the plan for ever.

### Session locks

*The lock directory* (`A/codex/src/context-rewrite/rebase-epoch.ts`,
`P/foundation/host-adapter/src/context-rewrite/plan-store.ts`,
`A/deepseek-harness/src/context-cleaner/scheduler.ts`) is one algorithm in three
copies: `mkdir`, an owner file, and removal of a dead owner's directory under a
second, recovery directory.  *The OpenClaw lock*
(`A/openclaw/src/context-cleaner/session-lock.ts`) is a file whose recovery is decided
by an election.  *Hard.*  Judging a lock and removing it are two steps.  *Correct
when* there is one holder and nobody removes the lock of a live one.

### Codex adapter, `A/codex`

A proxy for the Responses API serves the requests of many sessions; hooks, a cleaner
MCP server and the CLI run beside it.

* *Clean execution* (`context-cleaner/`, `context-rewrite/fallback.ts`,
  `rebase-epoch.ts`).  State: a schedule journal, a journal of rebase epochs, the
  session lock, the shared receipts.  The next request whose history covers a scheduled
  plan is rewritten and sent as a new response chain; if the provider accepts it, the
  epoch is committed, the receipt becomes `applied` and the schedule record is closed;
  otherwise the original request is sent.  Hard: cancellation and other requests during
  the upstream call, client retries, crashes between four stores.  Correct when a plan is
  executed once, a request that is upstream keeps its epoch, and receipts, schedule and
  epochs agree.
* *Automatic eviction* (`context-rewrite/lifecycle-*.ts`, `P/features/eviction`,
  `P/foundation/history`).  State: the task registry with its watermark, the histories.
  An estimator model assigns new turns to tasks; tool results of finished tasks are
  dropped by the next response chain.  Hard: the estimate takes minutes, the plan is
  executed under a later hold of the lock, histories branch, one turn may serve several
  tasks.  Correct when only results of finished tasks leave and no turn is analysed twice.
* *Context history* (`context-history/`).  Append-only journal of requests and responses,
  its own lock, repair of a torn last line, and the history computed from it.
* *Proxy, transport, reduction, hooks, install, doctor.*

### DeepSeek Harness adapter, `A/deepseek-harness`

*Clean execution* (`cleaner-pre-step.ts`, `context-cleaner/`, `surface-transaction.ts`).
State: one schedule pointer per session under the lock directory, the session's event
surface, the shared receipts.  The next agent request claims the pointer, rewrites the
surface, records the receipt and finalises the pointer; pre-steps reconcile or abandon old claims.
Hard: two requests, aborts, a product CLI that knows only the receipt, claims that
expire while their execution is alive.  Correct when a surface is rewritten at most once
per plan, `applied` means that everything landed, and no claim stays for ever.  Its automatic
eviction (`eviction-*.ts`, `projection.ts`) works on the same surface inside one process.

### Other adapters

* *Claude Code*, `A/claude-code`: gateway with turn counter, raw semantic records, snapshot
  store, task registry, and a clean execution of its own.  Hard: the registry is compared
  and set without a lock (`context-rewrite/semantic-pipeline.ts`); a turn is claimed by
  fingerprint.  Correct when no estimate overwrites another and each request has one turn.
* *OpenClaw*, `A/openclaw`: context engine with turn reservations, canonical state, schedule
  and clean runtime under its lock, page-in/page-out, slash commands, procedural memory.
  Correct when a reserved turn is committed once and a clean meets the state it was planned for.
* *OpenCode* and *pi*, `A/opencode`, `A/pi`, with `A/shared/canonical`: in-process, one writer
  per session, no Cleaner.  State: an overlay of evictions, a reduction memo, a task registry.
  Correct when the watermark does not pass an eviction that did not land.

### Packages, preset and products

| component | state | operations | correct when |
| --- | --- | --- | --- |
| `P/features/eviction` | none of its own | plan, map estimates, filter, apply | no unfinished or unpaired item leaves |
| `P/foundation/history` | task registry file | patch, compare and set, delta | versions and watermark grow |
| `P/foundation/host-adapter` | mutation plans, session and trace files | plan store, relocation, closure check, gateway | one writer; a plan is applied at most once |
| `P/foundation/artifact-store` | archive files | archive, look up, render | what was removed can be recovered |
| `P/features/memory` | queue file, skills per session | enqueue, drain, complete, fail | no entry is lost or distilled twice |
| `P/features/reduction` | none | passes over one request | idempotent, protected content untouched |
| `P/features/stabilizer` | audit file | rewrite the prefix | same prefix for same inputs |
| `P/foundation/kernel`, `runtime-core` | none | types, module loop | order and failure modes |
| `P/foundation/product-surface` | reads files | reports, Visual page | presentation |
| `components/presets/tokenpilot` | none | policy and locality | heuristics |
| `components/products/cli` | none | clean, status, host commands | calls of the control plane |
| `components/products/mcp` | none | `memory_fault_recover` | what was removed is found, also while it is written |

## 2. Modules

| module | models | lines |
| --- | --- | --- |
| `CleanContracts` | receipt statuses and their transition table (`contracts.ts`) | 15 |
| `CleanLifecycle` | abstract: the life of one plan as its users see it | 54 |
| `CleanExecution` | abstract: what a host promises when it executes plans | 53 |
| `Mutex` | abstract: what the users of a lock expect of it | 39 |
| `CleanStore` | store and control plane, one plan id | 430 |
| `SessionLock` | the lock directory | 169 |
| `OpenClawLock` | the lock file with election | 247 |
| `JournalLock` | the lock file of the Codex journal | 251 |
| `CodexClean` | clean execution of a Codex session | 529 |
| `DshClean` | clean execution of a DeepSeek Harness session | 423 |
| `ClaudeClean` | clean execution of a Claude Code session | 422 |
| `OpenClawClean` | clean execution of an OpenClaw session | 339 |
| `CodexLifecycle` | automatic eviction of a Codex session | 326 |
| `ClaudeLifecycle` | turn counter, raw records and registry of a Claude Code session | 215 |
| `ClaudePlans` | mutation plans, archive and request of a Claude Code session | 310 |
| `CanonicalEviction` | automatic eviction of OpenCode, pi and DeepSeek Harness | 273 |
| `CodexJournal` | the journal of requests and responses and the history computed from it | 357 |
| `OpenClawEstimator` | the estimator TokenPilot runs in OpenClaw's proxy | 176 |
| `OpenClawEviction` | automatic eviction of an OpenClaw session, with that estimator | 164 |
| `MemoryQueue` | the queue of procedural memory and its worker | 202 |
| `ArtifactStore` | archives, their lookups and the tool that reads them | 275 |
| `CleanStoreProofs`, `SessionLockProofs`, `CodexCleanProofs`, `CodexLifecycleProofs`, `CodexJournalProofs` | theorems about the module of that name (`CodexJournalProofs`: also `JournalLock`) | |
| `DshCleanProofs` | theorems about `DshClean` and `CanonicalEviction` | |
| `ClaudeProofs` | theorems about `ClaudeLifecycle`, `ClaudePlans` and `ClaudeClean` | |
| `OpenClawProofs` | theorems about `OpenClawLock`, `MemoryQueue`, `OpenClawEviction`, `ArtifactStore` and `OpenClawClean` | |
| `MCCleanStore`, `MCSessionLock`, `MCCodexClean`, `MCDshClean` | instances of one module | |
| `MCSessionFiles`, `MCOpenClawFiles`, `MCHostClean`, `MCHostLifecycle` | instances that put modules beside each other | |

How they fit together.  `CleanStore` implements `CleanLifecycle` (the property
`ImplementsLifecycle`, proved).  That is why the four clean executions may take a receipt
transition as one step along the table of `CleanContracts`: the files, their lock, their
crashes and the retries of the control plane are behind the refinement.  `CodexClean`,
`DshClean`, `CodexLifecycle` and `ClaudePlans` take the session lock as a mutex that dies with its
holder; `SessionLock` implements that mutex (`Mutex`, proved) until a verdict `missing` has removed
a lock, see finding 2.  `OpenClawClean` and `OpenClawEviction` do the same with `OpenClawLock`, whose
mutex never breaks, and `CodexJournal` with `JournalLock`, whose mutex lasts until a recovery file is
taken in use (finding 13).
`ClaudeClean` has its lock file inside, because it is judged by age and stolen.

The other way round, the four clean executions implement `CleanExecution` (proved): to those who see
only the receipts and the model's context, a plan moves along the table, its items leave after it was
published, and it is reported as applied only for items that left.  What counts as having left is a
committed epoch for Codex, a surface that shows stubs for all selected items for DSH, an overlay the upstream has accepted
for Claude Code, and for OpenClaw the rewritten copy or an applied receipt.  Only OpenClaw's may come
back (`Durable` is false there), because its copy may be torn and rebuilt.

An adapter serves one host and a host has no state in common with another one.  The four
composing instances therefore choose in `Init` which session they are about (variable
`host` or `file`) and run that module's next-state relation, the others standing
still: what is gained is one run per question asked of several implementations of one idea.

**CleanStore.**  `plan`, `receipt` and `intent` are the three files, `lock` the lock file.
A process has a control point `pc`, an operation `op`, the transition it wants (`job`),
the receipt it has read (`seen`) and what it answered (`reply`).  `CallAnalyze`,
`CallApprove`, `CallCancel` and `CallHost` are the entry points of `orchestrator.ts` and
`host-execution-bridge.ts`; `ReadPlan`, `Decide*`, `Replay` and `Reread` are their
unlocked reads and early returns; `WriteIntent`, `AdoptIntent`, `AbortIntent`,
`SaveReceipt`, `SavePlan` and `UnlinkIntent` are the transaction of
`clean-state-coordinator.ts`, split at its writes.  `WriteFails` and `Crash` may happen at
each of them.  `Times` stands for everything in a receipt besides status and selection;
two receipts with different times conflict as two different receipts do in the code.

**SessionLock.**  `dir` is the lock directory with its owner, `recovery` the second
directory.  Each file system call of `tryAcquireLock`, `lockIsStale`, `recoverStaleLock` and the
release is an action; `Judge` and `Rejudge` record why a lock was called stale, and
`raced` remembers a removal that rested on `missing`.

**OpenClawLock.**  `main` and `guard` are the lock file and the guard of the old format,
`present` and `ticket` the candidate files, `todo` the files a candidate has yet to read.
`Join`, `List`, `Scan`, `Publish`, `Compare` and `Rescan` are the election; `OpenGuard` to `ReopenMain`
what its winner does; `Crash` may happen anywhere.

**CodexClean.**  `receipt` and `executedBy` are the shared receipts, `pointer` and `last`
the schedule journal, `epochs` the latest record of each rebase epoch, `lock` the session lock.
`Schedule` and `WritePointer` are the approval; `Begin` to `NoRecovery` the epoch
recovery of a fresh process; `ReadSchedule` and `EnterPrepare` what the proxy does before
it decides; `Found*` and `RecordApplied` the recovery of a committed epoch; `Reserved` to
`RecordStale` the preparation; `Guarded`, `StartEpoch`, `EpochTaken`, `CommitEpoch` and
`CloseEpoch` the execution with its fallback; `Mirror` and `Settle` close the schedule.  A
request is its content, because the epoch id is derived from it: a client's retry is the
same request again.

**DshClean.**  `pointer` is the schedule record, `runs` counts the claims (a claim's number
is its id), `surface` says what the session still shows of the selected items, `rewrites`
and `closed` are history.  `Approve`, `WritePointer`, `Publish` and `Abort` are the two-phase
schedule; `Cancel*` the two cancellations; `PreStep`, `Check`, `Claim`, `Prepare`,
`Rewrite`, `Record` and `Finalize` the execution; `Repair`, `Wait` and `Abandon`
the reconciliation.  `Drift` lets items leave the surface at any time.

**CodexLifecycle.**  `turns`, `path`, `committed`, `called` and `gone` are the histories:
which turns a request builds on, which have a response, which end with a tool call and
which tool pairs a history has lost.  `registry` is the task registry, `analysed` is
history.  `EnterPlanner`, `Estimated` and `NotEstimated` are the planner under one hold of
the lock, with any answer of the estimator; `Execute`, `Accepted`, `Answered` and `Lost`
the execution under another.

**ClaudeClean.**  `clReceipt` is the shared receipt, `clJournal` the schedule journal, `clLock` the lock
file with `clAged` (older than 30 minutes) and `clStolen` (a live owner's file was
unlinked), `clPc` and `clLoc` the control point and the locals of a request; `clAccepted` and `clLost`
are history: which overlays the provider has taken, and after which a closing record was not written.
`ClaudeApprove` and `ClaudeCancel` are the control plane; `ClaudeRequest` to `ClaudeForward` the way of a request
through `prepareLockedOverlay`, the guard, the upstream call and the settlement; `ClaudeAcquire` and the release are
split where the file is looked at and unlinked.  `ClaudeCrash` and `ClaudeWriteFails` happen anywhere.

**OpenClawClean.**  `ocReceipt`, `ocPointer`, `ocIntent` and `ocCopy` are the four files of a commit (the last is the
canonical state with its revision, `ocTorn` when a write of it was cut short); `ocRebuilt` and `ocBlurred`
remember that the copy was rebuilt from the transcript and that anchors were written into a half-done commit.
`OpenClawCommand` is approve, cancel or analyse; `OpenClawAssemble` and `OpenClawOnwards` the context engine's
request with recovery, execution and its four writes; `OpenClawSync`, `OpenClawUnchanged` and `OpenClawAnnotate`
the other writers of the copy; `OpenClawStop` a crash.

**ClaudeLifecycle.**  `semCounter` is the turn counter's file, `semRecord` the raw records, `semRegistry` the task registry.
A request passes `SemanticClaim` (counter), `SemanticRecord`, `SemanticLoad`, `SemanticList`, the estimator, `SemanticCompare` and `SemanticStore`:
the version is compared and the new file renamed in two steps, because nobody holds a lock.
`semLate` and `semRaced` remember a record that arrived below the watermark and two requests that both passed the compare.

**ClaudePlans.**  `planFile` is the plan store, `planArchived` the archive, `planLock` the store's lock.  `PlanBegin` chooses what the
lifecycle planner proposes for a request (a plan's form stands for its content, and so for its identifier), `PlanTake`, `PlanPass`, `PlanSaved`, `PlanRewrite` and
`PlanMarked` are load, save, archive with apply, and mark, each under a hold of the lock of its own;
`planSent` and `planStubbed` are what went upstream, `planLost` plans whose file was damaged (`PlanDamage`).

**CodexJournal.**  The journal is a sequence of entries: `pending`, `response` and `status` records as the three
appends write them.  A request is sent plainly, as a replay, as a rewrite with a new chain, or as the original after a
rewrite failed; `JrView` and `JrHistory` compute the effective history from the entries as
`effective-history.ts` does, and are compared with `JrRemembers`, what the provider was really given.
`JrMixed` and `JrOvertaken` name the histories of findings 14 and 16.

**JournalLock.**  A file at the lock's path or at a recovery path is a record of its owner, the owner it names and whether
it is old.  Looking at a file, judging it, judging it again (`JlRejudge`), renaming it away (`JlTake`) and putting it back (`JlReclaim`) are separate steps; `jlTaken` remembers
that a live owner's file was renamed away.

**CanonicalEviction.**  One writer per session, the host process.  `canSurface` is what the host shows, each turn with the number it has now; `canStubs` what is
durably evicted, `canRegistry` the watermark (`mark`), the tasks of each turn and the finished ones;
overlay and drafts are what the hosts keep in between.  The actions follow the cycle
(begin, estimate, save, apply, advance, send), and `canTruth`, `canSent`, `canMoved` and `canUnread` are history.
The three hosts differ in how `apply` lands (one overlay file; drafts that the host appends later; appends one by one) and one more
mode tracks tasks without evicting.

**MemoryQueue.**  `mqFile` is the queue file of all sessions and `mqSkills` the skill files.  Enqueue, drain, complete and
fail read the whole file, change the copy and write the whole file: a read and a write are two steps,
with any other session's in between.  `mqUndone` remembers entries whose state a write overwrote unseen, `mqOrphans` those of a call that ended early.

**OpenClawEstimator.**  `oeSaid` counts the messages of the transcript, two to a turn; `oeRegistry` is the registry file with the
watermark, the tasks of each turn and each task's life, `oeMarker` the file `estimator-last-run.json`, `oeRun` what each request that
runs the estimator does next and the registry it loaded.  `OeLoad` is everything up to the question (window, marker),
`OeAnswered` leaves the marker, `OeCompared` and `OeStored` are the two halves of the compare and set; `OeAnswers`, `OeApplied`
and `OePromotions` are what an answer may say, the patch made of it and the promotion of completed tasks.  `oeMode` is the
lifecycle and evidence mode.  `OeOtherSession` is a run of another session, which has the same marker file; `oeStranded`
remembers a marker whose registry was never stored or was replaced.

**OpenClawEviction.**  `oeKind`, `oeAnchor` and `oeOwners` are the canonical copy: for each message whether it is there, gone or a stub,
the turn it is anchored to and the tasks noted at it.  `OeRead` appends the transcript, anchors the messages by counting as `annotateCanonicalMessagesWithTaskAnchors` does
(`OeAnchorOf`), and bundles what evictable tasks take with them; `OeArchives` writes one archive after the other and `OeSaved`
the copy, with `OeEngineDies` anywhere between.  `oeReused` and `oeAstray` remember messages whose task had an archive already, and counts that went wrong.

**ArtifactStore.**  `arFile` says of the archive of each text whether it was never opened, is emptied or whole; `arKeyFile` and `arLookup`
are the key files and `key-lookup.json` of each directory, which lead to archives; `arStubs` are the texts a hint stands for.  `ArOpen` to
`ArListFill` are `archiveContent` with `updateArchiveLookup`, each write split into the open that empties and the fill; `ArRecover`
to `ArAnswered` a call of `memory_fault_recover` in OpenClaw or over MCP: by the key file, by the list, by a scan that repairs both, and
on to the next directory.  `known` is what had the key when the call began, `met` that the call saw an emptied archive or could not repair.

### Abstractions that several modules share

* A file is replaced by `rename` or appended to by one write, so a write is atomic (not in `ArtifactStore`, whose files are written in place).
* Content is abstracted to what decides a branch: a selection is a list of tasks, a revision
  is `base` or `later`, a surface is whole, in part, lost or replaced by stubs.
* Where the code consults something the module leaves out (a capability record, a
  cooldown, token counts, the provider), the model takes every outcome.
* Processes of a host are found dead by their process id; several hosts on one state
  directory are not modelled.

## 3. Runs

| run | instance | distinct states | shows |
| --- | --- | --- | --- |
| `clean_store_two_phase` | `MCCleanStore`: 2 processes, 2 tasks, 3 selections, 2 times | 2.5 M | `ReceiptAheadIsLogged`, `RepliesAreDurable`, `ImplementsLifecycle` under crashes and failed writes at every step |
| `clean_store_bricked` | the same | 118 k (stops) | finding 1 |
| `session_lock_exclusive` | `MCSessionFiles`: 3 lock processes; 2 clients, 2 texts, 3 requests, 3 answers, 1 fault | 1.5 M | two holders of a session lock need a verdict `missing`, two of the journal lock a file taken in use; the history is what was sent, and complete |
| `session_lock_race` | `MCSessionLock`: 3 processes | 0.7 k (stops) | finding 2 |
| `openclaw_lock_election` | `MCOpenClawFiles`: 3 processes, 3 tickets, 2 crashes; or 2 processes, 3 directories, 2 texts of one path, of two paths, or a persisted one, 1 fault | 9.3 M | owners keep their lock; what was taken out is found again |
| `codex_clean_safety` | `MCCodexClean`: 2 processes, 2 plans, 2 requests, 2 faults | 4.4 M | four stores agree, one commit per plan |
| `codex_clean_recovery` | 2 processes, 1 plan, 1 request, 1 fault, no relocation, fair | 11 k | executions are recorded, schedules closed |
| `codex_clean_relocated` | the same with relocation | 19 k (stops) | finding 3 |
| `dsh_clean_safety` | `MCHostClean`: DSH, Claude Code or OpenClaw, 2 operations and 2 plans each, 2 or 3 faults; or OpenClaw's eviction, 2 tasks, 2 turns, 1 run, 1 fault | 2.2 M | claims are exclusive, one rewrite per plan; pointers, journals, intents and receipts tell what happened, and each of the three hosts implements `CleanExecution` (`HostsExecute`); what an eviction takes out is archived and of its task |
| `dsh_clean_claims` | `MCHostClean`: the three clean executions with 1 or 2 plans, a canonical session of 1 task and 3 turns, or an estimator of 1 task, 2 turns and 2 runs; fair | 0.15 M | claims, schedules and pointers are closed; finished turns leave; the estimator's watermark moves |
| `dsh_clean_cancelled` | `MCDshClean`: 3 operations, 1 plan, no fault | 5 k (stops) | finding 4 |
| `codex_lifecycle_safety` | `MCHostLifecycle`: see below | 2.2 M | automatic eviction on every host, and the memory queue |

Why the bounds are enough to be interesting.  *Two processes* give every race between
an operation and a recovery, a cancellation, a retry or another request; the locks need
*three* (the one that releases, the one that judges, the one that takes).  *Two plans*
make the one-schedule-per-session rules bite, and *three selections* cover equal, reordered and
different ones.  *Two faults* let a crash hit the recovery of a
crash.  A DSH plan that was claimed *twice* has been abandoned and scheduled again.
*Three requests and answers* of the journal are a request, its retry or rewrite, and one that continues either; an
OpenClaw session of three revisions has been rewritten, annotated and extended.
*Two turns of two messages* let a message arrive after its turn was estimated and the engine has read it, and a batch of one turn
lets the second estimate change the tasks of the first turn.
*Two texts* meet in one key file when they are of one path, and in one `key-lookup.json` when they are of two; a session whose directory has another name
than its id, and a persisted result, are the two that OpenClaw's tool does not find.

`codex_lifecycle_safety` is one of:
Codex with 2 proxies, 2 tasks and 7 turns, of which five lie before eviction is switched on, in two branches
1-2-3 and 1-4-5 whose first turn ends with a tool call (enough for a branch that lies below the watermark, a plan that is
executed after another estimate, and a pair whose sides belong to different tasks);
Claude Code's registry with 2 clients, 2 messages, 3 turns and one counter file that cannot be read;
Claude Code's plans with 2 clients, two forms of one plan and one plan of the lifecycle planner, 4 requests and one damaged file;
a canonical session of any host with 2 tasks, 3 turns and one fault; and the memory queue with 2 clients, 2 entries of 2 sessions, batches of 2 and one fault.

`MaxTicket` caps the tickets of the election: a candidate that would draw a higher one gives up.
Processes, plans, tasks and request contents are interchangeable in the
safety runs (symmetry); runs with liveness use none.  `codex_lifecycle_safety` does not check
deadlock because the numbers of requests and turns are bounded and the sessions end; all
other runs do.

The theorems of section 5 are about the same modules without these bounds.

## 4. Fairness

Only two runs assume any (`codex_clean_recovery`, `dsh_clean_claims`); everything else is safety.

* `CodexClean!FairSpec`.  A request that is being served goes on (weak fairness of each
  stage: the proxy is a running event loop, and an upstream call ends with an answer or an error).  The client
  keeps sending requests, and the lock, which its holders release, is not busy every time somebody
  asks: strong fairness of `Begin`, `EnterPrepare`, `Mirror` and `Settle`, because these
  are enabled again and again rather than for ever.  No fairness of approvals,
  cancellations, crashes or of the provider's acceptance.
* `DshClean!FairSpec`.  An operation in flight goes on; the agent keeps making requests
  (`PreStep`) and a claim whose execution is gone grows old (`Expire`), strongly fair because other
  operations may use the process in between.  No fairness of new approvals,
  cancellations, drift or faults.
* `ClaudeFairness`.  A request goes on (weak fairness of `ClaudeAcquire` and `ClaudeOnwards` for each client), the client
  keeps sending (`ClaudeRequest`), and a lock file grows old (`ClaudeAge`: time passes).
* `OpenClawFairness`.  A request goes on (weak fairness of `OpenClawOnwards`); the agent keeps assembling
  (strong fairness of `OpenClawAssemble`, which is not enabled while another operation has the lock).
* `CanonicalFairness`.  Weak fairness of the steps of the cycle and of its success (`CanonicalBegin`, `CanonicalEstimated`,
  `CanonicalKeeps`, `CanonicalApplies`, `CanonicalAdvances`, `CanonicalSend`): an estimator that fails for ever evicts nothing, and
  the number of faults is bounded.
* `OeFairness`.  Weak fairness of each run of the estimator that has what it needs (`OeGoesOn`): requests keep coming and bring one, and the
  model it asks answers in the end.  No fairness of messages, of the other sessions or of faults.

A behaviour of `MCHostClean` is one session of one host, and `HostFairness` asks of it the fairness of that host only.

## 5. Proofs

Checked with TLAPS for every value of the constants; the only assumptions are the named
ones of the modules (`ProcsAssumption`, `BoundsAssumption`, and one named after its module for the others): constants have their
types, a null value is no process, plan or text, a past history is a tree.  None bounds a
number of processes.

| theorem | argument |
| --- | --- |
| `CleanStoreProofs!AheadIsLogged`, `RepliesStayTrue` | Inductive invariant: at most one process is inside the lock (`CleanStoreProofs!Mutex`); the transaction file means something definite at each control point (`FilesOK`, `InTransaction`); and of what a process read without the lock, only statuses that cannot go back are relied on (`Knows`). `ReceiptAheadIsLogged` alone is not inductive: it does not say what the holder of the lock is about to write. |
| `CleanStoreProofs!Refinement` | Writing the receipt is the step of the lifecycle that changes the status, writing the plan record the one that publishes it; all others stutter. |
| `SessionLockProofs!ExclusiveUnlessRaced` | The recovery directory is exclusive whatever happens; until a removal rests on `missing`, the lock directory is what its maker's control point says. |
| `OpenClawProofs!ElectionIsExclusive`, `OwnersAreNeverRobbed` | A bakery: whoever a candidate has compared itself with stays behind it (`Behind`), so two cannot both have won; only a winner unlinks, and only a dead owner's file. |
| `CodexCleanProofs!RequestsOwnTheirEpochs`, `PlansExecuteOnce`, `StoresAgree`, `ScheduleIsBacked` | Only the holder of the session lock moves a pending epoch or a schedule record; committed epochs and terminal receipts never change; what a process carries from one hold of the lock to the next (`Carries`) is one of those. |
| `DshCleanProofs!ClaimsAreHeld`, `SurfaceRewrittenOnce`, `AppliedIsEarned`, `PointersAreBacked`, `ScheduledWasPointed` | A claim id is used by one execution (`SoleClaim`); a claimed pointer is closed by it or by somebody who has seen a terminal receipt (`Announces`); a rewrite is prepared only while the receipt is scheduled and the surface untouched (`SoleRewriter`, `Untouched`). |
| `ClaudeProofs!JournalFollows`, `OneStoryIsTold`, `AppliedWasAccepted` | The lock may be stolen, so nothing rests on it but `OneStoryIsTold`: what an operation knows of its plan (`ClaudeCarries`) is of the kind nobody can take away, because receipts do not leave a final status and records do not leave the journal. |
| `OpenClawProofs!CopyIsTold`, `IntentIsPointed` | What each point between the four writes of a commit may rely on (`OcTaskInv`), who may have an intent (`OcIntentInv`, `OcPointerInv`), and that the copy has the revision before or after the rewrite unless it was blurred: so the next request can tell how far the one before it came. |
| `CodexCleanProofs!CodexRefinement`, `DshCleanProofs!DshRefinement`, `ClaudeProofs!ClaudeRefinement`, `OpenClawProofs!OpenClawRefinement` | Each receipt write is one step of the table and only the reporting one writes `applied`; only a committed epoch, a rewrite in full, an accepted overlay or a saved copy takes something out.  What has to be added to the invariants is that an execution on its way belongs to a plan that was published (`Published`, `ClaudePublished`): a cancelled plan does not become approved again. |
| `SessionLockProofs!DirectoryIsMutex`, `CodexJournalProofs!JournalLockRefinement`, `OpenClawProofs!ElectionRefinement` | The holders are those whose control point is in the critical section; who enters it has named the lock file that the invariant says every holder must have under its own name, so there is no other holder. |
| `DshCleanProofs!EvictedWasFinished`, `StubsAreStable` | While no turn has moved, a turn's number is its place and its tasks in the registry are those the estimates gave it; stubs only grow unless an overlay could not be read (`CanonicalInv`). |
| `ClaudeProofs!RegistryTells` | Who has compared the registry knows its version until somebody stores; a record below the watermark was listed, or came late (`SemInv`). |
| `ClaudeProofs!PlansHaveOneStatus`, `NothingIsLost` | Only the holder of the store's lock writes, and it writes what it found under the lock (`PlanInv`); an item is replaced only after its archive. |
| `CodexJournalProofs!JournalIsWrittenByOne` | Each file is the one its maker's control point says, unless it was taken in use (`LockInv`). |
| `CodexJournalProofs!TurnsKeepTheirOrder` | A pending entry gets the next number and entries are only appended (`NumbersInv`). |
| `CodexJournalProofs!HistoriesAreTrue`, `KeptTurnsAreFound` | The answers of the provider, the entries, what requests in flight know and the responses taken for kept tell one story (`StoryInvariance`); a chain is then right turn by turn.  The history is a recursive function over the entries; the library's induction cannot be used on it, so every induction is by contradiction: there would be a least entry or answer for which the claim fails (`LeastNumber`), and its predecessor does not fail. |
| `OpenClawProofs!QueueTells` | For each entry: what the file says, and what every call that has read it may still write, agrees with what was done with it (`MemoryInv`). |
| `OpenClawProofs!DepartedIsArchived` | What an open commit takes is live in the copy, and of each task it is done with all of it is archived or was remembered as reused (`OeInv`); the copy is saved only when no task is left. |
| `OpenClawProofs!LeavesWithItsTask` | Unless counting went wrong (`oeAstray`), each message of the copy has no anchor or that of its turn (`OeTurnInv`): the number of user messages up to a message is its turn, by induction over the messages. |
| `OpenClawProofs!OmittedWasRecovered` | Whatever leads to an archive leads to a file that was opened once, in its directory and under its key; until a call meets an emptied archive, every text it owes lies in a directory it has yet to look in (`ArInv`). |
| `CodexLifecycleProofs!RemovedWasFinished`, `EachTurnOnce`, `RegistryAdvances` | A turn that has tasks is analysed and gets no others, so a block can gain a task only through its other side, and then its sides differ and the backend refuses it; a plan is good for one version of the registry and versions grow (`PlannedFor`); the executor holds the lock. |

The type invariants are proved and not run again: `CleanStoreProofs!TypeCorrect`, `LockTypeCorrect`, `ElectionTypeCorrect`,
`CodexTypeCorrect`, `DshTypeCorrect`, `ClaudeTypeCorrect`, `OpenClawTypeCorrect`, `CodexLifecycleProofs!TypeCorrect`, `SemanticTypeCorrect`,
`CanonicalTypeCorrect`, `JournalTypeCorrect`, `MemoryTypeCorrect`, and as parts of `JournalLockInvariance` and `PlanInvariance` those of the
journal lock and of the plans.  The inductive invariants themselves are stated as `DshInvariance`, `ClaudeInvariance`, `OpenClawInvariance`,
`LifecycleInvariance`, `PlanInvariance`, `JournalLockInvariance`, `NumbersInvariance`, `StoryInvariance`, `CanonicalInvariance`, `MemoryInvariance`,
`OeInvariance` and `ArInvariance` (with the type of the archives); `PROJECT.json` lists the results that rest on them.

Stated by theorems only: `RegistryMovesForward` (`RegistryAdvances`), `TurnsAreNumbered` (`TurnsKeepTheirOrder`), `JournalTypeOK`
(`JournalTypeCorrect`), `OneRecoverer` (`ElectionIsExclusive`), `ClaudeAppliedWasAccepted` (`AppliedWasAccepted`, which is what the reporting step of
`CleanExecution` asks for), `CodexExecutes` (`CodexRefinement`), and `LockIsMutex`, `JournalLockIsMutex` and `ElectionIsMutex`.  TLC checked each
of them on the instances of section 3 before it was proved, as it did the inductive invariants.  `HostsExecute` is three theorems: `DshRefinement`, `ClaudeRefinement` and `OpenClawRefinement`.

Only model-checked: the liveness properties (`ExecutionIsRecorded`, `SchedulesAreClosed`, `ClaimsAreResolved`, `ClaudeSchedulesEnd`,
`OpenClawPointersEnd`, `FinishedTurnsLeave`, `BatchesAreEstimated`), because neither fairness nor `ENABLED` is within the prover's reach, and the
four runs that end in a violation.  Every safety property of a passing run is stated by a theorem.

## 6. Findings

Numbers 1 to 4 are runs that end in a counterexample to what a comment or a test of the repository says.  The others
are cases which an invariant of a passing run has to allow by name: without the exception the run stops with a counterexample, with it
the invariant says that nothing else goes wrong.  `PROJECT.json` has the whole text of each with the lines it quotes.

1. `PendingIntentNeverBricks` (`clean_store_bricked`).  A cancellation takes the selection
   of a receipt it read without the lock; an approval commits in between; the
   cancellation's transaction file can then be neither completed nor discarded and
   every later transition and recovery of the plan is refused
   (`clean-state-coordinator.ts:85`; the test at `tests/clean-state-coordinator.test.ts:94`
   says that identity conflicts leave no such file).
2. `MutualExclusion` (`session_lock_race`).  `lockIsStale` answers true when the directory
   is gone; between that verdict and the removal a third process creates the lock, and it is removed
   (`rebase-epoch.ts:120`, the same in `plan-store.ts` and the DSH scheduler).  Needs no crash.
3. `ExecutionIsRecorded` (`codex_clean_relocated`).  Recovery of a relocated plan compares
   the committed epoch with the revision of the stored plan, not with the relocated one: the
   receipt stays `scheduled` for ever (`applied-receipt.ts:80`).
4. `CancelledIsNotExecuted` (`dsh_clean_cancelled`).  A cancellation that found no
   pointer does not look again; an approval and a request overtake it and the receipt is
   cancelled under a durable claim (`commands.ts:328`, against the comment at
   `scheduler.ts:456`).
5. `ClaudeJournalFollowsReceipts`, exception `clLost`.  The applied receipt and the journal's closing record are written under two holds of the lock; what
   dies in between leaves the schedule open for ever (`A/claude-code/src/context-cleaner/runtime.ts:458`).
6. `HostsExecute`: `CleanExecution` lets a plan that was carried out end otherwise.  A stale verdict is recorded after the lock was released, possibly over a plan another request
   has upstream (`runtime.ts:243`).
7. `OpenClawReceiptsTell`, exception `ocBlurred`.  Analysing writes anchors into a half-done commit, which then counts as
   stale although it was carried out (`A/openclaw/src/context-cleaner/task-registry-bootstrap.ts:85`).
8. `OpenClawReceiptsTell`, exception `ocRebuilt`.  The canonical copy is overwritten in place; torn, it is rebuilt and what was cleaned out is
   back (`P/foundation/history/src/canonical-state.ts:57`).
9. `SemanticRegistryTells`, exception `semLate`.  A turn that is recorded after a later turn moved the watermark is never analysed
   (`A/claude-code/src/context-rewrite/semantic-pipeline.ts:127`).
10. `SemanticRegistryTells`, exception `semRaced`.  Two requests both pass the compare of the registry
   (`P/foundation/history/src/registry.ts:227`).
11. `PlanHasOneStatus`.  A relocated plan is not stored, against the comment above the call (`A/claude-code/src/gateway-runtime.ts:729`).
12. `StubsAreRecoverable`, exception `PlanStrings`.  Tool results whose content is a list are replaced without an archive
   (`A/claude-code/src/context-rewrite/backend.ts:499`).
13. `JournalLockExclusive`, exception `jlTaken`.  A recovery file is renamed away after its judgement became wrong; two processes
   write the journal (`A/codex/src/context-history/journal-append.ts:384`).
14. `HistoryIsWhatWasSent`, exception `JrMixed`.  A request keeps the payload of the first of its answers; a rewrite after a plain answer,
   or an original after a journaled rewrite, makes a history that is complete and wrong (`request-journal.ts:54`).
15. `JournaledTurnsAreFound`.  A failed request stays failed although its retry was answered
   (`request-journal.ts:54`).
16. `JournaledTurnsAreFound`, exception `JrOvertaken`.  A streamed response reaches the client before the journal; the next one may be written first and its
   chain is incomplete for good (`effective-history.ts:165`).
17. `EvictsFinishedTurns`, exception `canMoved`.  OpenCode and pi number turns by position; after a compaction or on another branch an
   unfinished turn gets a finished one's number (`A/opencode/src/codec.ts:196`).
18. `EvictionsStay`, exception `canUnread`.  An overlay that cannot be read is taken for an empty one and overwritten
   (`A/opencode/src/overlay.ts:29`).
19. `EvictionsStay`.  pi reports its edits as committed before the host has appended them, against the comment at `eviction.ts:225`; nothing is
   lost by it (`A/pi/src/runtime.ts:297`).
20. `LeftIsArchived`, exception `oeReused`.  A task that has an archive gets no other one: a message that is anchored to one of its turns later
   leaves without being archived, and it takes no failure for that (`P/features/eviction/src/history-apply.ts:392`).
21. `BatchesAreEstimated`, exception `oeStranded`.  The marker of a window is left before its registry is stored; if it is not, or another
   run's registry replaces it, the window is skipped from then on (`components/presets/tokenpilot/src/policy.ts:1556`).

22. `OmittedIsRecovered`, texts of the directories a call looks in.  Persisted tool results and Claude Code's evictions are archived where
   `memory_fault_recover` never looks, and OpenClaw's tool takes the session id as it is where the archive's directory has it sanitized
   (`P/foundation/artifact-store/src/archive-recovery/tool-result-persist.ts:140`).
23. `OmittedIsRecovered`, a text of the key.  A trimmed text has the path of its file, or `unknown`, for a key: the tool answers with the last
   text of that path, over MCP also of another session (`P/features/reduction/src/passes/pass-exec-output-truncation.ts:167`).
24. `OmittedIsRecovered`, exception `met`.  An archive that is being rewritten, or whose rewriting died, is taken for none and nothing else is
   looked for; a repair that fails counts as a directory without the archive (`P/foundation/artifact-store/src/archive-recovery/index.ts:169`).

## 7. Known weaknesses

Behaviours of the code that the models contain, or that were met while modelling, and that no
property excludes.  `freeze-design` is
`docs/superpowers/specs/2026-09-14-cleaner-interface-freeze-design.md`.

* *Codex, cancellation.*  `cancelCleanPlan` (`A/codex/src/context-cleaner/bridge.ts:506`) takes
  neither the session lock nor a claim: a plan whose rewrite is upstream can end both cancelled and
  executed (freeze-design:29, "cancellation and host execution have one serialized winner").
* *Codex, scheduling.*  `bridge.ts:487` stores the shared `scheduled` receipt before the
  host schedule; a crash or a busy lock in between leaves it without one until the approval is
  repeated (freeze-design:28).
* *Store, retry.*  After a transition died behind its transaction file, a retry with a new timestamp is
  refused with `clean_transaction_conflict` (`clean-state-coordinator.ts:131`;
  freeze-design:30) until somebody recovers.
* *DSH, receipt not saved.*  The pointer is closed as failed while the shared receipt stays
  `scheduled` (`cleaner-pre-step.ts:285`).  Once another plan has overwritten that pointer the plan can be
  claimed again; the surface is still rewritten only once (`RewrittenOnce`).
* *DSH, product CLI.*  The pointer of a plan that was cancelled by the product CLI stays scheduled
  after every pre-step (`cleaner-pre-step.ts:204`) and blocks other plans of the session; freeze-design:319 says
  that it is reconciled.
* *Session lock.*  A process that dies inside the recovery directory leaves it behind for ever;
  the session is then never rewritten again.
* *Codex eviction, mixed pairs.*  A tool pair whose two turns belong to different tasks makes
  `lifecycle-input.ts:379-381` defer every later estimate of that branch: the ownership of analysed turns
  never changes, so eviction is off for good.
* *Codex eviction, branches.*  The watermark is one number per session; turns of a branch that lie below a
  watermark which another branch has set are never analysed.
* *Codex eviction, reopened tasks.*  A task whose context was removed may become active again; nothing
  restores its context.  The same holds of the canonical cycle.
* *Cleaner store lock.*  `clean-store-support.ts:71` judges a lock file by its age and unlinks it in a second step, which may hit
  the file of a successor.  `CleanStore` takes locks younger than that.
* *Claude Code, schedule lock.*  The same two steps at `scheduler.ts:190`; `ClaudeOneStory` is stated for sessions in which no live owner's file
  was unlinked (`clStolen`).
* *DSH, surface.*  Items that left the surface after the preparation are passed over, and the receipt counts them
  as applied (`A/deepseek-harness/src/context-cleaner/runtime.ts:222`); `product-registration.ts:34`: a process without the harness cancels the receipt only.
  Stubs can be evicted again when the smallest block is shorter than a stub.
* *Claude Code, gateway.*  `suppressAutomaticEviction` stays set for a request whose manual clean was committed.
* *Codex journal.*  A replay drops retained items equal to the current input; rewrites of a history merged from a rollout are not modelled.
* *Canonical cycle.*  The watermark passes the turn that is still running: what it does after its first model step is
  never shown to the estimator.
* *Memory.*  An entry in flight when its call ends stays so, a failed one is never retried; entries are marked distilled before the
  skills are saved; sessions overwrite each other's changes; OpenClaw's memory consumer runs before the copy is saved
  (`context-engine.ts:190-207`), so a death in the distiller repeats the eviction.  Two writes within one millisecond share a temporary file.
* *OpenClaw eviction, shared turns.*  A message of a turn that belongs to an evictable and to an active task leaves
  (`history-apply.ts:341` looks for one evictable task, not for others); with stubs, what a reopened task does later never leaves.
* *OpenClaw eviction, anchors.*  What a user said in a turn that has other tasks by now is moved to the next turn
  (`canonical-anchors.ts:52-63`); with a message whose turn has no tasks and with a copy that has lost messages the count is wrong too.
  `EvictsTurnsOfTheTask` excludes these cases by name (`oeAstray`): no comment or test says what should happen in them.
* *OpenClaw eviction, identities.*  Without a transcript a message is known by its position in the request or by a digest
  (`context-engine.ts:126-146`), so it may be appended twice; `task-registry-bootstrap.ts:92` numbers turns by what is left in the copy.
* *OpenClaw estimator, cap.*  With `completedSummaryMaxRawTurns` below `batchTurns` the watermark passes turns no window shows
  (`delta.ts:182-186`).  The model has the default, no cap.

## 8. What is not modelled

* Functions of text: reduction passes, the stabiliser, chunking, codecs of the hosts' messages, parsing and prompts of estimator and
  distiller, the policy's locality and cost heuristics.  They keep no state that others see; their outcomes are free choices where a model needs one.
* Pure I/O and presentation: forwarding and streaming, installers, doctors, the CLI's prompts, the Visual page and its
  reports, the protocol of the MCP servers, the web site and scripts.
* These two groups are most of the repository's lines, which is why the map covers a small share of them.
* Parts that keep shared state and are left to the plan below: OpenClaw's turn reservations and the registry that `analyze` bootstraps; Codex rollouts,
  the decoding of streams and the attribution of history items to turns; the audit file of the stabiliser.
* Inside the modelled parts: several hosts on one directory; a process that stalls for the
  staleness period between `mkdir` and its owner file; cleaner lock files older than 30 minutes whose holder is alive; choice of
  a new plan id after a terminal plan; single items of a plan (a DSH surface has one verdict for all of a plan's items);
  token accounting; OpenClaw's manual and automatic eviction in one session (each is a model of its own, and both work under the session's lock).

## 9. Plan

In the order of importance; the parts of this list that are done are sections 2 to 5.

1. *Done:* store and control plane with its abstract lifecycle; the locks (directory, election, journal) as mutexes; clean
   execution of all four hosts as implementations of `CleanExecution`; automatic eviction of Codex, Claude Code, OpenClaw and the canonical hosts; mutation plans; the Codex
   journal; procedural memory; the archives; the proofs of section 5.
2. `RegistryStore`: the registry file with its compare and rename as two steps, as an abstract register that
   `ClaudeLifecycle` and `OpenClawEstimator` implement as long as no two runs compare the same version, and
   `CodexLifecycle` always.
3. OpenClaw's manual and automatic eviction in one session, with turn reservations and the bootstrapped registry.
4. `ProtocolClosure` and `Relocation`: pure operators against reference definitions over bounded histories.

Theorems worth having beyond the present ones: the refinement of `RegistryStore`; that a plan which `CleanExecution` has reported as applied
was reported once in `CleanStore`, that is, the composition of the two refinements.

## 10. Use

    tlc -workers 2 -config CodexClean_safety.cfg MCCodexClean
    tlapm CodexCleanProofs.tla

`CleanStore_*.cfg` belong to `MCCleanStore`, `CodexClean_*.cfg` to `MCCodexClean`, `OpenClawLock_election.cfg` to `MCOpenClawFiles`,
`DshClean_safety.cfg` and `DshClean_claims.cfg` to `MCHostClean`, `DshClean_cancelled.cfg` to `MCDshClean`, `CodexLifecycle_safety.cfg` to
`MCHostLifecycle`, `SessionLock_exclusive.cfg` to `MCSessionFiles` and `SessionLock_race.cfg` to `MCSessionLock`.  `PROJECT.json` lists components, runs,
the lines behind every definition, the hazards with the properties that watch them, the theorems, and for each property a mutated
definition that breaks it (the `mutants`: operators such as `IntentObsoleteIfReceiptSaved` or
`GuardedBySchedule`, each a plausible slip in the code it stands for).
