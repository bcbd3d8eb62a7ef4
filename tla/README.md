# Verification of app-foundation

TLA+ models of app-foundation, checked with TLC and proved about with TLAPS. The
repository holds several programs that share little: a server that turns ClickUp
webhooks into n8n runs, a vector index and a code graph of the repository with
the tools that read them, the projection of a plan into ClickUp and Trello, and a
driver that takes a feature through its phases with a pair of append-only
ledgers. All of them are modelled, each by modules of its own.

Paths are relative to the root of the repository. `PROJECT.json` maps every
definition to the lines it stands for, and lists runs, mutants, findings, hazards
and theorems.

1. Inventory  2. Modules  3. Runs  4. Proofs  5. Disagreements with the code
6. What is left out  7. What is next

## 1. Inventory

### ClickUp control plane, `src/clickup_control_plane/`

| part | state | operations |
|---|---|---|
| state store, `state_store.py` | SQLite tables `processed_events`, `active_task_runs`, `paused_task_runs` | one transaction per method: record an event and take the task's run lock, update a decision, rename the run, release (compare-and-set), pause, clear |
| reconciliation, `reconcile.py` | none | list running locks, ask ClickUp about each task, mark the locks of finished tasks `stale`; at startup and before every dispatch |
| orchestration, `service.py`, `dispatcher.py`, `policy.py` | local variables of a request between awaits | `process_event`: resume, cancel, or policy, checkpoint, lock, QA gate, POST to n8n, outcome |
| endpoints, `app.py` | FastAPI application state | webhook, completion callback, lifespan |
| QA loop, `qa_loop.py` | none: the streak is in the webhook body | evaluate an attempt, gate a dispatch |
| game, `tetris/` | one session in memory | start, move, rotate, drop, lock, clear, score |

A request reads the store, takes the task's lock under the provisional id
`run_pending_<event_id>`, POSTs to n8n, and renames the lock to the run id n8n
answers with. n8n later calls the completion endpoint, which releases the lock or
pauses the run until an operator's answer arrives as another webhook. An operator
may also move the card away, which cancels the run. Reconciliation asks ClickUp
about all locks and frees those whose card is in a terminal status.

*Hard*: requests, callbacks and passes interleave at every await; a request uses
rows it read several awaits ago; a run has two names; n8n may answer late, never,
twice or without a name; the process may die anywhere, and nothing but the
database survives. *Correct* means: one execution per task, one POST per event, a
lock that is given back and never taken from someone else, decisions that stay
what was answered, a QA loop that stops.

### Index, code graph and their readers

| part | state | operations |
|---|---|---|
| vector index, `src/mcp_codebase/index/`, `indexer.py` | active, previous and staging directories, the manifest `active.json` | build, refresh, watch, query, status; each a chain of file operations |
| code graph, `scripts/cgc_safe_index.py`, `cgc_owner.py`, `src/mcp_codebase/health.py` | graph, owner and lock markers, recorded signature, last error | claim the lease in three writes, index, record, release; health and the readers' gate |
| read gate, `scripts/read_code_health.py`, `read_code.py` | marker with an edit signature, a probe and a scratchpad remembered for seconds | probe, refresh, trust or refuse |
| edit and commit, `scripts/edit_code.py` | the git work tree | validate, refresh, stage, commit, push, close out by amending |
| reranker daemon, `reranker_daemon.py` | socket, pid and endpoint files, a startup lock | find, start, warm, serve, stop, die |
| stdio backend, `project_backend_server.py` | a pid file per launcher | terminate the predecessor, register, serve, remove |
| language server, `pyright_client.py` | one child process, open documents | start, restart, ask, time out, shut down |

Processes of several tools meet in plain files, with no lock or with one that is
a file as well. *Hard*: activation is a removal, a rename and a later write of
the manifest; a signature names files and not what is in them, and an untracked
directory by one line; a lock ends with its holder, and what the holder started goes on; a stale marker is
told from a live one by reading it, and acted on afterwards. *Correct* means: a
reader gets one complete generation; what is called fresh is current; one owner
per resource, named by its file.

### Plan boards

| part | state | operations |
|---|---|---|
| ClickUp sync, `src/mcp_clickup/`, `scripts/speckit_clickup_trigger.py` | a manifest of ids; the cards | ensure folder, list, parents, subtasks; save; resolve a card to a task |
| Trello sync, `src/mcp_trello/` | nothing on this side; the board | read lists, labels and cards, create or update each |

*Hard*: a create may succeed and its answer be lost; the manifest may be lost; two
syncs may run; the plan changes in between. *Correct* means: an item is created
once, a card starts the task it names, success means the board shows the plan.

### Pipeline

| part | state | operations |
|---|---|---|
| pipeline ledger, `scripts/pipeline_ledger.py` | an append-only file | validate a history, append (read, validate, write) |
| task ledger, `scripts/task_ledger.py` | an append-only file | the same, and the start gate |
| driver, `scripts/pipeline_driver.py`, `speckit_plan_step.py` and others | artifacts of a feature | decide the phase, run an agent, validate, append |
| feature lock, `scripts/pipeline_driver_state.py` | a lock file | create, take over, release |
| numbering, `speckit_specify_step.py`, `create_new_feature.py` | directories and branches | take the next number, make the directory, write the specification |
| tasking chain, `speckit_tasking_chain.py`, `..._codex_runner.py` | sessions of the agents | estimate and break down, resume a warm agent |
| implement step, `speckit_implement_step.py`, `speckit_implement_gate.py`, `speckit_closeout_task.py` | the work tree, `tasks.md`, both ledgers | pick, run an agent, commit, QA, close out, complete |

*Hard*: two appenders validate the same history and both append; an invalid line
stops everybody; an agent outlives the runner that was killed; what was decided
on one reading is written after another. *Correct* means: a ledger that validates,
one worker per task, and no approval, tick, merge or completion that its evidence
does not back.

### Not modelled

The HTTP clients, configuration, signatures and schemas of the control plane keep
no state; their failures are choices in `ControlPlane`. Section 6 says what is left
out of the parts that are modelled.

## 2. Modules

```
RunLock                              abstract: a run lock per task, events spent once
StateStore > Reconcile > ControlPlane > MCControlPlane      (StateStore implements RunLock)
PipelineLedger > Pipeline > MCPipeline
PipelineLedger, TaskLedger > Implement > MCImplement
SnapshotStore > Index > MCIndex
Sync > Trello > MCSync
WorkTree > ReadGate > EditSync
WorkTree > Codegraph;  RerankDaemon, BackendServer, Pyright, FeatureLock, Specify,
           Tasking, QaLoop, Tetris   > Tooling > MCTooling
ControlPlaneProofs  PipelineProofs  ImplementProofs  IndexProofs
SyncProofs  EditSyncProofs  ServerProofs > ToolingProofs
```

`A > B` says that B extends A. An `MC` module gives TLC its catalogue of bodies,
histories and symmetries. Definitions whose comment begins with `Mutant:` are
deliberately broken variants of the definition below them; they serve only to
show that a property notices (PROJECT.json, "mutants").

**How programs become actions.** A process (a request, a worker, a sync, a reader,
a daemon) is a record with a program counter. One action takes it from one access
of something shared to the next; local work rides along. A transaction of SQLite,
one write or rename of a file, one call of a remote service, is one step. An
append to a ledger is *three* (read, validate, write), because nothing locks the
file. A crash drops the record and leaves the files. A remote call may fail before
or after it took effect. Timestamps, signatures and ids keep only what is
compared.

**StateStore** has a variable per table; a row that does not exist is `None`. A
method is one atomic action, its result an operator evaluated in the state the
transaction starts from (`LockDecision`, `Recorded`, `RunningAs`).
`record_event_and_acquire_lock` inserts the event as `pending` and updates it in
the same transaction; `pending` is never visible there. `StoreSpec` is the store
under *any* client.

**Reconcile** has one record per pass, which lists the running locks and then
alternates between probing a task and freeing a lock by compare-and-set. A probe
sees only whether the card is terminal (`_status_implies_active`). The pass `Boot`
runs at startup, before requests are served.

**ControlPlane**: a webhook request is a process. The set `Run` names the requests
and, since a request starts at most one execution, also the executions. A body is
a record of what `process_event` reads from it (`Payload`). `read_active_run` and
`read_paused_and_branch` are two steps because they are two reads; the branch uses
the active row of the first. `callbacks` holds the completion callbacks being
handled. n8n is external: it starts, rejects, pauses and ends executions. `Env`
lists the misbehaviours a run explores, each something the code has a branch for
or its transport allows; they are explained where they are declared, in
`Reconcile`.

**QaLoop**: the control plane keeps no failure streak; it reads the streak, the
blocked flag and the unblock flag from the webhook body, and drops the streak it
computes. So the model has the card, the webhooks under way, the run in progress,
and `CardKept`, which says whether somebody outside copies each verdict to the card.
Several webhooks may be under way; `qaOutdated` is a history variable: a run was
dispatched for a body sent before the last verdict.

**PipelineLedger, TaskLedger** are the two validators, over the history a file
holds for a feature, and over what a replay of a task's events leaves. **Pipeline** adds the
driver, command lines and bootstrap over several features; `Exclusive` names the
features whose callers take turns (the turn is an outside assumption: the feature
lock does not give it, section 5). **Implement** adds the workers: an agent, the
commit, offline QA, the closeout of ledger and `tasks.md`, the gate that records the
completion. `Shell` processes use the command line instead, each the tools `ToolOf` gives it.
`task_started` can be appended from the command line past the gate, and no validator
orders tasks: `ungated` is a history variable, the tasks that were started that way.
Every append ends in the hook that indexes a closed task's commit, a
closeout's too: a strict hook that fails ends it after the line and before `tasks.md`.

**SnapshotStore** has the directories and the manifest with the single
file-system steps; **Index** strings them together into build, refresh, watch, query
and status, over a repository that is edited and committed at any time. A unit of
the index is the content it was made of. A failed refresh falls back as
`service.py` does. `NewDir` is a directory that need not be tracked: while it is not, git status
names it by a line without a suffix, which the code drops (`Hidden`), and its files are neither in a
signature nor in a drift.
Commits are of everything; a partial `git add` is in `WorkTree`.

**Sync, Trello**: the two projections share the plan and its changes; a behaviour is
of one of them (`target`). Cards are never deleted; ClickUp keeps a manifest that may
be lost, Trello recognises a card by the marker in its description.

**WorkTree** is git as the tools see it: contents, index, HEAD, and a signature of
paths and status letters. Of a `Folder` with nothing in git's index the signature has one line
(`git status --untracked-files=normal`), and its files are `Hidden`. **ReadGate** decides
whether a read trusts the index; a refresh takes the files with a suffix in
`VECTOR_SUFFIXES` (`Vector`), and drops others and directories in silence (`ToRefresh`).
**EditSync** adds `edit_code sync` with its closeout, and edits by anyone; its paths are
what git names, files or directories.
**Codegraph** is the owner lease with its markers, the index process, and health.

**RerankDaemon, BackendServer, Pyright, FeatureLock, Specify, Tasking, QaLoop, Tetris**
are components with no state in common. **Tooling** puts them and `Codegraph` in one
specification: a behaviour is one of one `part`, so that one run and one set of
theorems covers them without the product of their states. In `RerankDaemon` clients die
too (`Interrupted`): the startup lock goes with them, the daemon they spawned does not.

## 3. Runs

| run | instance | distinct states | properties |
|---|---|---|---|
| `live` | 1 task; 3 requests of build, QA and answer; n8n may refuse; fair | 142,725 | `OneLiveRun`, `CompletionReleases`, `RepliesAreOnRecord`, `RequestsAnswered`, `LocksFreed` |
| `hostile` | 1 task; 2 requests of 5 bodies; 11 misbehaviours and a crash | 732,658 | `DispatchedOnce`, `LeaksAreKnown`, `CancelMissesRenamed`, `DecisionSettled`, `RefinesRunLock` |
| `checkpoint` | 2 tasks, reconciliation, failing probes, moved cards, a crash | 300,492 | `StaleIsWhatWasProbed` |
| `pipeline` | 2 processes, 2 features, one of them exclusive, histories of 4 | 1,360,228 | `ExclusiveStaysValid`, `PoisonIsContained`, `ApprovalIsBacked` |
| `implement` | 2 workers, 2 parallel tasks, 1 attempt, 2 QA rounds | 3,636,929 | `OneWorkerPerTask`, `MarkedIsClosed`, `CompletedIsClosed`, `PayloadIsCommit` |
| `tasks` | 2 shells, 2 tasks, 13 events | 2,453,546 | `OrderIsKept`, `MergedIsBacked`, `ClosedIsProven` |
| `index` | 1 writer, 1 reader, 2 files of one directory, 2 contents, 4 generations, 2 mishaps | 877,430 | `ReadersSeeWhole`, `FreshIsCurrent`, `StagingIsBounded`, `RefreshIsRebuild` |
| `index_watch` | 1 watcher, 2 files, one in a new directory; fair | 20,054 | `CatchesUp` |
| `sync` | 1 sync at a time, 2 groups, tasks and titles, 8 cards, 2 edits, 1 mishap | 898,236 | `StartsNamedTask`, `SettledIsFaithful`, `CardsAreBounded` |
| `edit_sync` | a process that reads and syncs in turn, an index hook, 2 files of one directory, one of them `.yaml`, 2 changes, 2 calls | 2,033,411 | `FirstEditIsRead`, `CommitIsWhatWasChecked` |
| `tooling` | the nine parts of `Tooling` | 2,119,778 | `LateRunsWait`, `OneDaemon`, `OneServerPerLauncher`, `OneLanguageServer`, `OneFeatureOwner`, `FeaturesAreOwn`, `WarmAgentsAreOwn`, `CurrentBodiesEscalate`, `CellsAddUp` |
| `early_callback` | 1 request | (a violation) | `CompletionReleases` |

What they show, beside each property's own comment:

- `live`: with n8n and ClickUp well behaved, requests, callbacks and an operator's
  answer never leave a task with two executions, a finished run with a lock or a
  paused row, or a reply that differs from the record; every request is answered,
  and every lock is given back.
- `hostile`: with nothing well behaved the store's own promises still hold.
  `LeaksAreKnown` passes and still documents two leaks: after the lock was taken, "no
  route for the workflow type" (`service.py:311`) and "schema mismatch while writing
  the QA gate's refusal" (`service.py:347`) return without releasing it. The property
  says that beside a crash and an unnamed execution these are the only ones.
  `CancelMissesRenamed` likewise: a cancellation leaves the run it saw its lock only
  where a response named that run between the read and the release.
- `checkpoint`: a lock goes stale only in a pass that listed and probed it.
- `pipeline`: turns keep a history valid; where callers do not take turns, a history
  may become invalid, and then at most one more entry per other process gets in;
  a plan is approved only while `plan.md` is a completed plan.
- `implement`, `tasks`: two workers do not work on one task although both may pass
  the gate and write their start, since each reads the ledger again; ticks and the
  completion follow the ledger, and the protocol's evidence is there. In `tasks` both shells
  have the trigger, so that two starts through the gate cross, and one task may be
  started past the gate: `OrderIsKept` is about the others, and is false of that one.
- `index`, `index_watch`: no query is answered from half a snapshot, with one writer; what is called up
  to date is, for the clean files git names and a snapshot that the stamps belong to (files of
  an untracked directory are excepted, section 5, and so is what a crash before the manifest leaves); staging directories do not pile
  up; a refresh that is given every file that changed equals a rebuild; a reported
  change gets into the index.
- `sync`: one item per name and place however often calls fail; a card starts the
  task it bears; success means the board shows the plan.
- `edit_sync`: the first edit of a clean file that git names reaches its readers, when its suffix is one
  the refresh takes or the refresh is not waited for; what an undisturbed run
  commits is in its scope and as it was validated, and the index has it if the suffix allows
  (section 5 has `.yaml` and untracked directories).
- `tooling`: one owner (daemon, server, child, lease, number, session) where the
  steps of two contenders did not collide. `raced`, `slipped`, `crossed`, `mixed` and `calm` are
  history variables which say whether they did; section 5 has what happens then. `calm` ends
  with a timeout, a stop, or a client that dies while the daemon it waits for has no pid file. The QA
  loop stops at its threshold exactly, until a run is dispatched for an outdated body.
- `early_callback` shows a bug (section 5).

`prior_lost`, `lost_response`, `cancel_race`, `qa_stale` and `stale_move` are
configurations of the same modules that reach the other findings about
the index and the control plane; they are kept to reproduce them.

**Bounds.** `Run` bounds requests and executions and `MaxCrashes` crashes. A property of the
control plane is about two or three parties: two requests for one lock, a request
and a callback, a request and a pass. Two requests reach all of them, three where a
pause, an answer and a second dispatch meet. A second task matters only to
reconciliation, which frees the locks of all tasks. Redelivery is a second request
with the same body. The others: `MaxLog` (length of a history: a start history of
two or three events and what one or two callers add), `MaxAttempt` (fixes of a task) and `QaRetries`
(`MAX_QA_RETRIES`, 2 for the code's 3), `MaxMishaps` (in `Index` edits, commits and
crashes together, `mishaps + head`: an edit with its commit, a second edit or a crash,
3 in `index_watch`; in `Sync` failed calls,
deaths and lost manifests), `Coll` (generations of the
index: more than can be in use at once; a name nobody holds is used again), `MaxStaging` (`_MAX_STAGING_DIRS`, smaller
than in the code; any number in the theorem), `MaxItems`, `MaxEdits` (cards and changes of the
plan: two changes move a task there and back), `MaxChanges`, `MaxOps`,
`MaxCalls` (edits, git operations and tool calls; the reader's and the sync's refreshes meet
those of the hook, which are the same steps, and not each other), `Folder`, `NewDir`, `Vector` (one directory, untracked at
first or tracked, and one file of each kind of suffix), `Attempts`, `MaxKills`, `MaxSpoils`,
`MaxRestarts`, `MaxDeaths`, `MaxLapses`, `MaxRounds`, `MaxSessions`, `MaxNumber`
(for each part of `Tooling`, enough for a takeover and for one after it), `Queue` and `MaxFailed` (QA
webhooks under way, three so that two wait behind a run, and failures in a row), `Width` and `Height` (a board on which full
rows and the end occur). The theorems have none of these restrictions
unless section 4 says so.

With its requests, calls or edits used up a model stops: hence `CHECK_DEADLOCK FALSE`
in those runs and there only (`pipeline`, `implement`, `tasks`, `index` and `edit_sync` never stop, and
are checked). Symmetry is used only in runs of safety properties,
over sets no definition distinguishes.

**Fairness.** `ControlPlane!FairSpec`, used by `live`: weak fairness of each request's and
each pass's steps, because asyncio runs every task that is ready and what a request
waits for is bounded by `request_timeout_seconds` or SQLite's busy timeout; of an
execution's end and of the end of a pause, because n8n owns the timeout of a pause and
reports `timed_out`; of handling a run's callbacks, because n8n repeats a callback
until it is answered. Nothing obliges an operator or ClickUp to act. `live` has no
misbehaviour but refusals because the others make `LocksFreed` false in known
ways: a lost callback or an unnamed run leaves the lock to reconciliation.
`Index!FairSpec`, used by `index_watch`: weak fairness of the observer thread and of each
process's own steps; nothing obliges anyone to edit.

## 4. Proofs

All theorems are for every value of the constants: any number of tasks, events,
requests, workers, files, syncs and so on, every catalogue and every bound, every subset of
the misbehaviours and crashes wherever they are modelled, unless a
hypothesis below says otherwise. They rest on the assumptions named in the modules
(`ASSUME ...`), which TLC evaluates in the runs, and on nothing else. Every safety and
every action property of a passing run is a theorem, the refinement too; the three
liveness properties `RequestsAnswered`, `LocksFreed` and `CatchesUp` are not.

### ControlPlaneProofs

- `StoreTypeCorrect`, `LocksTraceToEvents`, `StoreImplementsRunLock`, about `StoreSpec`, any
  client of the store. The inductive invariant is `StoreInv`: types, and every lock row
  was taken by a recorded event of its task. A method maps to `Acquire`, `Spend`,
  `Release` of `RunLock` or to a stutter: a rename or an update of a decision changes
  neither the holder nor the spent events.
- `TypeCorrect` for `Spec`. `TypeOK` is not inductive alone: what a step writes depends on
  what the request's variables are at its program counter. `Inv == TypeOK /\
  LockTracesToEvent /\ Attached` adds that, per program counter, for requests, passes
  and callbacks.
- `UsesStore`: every step of the control plane is a method of the store or leaves the
  tables alone. With it `ControlPlaneLocksTrace` and `ControlPlaneImplementsRunLock` follow from
  the store's theorems.
- `SentOnce` (`DispatchedOnce`), by `OnceInv`: call *senders* the requests that have POSTed or
  whose next step POSTs. The events of senders are recorded and no two senders
  share an event. A request becomes a sender only in the step that records its event,
  which fails if the event was recorded before.
- `LeaksAreTheKnownOnes` (`LeaksAreKnown`). `OwnInv` says who owns an event: a request between
  its record and its answer is the only one to write that event's row, and the row is as it left it. `LeakInv` accounts for every lock under a provisional id: a request
  is still at work on its event, or went by one of the exits named.
- `DecisionsSettle`, `StaleLocksWereProbed`: action properties, from `Inv` and `OwnInv`, one
  case per action that writes the tables.
- `CancellationsMissRenamedOnly` (`CancelMissesRenamed`), with every misbehaviour and crash let in.
  The property is not inductive: that a release finds another id in the lock proves a
  rename only if an id once read never becomes the lock's again. `SawInv` says so: a
  row's id is provisional or that of a run whose response was handled (`Tied`), a request
  that has sent nothing has named nothing, and a lock never goes back to the provisional
  id it was no longer read under (`NotBefore`).
- `CalmHasOneLiveRun`, `CalmCompletionReleases`, `CalmRepliesAreOnRecord` (`OneLiveRun`,
  `CompletionReleases`, `RepliesAreOnRecord`) under the hypothesis `Calm`: n8n may refuse work,
  leave its executions unnamed, carry an unroutable type, lose callbacks, and either repeat
  them or send them without a run id; ClickUp may fail, operators may move cards; there is no
  checkpoint, no crash and no body that cancels. `live` is calm. The hypothesis is as wide
  as it can be: TLC violates one of the three with each thing it excludes (the comment
  above `Calm` says which with what). `CalmInv` rests on one notion, the *owner* of a lock (`Owns`):
  a run whose request works on the lock, whose execution is alive, or whose end was
  told without a run id and has still to free the lock. A task has at most one owner, and is
  locked while it has one; that is `OneLiveRun`. Under which id the lock is does not matter to an
  owner, so an unnamed execution is no exception: its provisional lock stays when it
  has ended and nobody owns it. A callback with a run id that finds its own lock finds a task
  without owner; one without a run id is itself an owner until it has released. A run
  that has reported is `Over` and gets neither lock nor paused row back. `RecordInv` follows the row
  of a request's event to its answer.

### PipelineProofs, ImplementProofs

- `ExclusiveValid`, `PoisonContained`, `ApprovalBacked`, by `PipelineInv`: callers of an exclusive
  feature are one at a time between reading and writing (`TakeTurns`); what an appender is
  about to write was validated against what is there, if it is exclusive (`WritesValid`);
  entries after an invalid one are paid for by processes that had validated before
  (`LateBound`); a plan that was validated alone is unchanged (`Backed`).
- `OneWorkerOnly`, `TicksAreBacked`, `CompletionIsBacked`, `PayloadIsWhatWasCommitted`,
  `OrderKept`, `MergeIsBacked`, `CloseIsProven`. Every action is first shown to be one of
  fifteen kinds of move (`StepOf`), and `ImplementInv` is preserved kind by kind: while the ledger
  is valid who is at work owns the task, and it was read again after the start (`Owned`,
  `OnePerTask`), a copy of
  `tasks.md` that is about to be written ticks closed tasks only (`TicksBacked`), the completion is
  about to be written only when all is closed (`Completing`); `Waits`, `LedgerLived` and
  `Handed` are what the replay of a valid ledger says of the order, of the events and of the
  evidence of a task. Used throughout: a task that is closed stays closed. `CliEvent` is
  any set of events, `task_started` among them; `OrderKept` excepts the tasks in `ungated`.

### IndexProofs

- `FreshCurrent`, `StagingBounded`, `RefreshRebuilds` for any number of writers, and any `NewDir`: metadata that
  was stamped is truthful about the files git named in the tree it was stamped on (`AllTruthful`); every
  staging directory was made by a writer that had made room for it (`StagedBound`, by
  counting makers and directories).
- `UncrossedReadsWhole` (`ReadersSeeWhole`) for any number of writers, as long as none comes to
  retire the active snapshot while the refresh of another one copies it (`Uncrossed`): that
  refresh may copy what is being moved, and TLC shows it. `Whole` says that what is copied is what is active, and
  that what a writer holds is complete. `OneWriterReadsWhole` is the corollary
  for a single writer, the case of the run `index`.

### SyncProofs

`CardsNotDoubled` (`CardsAreBounded`), `TheCardNamesTheTask`, `SuccessIsFaithful`, for any number of
concurrent syncs. `BoardsInv`: the manifest and the local state of a sync name
cards that exist and bear their key (`HonestInv`); the cards of one
name in one place and the syncs that looked for one and found none are together at most
as many as there are syncs (`TwinInv`, with the library's facts on cardinality); a sync that was not disturbed
knows what it has done (`AloneInv`, `DoneInv`, `PlanInv`, `SettledInv`); `TrelloInv` likewise for Trello.

### EditSyncProofs

`FirstEditReachesReads`, `CommitIsValidated`, for any `Folder` and any `Vector`. `EditInv`: a marker made at the present HEAD
vouches for the files it does not name: one that holds what HEAD holds has been taken into the index
(`MarkerInv`); a read at each of its steps knows what that gives it (`ReadOK`); what an undisturbed sync has validated, staged and indexed is the
same content (`SyncOK`).

### ServerProofs, ToolingProofs

- `DaemonIsOne` (clients die anywhere, with the exception stated in `OneDaemon`), `ServerIsOne`, `LanguageServerIsOne`, `FeatureOwnerIsOne`, `FeaturesKept`,
  `WarmAgentsKept`: the property together with what each process knows at each program counter, and that no
  other is in the same critical place (`DaemonInv`, `ServerInv`, `PyrightInv`, `LockInv`,
  `SpecifyInv`, `TaskingInv`). They are proved over each part's own next-state relation and
  carried to `Tooling`, where the other parts stutter.
- `EscalationIsExact` (`CurrentBodiesEscalate`) with `CardKept`, for any number of webhooks under
  way. `QaInv`: until an outdated body is dispatched, the card, the verdict or the run in
  progress tells the failures there were (`Tells`), and a body blocks the task if and only if
  it has the failures for it (`Escalated`).
- `CellsOfTheGameAddUp` (`CellsAddUp`) for a board of any size and any queue of pieces. The code
  clears rows by filtering and padding the board; the model says where each cell falls, so
  the proof needs no induction over rows: `Cleared` is the image of the cells that stay under a
  one-to-one fall (`ClearedIs`, `FallenApart`, `ClearedCells`), and a placed piece covers four cells, in each of the 28 orientations (`PieceCells`).
- `LateIndexRunsWait` (`LateRunsWait`) with `TwoProcesses`: `GraphInv` says, for each pair, that
  the one which saw the other's lease waits for it (`WaitsFor`). With three the property
  is false: an empty marker counts as stale, and a third process frees the markers of
  the second while it fills them. TLC shows it.

### Only model-checked

The three liveness properties, which are out of the prover's reach together with ENABLED.
What `Calm`, `Uncrossed` and `TwoProcesses` exclude is no matter of reach: there TLC refutes the
property. `CardKept` and the turns at an `Exclusive` feature are assumptions on people and callers; without them
section 5 has what happens.

## 5. Disagreements with the code

PROJECT.json, "findings", quotes the line of a document, docstring or test each of
these contradicts. The property named is defined beside the passing ones, and is not true.

| where | property | what happens |
|---|---|---|
| `service.py:385` | `OneLiveRun` | a dispatch whose response is lost frees the lock; the next event starts a second execution |
| `app.py:383` | `CompletionReleases` | a callback handled before the lock was renamed frees nothing; the finished run then keeps the lock |
| `service.py:765` | `StaleEventsIgnored` | an old status change cancels a newer run: cancel and resume make no staleness check |
| `service.py:790` | `CancelReleases` | a cancellation that read the provisional id frees nothing, and says it cancelled (`CancelMissesRenamed`: it happens in no other way) |
| `service.py:514` | `EscalatesAtThreshold` | with nobody copying verdicts to the card the QA loop never stops; with somebody, a run dispatched for a body that waited behind another run counts from an old streak |
| `service.py:546` | `RepliesAreOnRecord` | another task's checkpoint frees a QA run's lock after the card moved to Done; the decision is rolled back, the answer is not |
| `speckit_implement_step.py:612` | `EnvelopeAlways` | a call can end without its envelope |
| `speckit_implement_gate.py:390` | `CompletedOnce` | two workers both record the completion |
| `pipeline_driver.py:1339` | `EmittedOnce` | two drivers both append `plan_approved` |
| `chroma.py:684` | `PriorStaysQueryable` | a crash inside activation leaves no snapshot to query |
| `mcp_clickup/sync_engine.py:611` | `SyncedIsCurrent` | the subtask of a task that changed its story keeps its old title |
| `speckit_clickup_trigger.py:332` | `OnlyReadyStarts` | a card moved to done requests a start as well |
| `mcp_trello/sync_engine.py:78` | `SyncIsIdempotent` | a card in a list that is not read is made again |
| `read_code.py:1332` | `AnswersAreCurrent` | a second edit of a modified file does not change the signature |
| `edit_code.py:720` | `ClosedIsOnBranch` | the closeout amends away the commit it has just recorded |
| `cgc_owner.py:241` | `OneWriter` | two index runs write one database |
| `health.py:112` | `FailureStaysVisible` | a failure of another kind removes the last error |
| `cgc_safe_index.py:109` | `HealthyIsCurrent` | a file edited outside the scope counts as fresh |
| `reranker_daemon.py:97` | `ServingIsTracked` | a daemon that ends removes its successor's files |
| `project_backend_server.py:390` | `ServersAreTracked` | two backends that start at once: one is untracked |
| `pipeline_driver_state.py:264` | `FeatureIsAlone` | two contenders both take a stale lock over |
| `speckit_tasking_codex_runner.py:103` | `AgentsAreModeSpecific` | another run's session is taken for one's own |
| `pyright_client.py:228` | `ShutdownIsFinal` | a restart under way outlives the shutdown |
| `tetris/engine.py:107` | `OverWhenBarred` | the game ends when the queue of pieces is used up |
| `create_new_feature.py:379` | `OnePerPrefix` | two features get one number |
| `hook_refresh_indexes.py:40` | `CommitIsIndexed` | the refresh skips `.yaml`, `.yml` and directories and succeeds; they are committed unindexed |
| `index/service.py:441` | `UpToDateIsCurrent` | what changes in an untracked directory leaves the status up to date |
| `read_code.py:731` | `LaunchesAreSerial` | the startup lock ends with its client; the next one starts a second daemon |

An order between tasks that were started by a direct append is nowhere promised, so that its
absence is no disagreement; `OrderIsKept` excepts those tasks.

Only `early_callback` is also kept as a run that expects its violation; the passing
properties of the same components say what holds where these do not strike.

## 6. What is left out

- Control plane: SQLite errors and unexpected exceptions that end one request half-way (`crash`
  ends all of them); the content of comments, prompts and reports; signature checks and
  parsing; the exact status names. `DispatchCancelledError` never occurs (no caller passes a
  `cancel_event`); `reset_failures_for_manual_unblock` has no caller. `set_task_status` and
  the comment after it are one step; a failure of one of them is a choice in that step.
  More than one server process: the deployment has one.
- Index: embedding, ranking, parsing into units; a commit of part of the changes (every commit
  takes all of them in `Index`). Directories in directories: git names the outermost untracked one, which
  is what `Folder` and `NewDir` stand for. Code graph: the database itself, and what `cgc`
  does but for its end. Read tools: anchors, formatting, the guards that check one input.
- Daemons: the answers; launchd; the embedding of the model.
- Boards: descriptions, checklists, rate limits, the three routing fields rewritten at each visit. A
  listing is assumed to show every card: `composio_adapter.py:127-144` asks for one page
  and leaves closed cards out, and a card that it misses would be made again.
- Pipeline: contracts and the rendering of envelopes, the research and checklist
  steps, what an agent writes (a choice among complete, incomplete, none); a
  torn last line of a ledger; commands that only print; the heartbeat of the feature lock, which nothing calls.
- End-to-end shell scripts, templates, update of agent context, documentation tools.

## 7. What is next

1. Lemmas on what the validators accept (a closed task admits no start, a completed plan no second
   plan), for the ledgers as data and not only as reached by the callers.
2. `StaleEventsIgnored` for the dispatch path, where the store does check the time.
3. What holds of locks and runs after a crash: `OneLiveRun` fails there, but only for runs whose
   request died in it.
