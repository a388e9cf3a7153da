# Patchwright: TLA+ models and proofs

Patchwright is a local control plane for one operator: a SwiftUI application
talks over a Unix socket to a Rust engine, which keeps tasks in SQLite, runs
Codex sessions in git worktrees and writes to GitHub after exact approvals; a
relay accepts GitHub webhooks. This directory models the parts of the engine
whose correctness depends on order, concurrency, lost answers or crashes. TLC
checks the models on small instances; TLAPS proves the theorems for every value
of the constants.

## The system

| Component | State | Operations | Hard behaviour | What makes it correct |
| --- | --- | --- | --- | --- |
| Task lifecycle (`core/domain.rs`) | `Task.state`, interruption with its resume state | `transition`, `interrupt`, `resume` | callers work on copies | edges only; a terminal task is rewritten by nothing but a copy that is older |
| Delivery (`engine/delivery.rs`, `store.rs`, `rpc.rs`) | tables `tasks`, `approvals`, `deliveries` | `delivery.preview`, `.approve`, `.execute`, `.status`, `task.reconcileGitHub` | the store lock is released for the GitHub call; lost answers; crash in between | a write at most once; no gate skipped; approvals of merges used once |
| GitHub mutation client (`relay/mutations.rs`) | none | one typed mutation | which error means "not written" | a refusal is definite |
| Sync jobs (`engine/rpc.rs`, `jobs.rs`) | table `jobs`, registry of watch channels | `github.sync.start`, `.status`, `.cancel`, worker, shutdown, recovery | compare-and-set from older readings | single flight; outcome kept; every job settles |
| Preparation (`engine/preparation.rs`, `worktree.rs`) | table `preparation_claims`, clones and worktrees on disk | `task.preparation.*`, `task.prepare` | long unlocked section, git fails half-way, crash in between | approval used once; one preparation per task; a prepared task has its worktree |
| Planning and verification (`planning.rs`, `verification.rs`) | tasks, contracts, evidence | `task.plan`, `task.readyForDelivery` | optimistic recheck, several transactions | no stale result is stored |
| Webhooks (`relay/webhook.rs`, `store.rs`) | relay inbox with the state of each row, engine table `github_webhook_deliveries` | record, forward, defer, prune; ingest | at-least-once forwarding, late answers, retention, full queue, stops of both sides | nothing accepted is lost; one wake per delivery; the outbox drains |
| Monitors (`monitoring.rs`, `rpc.rs`) | table `monitors` | start, observe, wake, cancel | evidence read piecewise; two monitors of one task; two transactions | a success rests on the right commit and moves the task once; a finding ends approvals |
| Codex service (`codex/service.rs`, `process.rs`, `protocol.rs`) | processes, sessions, runtime approvals, jobs | start, turns, events, approvals, interrupt, crash, shutdown | messages in a pipe, timeouts, several sections per operation | task, job and process agree; an answer reaches who asked |
| Ingestion and snapshots (`github.rs`, `store.rs`) | snapshot tables | sync, refresh, replace | read request by request, without a lock, within a budget | what is derived follows from what was read |
| Server (`rpc.rs`, `lease.rs`) | lease, socket, connections | start, accept, dispatch, shutdown | start and stop in many steps on the file system | one engine that serves per database; reachable while it serves; no socket left but by a failure |
| Policy, actions, contract (`core`) | none | `authorize`, validation, fingerprints | class tables | exact approvals only |
| Queue, sorting, instructions (`core`) | none | pure functions | ordering, ties | match a reference definition |
| App authentication, tokens (`relay`) | token cache | tokens per repository | expiry | never an expired token |
| Application (`Sources`) | view state | RPC calls, polling | polls a job until it is terminal | the polling ends |

Connections run concurrently. They share the store behind one mutex, Codex
behind an async mutex and the registry of sync jobs behind another; each
critical section of the store is one transaction or a few. Everything that
reads under one section and writes under a later one is a hazard, and so is
every crash between two sections. `PROJECT.json` lists the hazards by line.

## Modules

| Module | Role |
| --- | --- |
| `TaskLifecycle` | The lifecycle of `domain.rs` as constant-level operators. |
| `Delivery` | Approval-gated writes: workers in `delivery.execute`, reconciliation, monitors and Codex interruptions as far as they move a task past its delivery gate, GitHub, people, restarts. |
| `RemoteWrite` | The abstract promise of one idempotency key: a write lands at most once, a refusal is definite. |
| `SyncJob` | `github.sync.start` and `.cancel`, the background worker, shutdown, crash, recovery. |
| `Preparation` | `task.plan`, the approval of a preparation and `task.prepare`, with the clone and the worktrees on disk, restarts at any point. |
| `WebhookRelay` | From GitHub's delivery to a woken monitor: the relay's inbox and forwarder, the call, the engine's deduplication. |
| `Monitor` | Synchronizations of a pull request that moves, and monitors that decide on their snapshots. |
| `Implementation` | The Codex service and its app-servers, and the verification of a worktree, up to the delivery gate. |
| `Server` | Start and stop of engines on one database and one socket path. |
| `Triage` | Snapshots read request by request within a budget, what is derived from them, and the queue. |
| `Policy`, `Sorting` | The rules of `policy.rs` and the order of `sorting.rs`, as operators. |
| `MC...` (one for each module that has runs) | Finite instances for TLC. |
| `Delivery_proofs`, `SyncJob_proofs`, `Preparation_proofs`, `WebhookRelay_proofs`, `Monitor_proofs`, `Implementation_proofs`, `Server_proofs` | Theorems and proofs about the module they are named for; `Delivery_proofs` also has the refinement of `RemoteWrite`. |
| `Rules_proofs` | Theorems and proofs about `Policy`, `Sorting` and `Triage`. |

### Delivery

One action stands for one critical section of the store or one step of the
GitHub call. `Claim` is `authorize_execution` with
`claim_delivery_with_task_event`; `Send`, `Serve`, `Refuse` and `LoseRequest`
are `execute_github_action` against GitHub; `RecordSuccess`,
`RecordAmbiguous` and `RecordFailure` are the three branches of
`delivery_execute`. `FetchSnapshot` and the three `Reconcile...` actions are
`task.reconcileGitHub`, whose snapshot is read without the lock.
`CodexLoad` and `CodexSave` are the two sections of `CodexService::interrupt`
(and of `record_crash`). `HumanActs` lets a person merge, close and reopen, so
a snapshot of a closed issue may be wrong by the time it is recorded; `shown`
is history: items whose outcome GitHub has shown at some time.

Abstractions: an action is its idempotency key (the hash of remote, action and
precondition), so a preview is fresh exactly when the pair of task and action is
in `Permitted` and the task is at the gate of the action's class. Expiry and
invalidation of an approval are one status, `dead`. GitHub is external: a write
lands or not, its answer arrives or not, and a request may be processed after
its connection broke (`orphans`). `LostReply` separates a mutation, whose lost
answer is ambiguous, from `git push`, whose failure is recorded as a refusal.
`Init` starts where a task has reached `awaitingDeliveryApproval`; `Preparation`
has the beginning of the lifecycle, `Implementation` what lies between, and
`Monitor` the way to the merge gate in detail.

### RemoteWrite

For each key whose refusals are definite (comments, reviews, closing), the pair
"recorded phase, written on GitHub" behaves as one at-most-once write.
`Delivery` maps `row` and `effects` to it; `WritePromise` is that refinement. A
merge is outside the mapping because reconciliation may reopen it after a
stale snapshot (see the divergences), a push because repeating it is harmless.

### SyncJob

`Begin`, `Synchronize`, `ReadBack`, `Decide`, `WriteOutcome` and `Leave` are
the sections of `run_github_sync_job`; `CancelRead`, `CancelWrite` and
`CancelSignal` those of `github_sync_cancel`. `TransitionJob` is the
compare-and-set of the store: a refusal changes nothing, and the code ignores
it. Shutdown signals all jobs under one lock and empties the registry under
another; a restart is possible in every state and recovers what was running.

### Preparation

A caller is a connection inside `task.plan` or `task.prepare`; `pc` is the
section it is in. `PlanLoad`, `Assess`, `PlanLock` and `PlanCommit` are the
sections of `task_plan`; its last four transactions share one lock (`holder`)
but not one transaction, so the engine may stop between them. `Authorize`
claims (`claim_preparation`), `PrepareLoad` is the locked beginning of
`task_prepare_claimed`, `Save` and `Complete` the two transactions at its end.
The actions from `LookAtSource` to `RemoveClone` are `clone_repository`, which
both calls reach without the store lock; `InspectTree` and `AddTree` to
`TreeBreaks` are the worktree. A directory on disk is what `inspect`, `is_dir`
and `exists` tell apart: a clone is absent, partial or present; of a worktree
there may be only the branch, a directory that is none, or a checkout that was
not finished.

`Restart` stops the engine at any point: `claim` is recovered, a git process
that was running has left any outcome of its own. `lost` is a history variable:
has some call removed a completed clone (see the divergences)? Abstractions: a lifecycle
state of this part is entered once, so comparing a task or a preview with an
earlier one is comparing the state; errors of SQLite and a `remove_dir_all`
that fails half-way are left out; a worktree that does not match for another
reason is `GiveUp`, which may happen at any time without a trace.

### WebhookRelay

`row` is the relay's table, `older` the order of its column `received_at`, `due`
stands for `next_attempt_at`.
`Post` is `RelayState::record`, which prunes, looks for the delivery and counts
in one transaction; `Poll`, `Send`, `Answer`, `TimeOut`, `Mark` and `Defer` are
the forwarder with the head of its batch (`pc`, `batch`). `Handle` and
`HandleLate` are `ingest_github_webhook` for a request whose answer is awaited
or not. `RelayRestart`, `EngineStop` and `EngineStart` stop either side between
any two steps. Abstractions: a back-off is over at any time (`BackoffEnds`), the
three days of retention may end for any oldest part of the forwarded rows, and
a verified event is an id with the repository and number it names.

### Monitor

`ReadDetail`, `ReadReviews`, `ReadChecks` and `StoreSnapshot` are the requests
of a synchronization that a decision rests on; between them `Change` moves the
pull request. `Verdict` is the decision of `MonitorRecord::observe`, in its
order. `Observe` is `monitor_observe`, with the stop after its first
transaction. `ApproveMerge`, `Merge` and `Resume` are what other components do
to the task; `InterruptLoad` and `InterruptSave` are the two sections of an
interruption or of the record of a crash, as in `Delivery`. The lists of reviews
and check runs are cut to the budget of the snapshot (`github.rs:16`): a request
reads any part of what is there, and `review_decision` and `ci_health` judge
that part. Observations of a network that is down, a rate limit
or revoked access, the times of the next observation and evidence submitted by
a person are left out; `green` and `approved` are history, and so is `undone`:
the monitors whose success the save of an interruption has overwritten.

### Implementation

One mutex orders the calls of the Codex service: `pc` is where the call that
holds it is, `active` the process in its table, `out` the pipe of the newest
app-server. `StartLoad` to `Activate` are `codex.start`; `Read`, `CutLine` and
`ReadFails` what `codex.events` and `codex.approvals` do with a message;
`CrashLoad` and `CrashSave` the record of a crash; `AskTurn` to `TurnFails`
`codex.turn.start`; `Answer` and `SaveDecision` the resolution of an approval;
`Interrupt`, `Stop` and `SaveStopped` pause and cancel. The `Verify...` actions
are the sections of `verify_task_for_delivery`, which does not take the mutex.
The app-server is external and may answer, ask, report the end of a turn with
any status (`Ends`) or exit at any time. `Edit` changes, commits, resets or
checks out, also while commands of a verification run; `moved` holds the
verifications whose worktree is not, or was not at the end of their commands, as
the commands had found it.
`touched` stands for the comparison of the whole task before the gate is
opened: it holds the verifications whose copy is no longer the stored one. A
task at `completed` stands for all that `Delivery` does.

The two saves of an interruption (`CrashSave` at `crashLoaded`, `SaveStopped` at
`stopped`) write a copy that was loaded under an earlier lock, so they may take a
task from any state to `failed`, `paused` or `cancelled`; `domain.rs:205`
promises that `interrupt` acts on a nonterminal task while retaining its
resumable state, which holds of the copy only. `GateIsVerified` therefore allows
an interruption at the gate, whatever the copy was.

### Server

A step is one call on the file system or the lock: `Acquire` (flock), `Look`,
`Probe`, `RemoveStale`, `Bind` and `Guard` at the start; `Shutdown`, `Release`,
`Unguard`, `Unlink` and `Close` in the order in which the parameters of
`serve_with_state` are dropped. A socket is its inode. Each step of the start may
fail (`StartFails`), also after the bind, and so may the removal of a socket
(`Remove`, `Unlink`). `busy` holds the engines with a handler or a worker that
may write: the shutdown waits for the connections for two seconds and for the
workers not at all, so `Release` may come before `WorkEnds`, and the process
leaves (`Leave`) when its runtime has ended them. An engine is killed at any
point (`Crash`), which frees its lock and leaves its socket. `failed` is
history: the sockets of an engine that crashed or whose start or removal failed.

### Triage

`ListPulls`, `ReadReviews` and `ReadChecks` are requests of
`repository_snapshot` with their budgets (`PerPull`, `AtMost`), `StoreSnapshot`
derives `ci_health`, `review_decision` and the count of failing checks, and
`Assess` is `githubQueueAssess`: validation, tier, score, preset, dependencies,
order and the replaced table. `basis` (what an assessment saw) and the field
`all` (the list that GitHub had) are history. GitHub's contents change between
any two requests within `MaxChanges`. Time is the set of candidates that have
turned 30 days old.

### Policy and Sorting

Pure rules as constant-level operators, which no run needs and `Rules_proofs`
proves about. `Policy` has the two tables of approval classes, what
`Approval::new` admits, `Policy::authorize`, and the capability and permission of
each GitHub action next to those the installation token is asked for; that the
tables agree is nowhere checked by the code. `Sorting` is the comparison that
`sort_pull_requests` and `sort_repositories` hand to `sort_by`, which may panic
on one that is no total order.

## Runs

Passing runs:

| Run | Instance | Shows |
| --- | --- | --- |
| `merge` | 2 tasks of one pull request, actions review, merge, enqueue, 2 workers, 1 approval per pair | `TypeOK`, `CompletedIsRemote`, `MergeApprovalSingleUse`, `SucceededIsFinal` without a Codex session |
| `codex` | 1 task with a Codex session, review and merge, 2 workers, 2 approvals per pair | `ExecutionHoldsClaim`, `AtMostOneEffect`, `MergeFollowsGates`, `WritePromise`, `OnlyStaleCopyOverwrites` |
| `issue` | 1 issue that may be reopened, close and push, a Codex session | `CompletedIsRemote` for the actions that end a task of an issue |
| `jobs` | 2 jobs, 1 canceller, shutdowns, restarts, fairness | `TypeOK`, `SingleFlight`, `AcknowledgedMeansCancelled`, `RunningHasWorker`, `OutcomeIsFinal`, `RegistryDrains` |
| `prepare` | 2 tasks of one repository that is on disk or to be cloned, 2 callers, 2 approvals of one task and 1 of the other, restarts | `TypeOK`, `PreparationIsExclusive`, `SaveIsFresh`, `ClaimsTellOutcome`, `PreparedHasTree`, `ApprovalIsSingleUse`, `LifecycleOnly` |
| `webhook` | 3 deliveries, a queue of 2, 1 forwarded row kept, batches of 2, 1 stop, fairness | `TypeOK` with the capacities, `AcceptedIsKept`, `WakesOnce`, `BatchIsPending`, `PendingIsForwarded` |
| `monitor` | 2 monitors, 2 synchronizations, 2 commits, a budget of 1 repair, 2 kinds of pull request and 1 change, 1 interruption | `OneSuccessMovesTask`, `SuccessIsEvidenced` |
| `implement` | 2 launches, 2 turns with an approval each, 1 verification, 2 commits, restarts | `ProcessIsOwned`, `RunningJobIsActive`, `AnswerReachesAsker`, `SucceededHasEnded`, `GateIsVerified` |
| `server` | 3 engines, 4 sockets | `OneEngine`, `ServesAtPath`, `StaleIsFailure` |
| `triage` | 3 pull requests of 2 repositories, a budget of 2, 2 snapshots, 2 changes | `DependencyFirst`, `ReadyIsEvidenced` |

Two workers meet in every pair of steps; two approvals of one action allow a
retry after a refusal with a fresh approval; two tasks of one pull request
share the remote item and the keys. `MaxApprovals` is the one bound that limits
the behaviours of `Delivery` (an approval is used by name, a third adds no new
case); `effects` and `uses` count to two, which is what the properties tell
apart. Jobs are never created twice, so two jobs show a predecessor and a
successor. One canceller may call again and again; what several at once may do
to the record of a job is covered by the theorems, which hold for any number. In
`Preparation` a task with two approvals has every race of two calls for it, and
two tasks meet in the clone of their repository.

In `WebhookRelay` the third delivery meets a full queue and a forwarded row
that has to go; the one stop (`MaxStops`) is the relay's or the engine's, at
any step. `MCMonitor` starts with a mergeable pull request: its head has one
passing and one failing run and no review, or it is approved and the passing run
is on the commit that may be pushed next. `MaxChanges` allows one change of it,
so every torn reading of one push, review or check occurs, with two
synchronizations that end in either order. `MaxStarts` of `Implementation`
allows a predecessor and a successor of an app-server; `MaxCommits` allows a
second commit and the way back under the commands; `MCImplementation` keeps at
most two messages unread, enough for the answer or the approval of a turn and its
end behind it. `MaxBinds` of `Server` gives each of the three engines a socket
and one a second. In `Triage` the
pull requests start as approved and passing, two changes reach every value of
the derived fields, `MaxList` exceeds the budget of a pull request by one when
two are listed, and `MaxOld` lets one candidate age; the run uses the preset
`dependencyChain`, which raises just those that `DependencyFirst` is about, and
its deadlock check is off because the bounds on changes and snapshots may end a
behaviour in which assessments are refused. Actors that the properties do not
tell apart are symmetric, except in the runs with liveness.

Runs that end in a violation of what a document, comment or test says:

| Run | Violated | What the counterexample shows |
| --- | --- | --- |
| `v_restart` | `MergingIsRecoverable` | A crash inside `delivery.execute` leaves a claimed row nobody takes on, and the task at `merging`. |
| `v_truncated` | `PassingIsComplete` | The budget leaves one check run for each of two pull requests; one whose other run is still running or failed is stored as passing. |

Divergences without a run of their own; the models have the behaviour and the
properties leave it out by the exception or hypothesis they name:

- A pause of Codex stores a stale copy of the task while its merge is at GitHub
  (`codex/service.rs:615-651`); the refusal of the merge then leaves the
  approval live (`delivery.rs:319-343` looks at the stored state), and after the
  resume it is consumed again, although `delivery.rs:341` says that a fresh
  approval is required. Run `merge` and `SingleUse` exclude it by
  `CodexTasks = {}`.
- For the same reason a task that was completed since the interruption loaded it
  is stored as interrupted, although `domain.rs:205` says that an interruption
  is of a nonterminal task. `OnlyStaleCopyOverwrites` says that this is the only
  way out of a terminal state. In `Monitor` the save may undo the success of a
  monitor, after which a second one succeeds; `OneSuccessMovesTask` says so.
- A snapshot of a closed issue may be recorded after a person has reopened the
  issue (`rpc.rs:2765-2854`): the task is completed and the issue is open.
  `CompletedIsRemote` says of an issue that it was closed at some time.
- `task.reconcileGitHub` judges an ambiguous merge by a snapshot that was
  fetched without the lock (`rpc.rs:2765-2854`). Fetched before the merge landed,
  it records "fresh GitHub reconciliation confirmed the approved merge did not
  complete" (`delivery.rs:416`) of one that did. `AtMostOneEffect` and
  `WritePromise` are about the other actions.
- `request_value` reports every status that is no success as a refusal, 5xx
  included (`mutations.rs:421-427`); an action applied before a 502 may be
  repeated. The constant `GatewayErrors` has it; the runs and theorems about
  effects assume it away.
- `turn/completed` has a status, which `persist_incoming` does not look at
  (`codex/service.rs:832-841`): the end of a turn that was interrupted or has
  failed is recorded as "Codex turn completed; verification is ready", and one
  that is read before the answer to `turn/interrupt` settles the job as succeeded
  (`codex/service.rs:691-702`). `SucceededHasEnded` is about the end of a turn.
- A verification compares the worktree before and after its commands
  (`verification.rs:91-98`). A commit, an edit or a checkout in between that is
  undone before they end is not noticed; `GateIsVerified` is about the two ends.
- `lease.rs:8` says that the lease prevents two engines from recovering and
  mutating a database at the same time. A stopping engine gives it back after a
  drain of two seconds (`rpc.rs:173-178`), while a handler that blocks or the
  worker of a synchronization (`rpc.rs:2311`) may still write. `OneEngine`
  excepts the engines that are leaving.
- An engine whose `set_permissions` or `SocketGuard::new` fails after the bind
  (`rpc.rs:216-218`), or whose guard cannot remove the file (`rpc.rs:267-269`),
  leaves its socket without a crash; the next engine removes it.
  `StaleIsFailure` names these cases.
- A cancel between the worker's reading and its write leaves a job `cancelling`
  without a worker, its outcome discarded (`rpc.rs:2417-2463`), where
  `tests/github_jobs.rs:109` waits for a terminal state; one that read the job
  as queued leaves it `running`. `RunningHasWorker` excludes signalled jobs.
- Two calls look at the destination of a clone before either starts git; the one
  git refuses removes the completed clone of the other (`worktree.rs:30-53`).
  `PreparedHasTree` excludes it by `lost`.
- A stop during `git worktree add` leaves an unfinished checkout with the right
  branch and HEAD, which the next `task.prepare` records as prepared without
  looking at `dirty` (`rpc.rs:1889-1893`). `PreparedHasTree` admits it.
- The response to a `turn/start` that timed out, or the rest of a line that the
  poll of 5 ms has cut, is refused by the decoder, and `record_crash` stores
  "Codex app-server exited unexpectedly" (`codex/service.rs:470`) of a process
  that was alive. `ProcessIsOwned` shows that it is terminated, not lost.
- As `v_restart` at `merging`, a stop between the saves of `task_plan`
  (`rpc.rs:1633-1647`) strands a task at `assessing` or `planned`, one between
  the saves of a verification (`verification.rs:107-126`) at `reviewing`, although
  `docs/production-plan.md:24` says that in-flight tasks remain recoverable.
- An older synchronization that ends later replaces a newer snapshot and counts
  as fresh (`store.rs:1149`). `SuccessIsEvidenced` says what still holds.
- A review that was dismissed is read as `reviewRequired`, so the branch
  `ApprovalDismissed` of `monitoring.rs:190` is never taken for stored
  evidence; a `commented` review erases its author's earlier request for changes
  (`github.rs:888`); a pull request without any review is queued as blocked.
- The budgets of single pull requests add up to more than the global one that
  `docs/architecture.md:72` speaks of (10 for 3 gives 4 each).
- `validate_event` of the relay does not look at the repository of a `ping`
  (`webhook.rs:794-801`), the engine refuses one whose name is malformed
  (`store.rs:1480-1492`); such a delivery would be forwarded for ever. GitHub does
  not send one; `WebhookRelay` takes it that the engine accepts what the relay
  admits, as the two validations agree on all other events.
- `docs/security.md:15` and `docs/production-plan.md:26` speak of a
  `task.cancel` call that the dispatcher (`rpc.rs:310-369`) does not have, only
  `codex.cancel`.

## Fairness

`SyncJob.FairSpec` is weakly fair to the steps of each worker and to a cancel
that has begun. The runtime polls spawned tasks, the store calls do not block
for ever, and the GitHub client has a connect and a total timeout
(`github.rs:321-322`), so a synchronization ends. Nothing is assumed of starts,
cancels, shutdowns or crashes.

`WebhookRelay.FairSpec` is weakly fair to the forwarder's own steps (a spawned
task whose calls are local), to the time-out of a call that hangs, to the end of
a back-off and to the start of a stopped engine. It is strongly fair to the
engine handling a delivery that is sent again and again, and to an answer that
could come in time again and again: without the first an engine could let every
single call time out, without the second every answer could be late, and no
retry would help. Nothing is assumed of posts or lost requests; of stops there
are finitely many. The other modules state safety only: nothing bounds the time
that git, an app-server, a verification or a person may take.

## Proofs

All proofs hold for any sets of tasks, items, actions, workers, approvals, jobs,
callers, deliveries, monitors, turns, verifications, engines and pull requests,
any capacities, budgets and bounds that satisfy the assumptions of their module.
The assumptions say that bounds are numbers, that `None` is no other value, and:

- `DeliveryAssumption`: what is permitted for a task targets the item of the
  task, and is a merge only of a pull request (`validate_action_target`,
  `delivery.rs:504`).
- `PreparationAssumption`: approvals belong to tasks.
- `WebhookAssumption`: a batch has room for a row. The number of deliveries is
  not bounded, nor how often each is posted.
- `MonitorAssumption`: there is a commit, and a monitor has a budget of at least
  one repair, as `MonitorRecord` is created with.
- `TriageAssumption`: pull requests are finitely many pairs of numbers, the
  budget is positive, and they start with contents of the modelled shape.

The type invariants of `Server`, `Implementation`, `Monitor` and `Triage` are
proved and not among the properties of a run.

| Theorem | Property | Argument |
| --- | --- | --- |
| `Delivery_proofs!TypeCorrect` | `TypeOK` | inductive |
| `ExclusiveExecution` | `ExecutionHoldsClaim` | inductive with `TypeOK`; only the holder of a claim, or an ambiguous or absent claim, changes a row |
| `SuccessIsFinal` | `SucceededIsFinal` | a worker that records holds a claim, so its row is not a success |
| `TerminalIsOverwrittenByCopies` | `OnlyStaleCopyOverwrites` | by cases: each write of a task but `CodexSave` starts from the stored state |
| `SingleUse` | `MergeApprovalSingleUse` | if `CodexTasks = {}`: a consumed live approval keeps its task at `merging` or past it (`ApprovalInv`) |
| `OneEffect` | `AtMostOneEffect` | if not `GatewayErrors`: `WriteInv` and `MergeInv` bound what is on GitHub or on the wire by the state of the row |
| `DeliveryImplementsRemoteWrite` | `WritePromise` | if not `GatewayErrors`: every step maps to a step of `RemoteWrite` or a stutter, from `WriteInv` |
| `MergesAreGated` | `MergeFollowsGates` | `GateInv`: a task at its merge gate or past it, also in a copy that an interruption holds, was monitored, and what is left of a merge in a worker, on the wire or on GitHub goes back to a consumed approval |
| `CompletedIsShown` | `CompletedIsRemote` | `LearnedInv`: an answer that was read and not yet written has had its effect, and what a snapshot confirms has been shown; a merge stays (`DoneStays`, `ReachedStays`) |
| `SyncJob_proofs!TypeCorrect` | `TypeOK` | with `Handover`: a worker that writes has a result |
| `OutcomeStays` | `OutcomeIsFinal` | what a step may do to the record of one job (`RecordStep`), with `InterruptedIsIdle` |
| `CancelIsAcknowledged` | `AcknowledgedMeansCancelled` | from `RecordStep` |
| `SyncIsSingleFlight` | `SingleFlight` | `Registered`: until the shutdown empties it, the registry holds at most one job and every worker's job |
| `RunningJobHasWorker` | `RunningHasWorker` | `Attended`: the worker of a running job has read no other state of it, and gives up only on a signal |
| `Preparation_proofs!TypeCorrect` | `TypeOK` | inductive |
| `ExclusivePreparation` | `PreparationIsExclusive` | inductive with `TypeOK`: claiming needs that no claim of the task is open, and only its holder or a restart closes one |
| `SavedCopyIsFresh` | `SaveIsFresh` | with `CommitInv`: a task at its gate is not in the hands of a call that plans, and the one that may save it holds the claim |
| `LifecycleFollowed` | `LifecycleOnly` | from `SaveIsFresh` and `CommitInv` |
| `ClaimedOnce` | `ApprovalIsSingleUse` | a claim is made where there is none; only an open one is completed |
| `ClaimsAreTrue` | `ClaimsTellOutcome` | `OutcomeInv`: after the save and before the completion the claim is open |
| `PreparedTasksHaveTrees` | `PreparedHasTree` | `TreeInv`: until a completed clone is removed (`lost`), there is no worktree without a clone, and only the one caller of a task touches its worktree |
| `WebhookRelay_proofs!TypeCorrect` | `TypeOK` | `InboxInv`: pruning leaves the retention capacity and keeps the order, an insertion finds room; the two cases (`InboxAfterPruning`, `InboxAfterInsert`) cover every change of the table |
| `AcceptedIsNeverLost` | `AcceptedIsKept` | a row leaves the pending ones only when its call was answered (`PendingStays`), and an answer means that the engine has recorded it (`BatchInv`) |
| `DeliveryWakesOnce` | `WakesOnce` | `EngineInv`: what is not on record woke nobody, and nothing leaves the record |
| `ForwarderFindsItsRow` | `BatchIsPending` | `BatchInv`: a batch is polled as distinct pending rows (their order is strict), and no step but the forwarder's own takes one of them away |
| `Monitor_proofs!TypeCorrect` | `TypeOK` of `Monitor` | inductive |
| `OneMonitorSucceeds` | `OneSuccessMovesTask` | `OneSuccessInv`: a success takes the task from monitoring to the merge gate, and only the save of the one copy that an interruption may hold leads back to where another could succeed |
| `SuccessHasEvidence` | `SuccessIsEvidenced` | `EvidenceInv`: each part of what a synchronization has read goes back to a review or a check run that was there, its checks for the head it names; storing and deciding keep it |
| `Implementation_proofs!TypeCorrect` | `TypeOK` of `Implementation` | inductive |
| `ProcessHasOwner` | `ProcessIsOwned` | `OwnerInv`: a running app-server is the newest one, and in the table or in the hands of the call that starts or stops it |
| `RunningJobHasProcess` | `RunningJobIsActive` | `JobInv` |
| `AnswersOnce` | `AnswerReachesAsker` | `PipeInv` (a request for an approval is new and in the pipe once) and `AnswerInv` (one that was answered and not recorded belongs to a process that is gone) |
| `SuccessNeedsEnd` | `SucceededHasEnded` | `TurnInv` and `PipeInv`: an interruption that has lost its turn has read its end, and an end in the pipe is of a turn that has ended |
| `GateNeedsVerification` | `GateIsVerified` | `VerifierInv` and `CopyInv` |
| `Server_proofs!TypeCorrect` | `TypeOK` of `Server` | inductive |
| `OneEngineServes` | `OneEngine` | `LeaseInv`: an engine is between `Acquire` and `Release` exactly when it holds the lock; `BusyInv`: work that is left after the release is that of an engine that is leaving |
| `ServerIsReached` | `ServesAtPath` | `PathInv` and `InodeInv`: what a starting engine has seen at the path still holds, and the guard of a stopping one removes its own socket only |
| `OnlyFailuresLeaveSockets` | `StaleIsFailure` | with `InodeInv` |
| `Rules_proofs!ClassesAgree` | | by cases on the class |
| `AllowedIsApproved` | | expanding `authorize`; the window of an approval from what `Approval::new` admits |
| `ApprovalIsForOneAction` | | from `ClassesAgree`: the class of an approval is the one its action requires |
| `ActionsAreGated` | | the tables of `github_actions.rs` and `installation.rs` against those of `policy.rs` |
| `SortIsTotal` | | lexicographic, over `KeysAreOrdered` for one key with unknown values |
| `UnknownIsLast` | | `compare_optional` does not reverse what is unknown |
| `QueueIsTotal` | | lexicographic; the number of a pull request tells it apart in its repository |
| `TriageTypeCorrect` | `TypeOK` of `Triage` | `GitHubInv`, `FetchInv`, `SnapshotInv`; the budgets from `ListedFits` (the number of newer ones tells the listed ones apart) and `PerPullFits` (the division rounds up by less than one share) |
| `DependenciesComeFirst` | `DependencyFirst` | `DecisionInv`: the stored decisions are what an assessment made of `basis`; a dependency that is blocked itself may stand behind its dependent, any other stands before; smaller in a strict order means a smaller position (`Positions`) |
| `ReadyNeedsEvidence` | `ReadyIsEvidenced` | `DecisionInv` with `IsDerived`: health and review decision are those of the stored lists, from the request to the table of decisions |

The hypotheses (`CodexTasks = {}`, no `GatewayErrors`) are those the divergences
above show to be needed. Every invariant and every action property that a passing
run checks is a theorem. `RegistryDrains` and `PendingIsForwarded` are liveness,
which needs ENABLED and is out of the prover's reach; they are model-checked
only, and so are the two properties that are violated. What a fold or a sum over
data computes is proved nowhere, as induction over data is out of reach too.
`WebhookRelay` therefore has the order of its rows as a relation (`older`) and
the position of a decision in `Triage` is a cardinality.

## Plan

1. Done: `TaskLifecycle`, `Delivery`, `RemoteWrite`, `SyncJob`, `Preparation` and their proofs.
2. Done: `WebhookRelay`, `Monitor`, `Implementation`, `Server`, `Triage` with their runs, `Policy` and `Sorting` with their theorems.
3. Done: theorems about these, and `CompletedIsRemote`, `MergeFollowsGates` and
   `RunningHasWorker`.
4. An abstract promise of the webhook path (one delivery, accepted and acted on
   once) and of the lease, as refinements; the safety part of `RegistryDrains`
   (what a shutdown leaves behind) as an invariant.

Not modelled: parsing, formatting and validation of fields (task conversion,
instruction resolution, contracts, the bodies of requests), explanations and
the preset for duplicates and the filters of the queue, sockets' framing and permits, the event
log of a session, cryptography and the cache of installation tokens, git
commands, SwiftUI, packaging.
