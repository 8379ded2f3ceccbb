# A TLA+ model of Anantham V2

Anantham V2 (`src/src/`, TypeScript) is a runtime for teams of software agents. It keeps its
state in one SQLite database in WAL mode and an append-only event log beside it. This directory
has TLA+ modules of the parts in which agents, processes and restarts meet, the TLC
configurations that check them, and proofs for TLAPS of the properties that matter most.

Contents: [1 The system](#1-the-system) · [2 Modules](#2-the-modules-and-the-code) ·
[3 Runs](#3-runs-bounds-and-fairness) · [4 Disagreements](#4-where-the-code-and-its-documents-disagree) ·
[5 Proofs](#5-proofs) · [6 Limits](#6-what-is-not-modelled) · [7 Plan](#7-plan)

To run: `tlc -config TaskLeaseShared.cfg MCTaskLease`, `tlapm TaskLeaseProofs.tla`.

## 1 The system

Node runs JavaScript on one thread and `node:sqlite` is synchronous: between two `await`s a
process does one thing. What makes the code hard is elsewhere:

- the TUI, the CLI and the API server each open a `SqliteEngine` of their own, on a path that may
  be the same (WAL, `busy_timeout` 5000): *several processes on one database*;
- a process may die anywhere between two transactions, and start again with recovery passes;
- agents, job workers and workflow dispatches are asynchronous: a worker settles late, after its
  lease, its job or its run has been given to somebody else;
- rows are read, changed in memory and saved whole.

### Components

| component | state it keeps | operations | interacts with | hard behaviour | must hold |
|---|---|---|---|---|---|
| task claims and leases (`tasks/`) | rows of `tasks` and `leases`, lease events | claim, heartbeat, verify, complete, fail, release, move | every component that works on tasks | late workers, expiry, a pass that acts on what it read before | one holder, growing fencing tokens, a stale worker changes nothing, outcome on record |
| stalled-agent recovery (`tasks/stalled-agent-recovery.ts`) | none of its own | list expired leases; requeue or fail each | leases, tasks, events | the list is read outside the transactions | a live lease is left alone |
| crash recovery (`recovery/crash-recovery-engine.ts`) | none of its own | evict expired leases, reset interrupted tasks | leases, tasks | three reads and writes without a transaction around them | completed stays completed; no orphan stays |
| handoff (`teams/agent-handoff-manager.ts`) | `agent_handoffs` | prepare, accept, reject | leases, tasks | acceptance long after preparation | one transfer per handoff, source fenced |
| session resume (`resume/`) | none of its own | restore tasks, approvals, side effects, leases, processes | tasks, leases | two moves per task; other processes work meanwhile | completed stays completed, a live lease keeps its task |
| background jobs (`jobs/`) | `background_jobs`, `activeJobs` in memory | create, claim, heartbeat, complete, fail, cancel, run, abort, reconcile | task claims; `WorkflowRetryHandler` | timers, deadlines, abort against completion, release and save in two steps | job and task agree, terminal is final, bounded attempts |
| transactions (`persistence/sqlite-engine.ts`) | `transactionDepth`, the connection's transaction | `transaction(fn)` | all repositories | nesting by a counter, a BEGIN that fails | all or nothing, isolated, durable |
| workflows (`workflow/`) | `workflow_runs`, an in-memory copy per executor | start, execute, pause, resume, cancel, approve, reconcile | task dispatcher, events | several executors on copies of one row, restarts, gates | no work past an unapproved gate, completed means done |
| event store and projections (`event-state/`) | `events`, projections, snapshots | append, subscribe, rebuild, snapshot, roll back | everything | order by timestamp alone, an `await` inside a capture, rebuilds of one session | a projection and a reconstructed state are the fold of their log |
| remote nodes (`remote/`) | `remote_nodes`, `remote_dispatches` | register, dispatch, heartbeat, result, cancel, reconcile | task claims | lost, late and repeated answers; calls that overtake each other between a read and a write | a stale result changes nothing, a settled dispatch holds no lease |
| tool gateway, policy, approvals, side effects (`tools/tool-gateway.ts`, `policy/`, `side-effects/`) | approvals, idempotency locks and cache, journal, retry counts: all in memory, approvals rebuilt from events | invoke, evaluate, request, grant, reject, expire, consume, retry | agents, task claims, events | a handler that outlives its timeout, approvals across restarts, an event that cannot be appended | no effect without its approval, one run per key, nothing repeated that may have happened |
| models (`models/`) | credentials, key leases, provider health, in memory | route, fail over, lease and release keys, reclaim, cool down | agents | several calls between two `await`s of each other, keys rotated in use | counts follow leases, no key above its limit, failover ends |
| teams and messages (`teams/`) | members, messages | join, leave, send, acknowledge | handoff | delivery once | a message is acknowledged by its receiver |
| api (`api/`) | idempotency cache | HTTP routes | all of the above | retries of a request | a repeated request acts once |
| workspaces, integrations, mcp, plugins, hooks | worktrees, delivery queue, connections | integrate, deliver, connect, load | agents | retries, partial failure | delivered or in the dead-letter queue |
| the rest (`cli`, `tui`, `content`, `context`, `memory`, `search`, ...) | files and tables | lookups, formatting, I/O | | | |

`PROJECT.json` lists every directory with its status, and under `hazards` what is hard to test,
each at its line.

## 2 The modules and the code

```
FencedOwnership            what task leases promise
   ^ implemented by
TaskLease                  <- TaskLeaseProofs (also the refinement)
   ^ extended by
   +- TaskHandoff          handoffs over the same tasks and leases  <- TaskClientsProofs
   +- SessionResume        restoring the tasks of a session         <- TaskClientsProofs
   +- RemoteDispatch       tasks given to remote nodes              <- TaskClientsProofs
   +- BackgroundJobs       jobs, their supervisor and recovery      <- BackgroundJobsProofs
SqliteEngine               transactions, which the others take as atomic  <- SqliteEngineProofs
WorkflowRun                one workflow run and its executors       <- WorkflowRunProofs
ToolGateway                a tool call with policy, approval, idempotency, retry <- ToolGatewayProofs
EventLog                   the event log, its projections and snapshots   <- EventLogProofs
ModelRouting               calls of models, key leases, provider health   <- ModelRoutingProofs
MC*                                  instances of each for TLC
```

The modules that compose (`TaskHandoff`, `SessionResume`, `BackgroundJobs`, `RemoteDispatch`) extend
`TaskLease`: their next-state relations interleave its actions with their own, on the same tables.
Operators named `X_Suffix` and commented *Faulty* are variants of `X` with a plausible bug; no
specification uses them. They are there to show that a run would notice the bug.

### TaskLease

| state | code |
|---|---|
| `status[t]`, `attempts[t]` | `tasks.status`, `metadata.attemptCount ?? 1` |
| `lease[l]` | a row of `leases`; `left` is `expiresAt` as ticks from now |
| `audit` | lease and task events, as `<<type, lease>>` |
| `pass[p]` | what a recovery pass has read and not applied yet |

`ClaimTask`, `Heartbeat` (`Renew`, `LateHeartbeat`), `CompleteTask`, `FailTask`, `ReleaseTask` are
`TaskClaimManager`'s methods; each is one transaction without `await`, so one step with all its
writes. `UpdateStatus` is every other move through `TaskRepository.updateStatus`, with its
transition table. `DetectStalledLeases` and `RecoverLease` are `recoverStalledLeases`, lease by
lease; `ListExpiredLeases`, `EvictLeases`, `ListInterruptedTasks`, `ResetTasks` are
`executeRecovery`. `Crash` makes a pass forget what it read. `RecordSome` is an event appended
after the commit, which a crash or the swallowed exception may lose.

A worker is its lease: it presents id, generation and agent of that row at any later time. With
`SharedDb` FALSE a pass runs without interruption (`Undisturbed`), as a single-threaded process
does. Left out because they change nothing: refusals by project and for unknown tasks. Not
modelled: that `now` is read before `BEGIN IMMEDIATE`, and who is notified after a commit.

`FencedOwnership` is the abstract specification: tokens that grow, one in force, completion once,
under the token in force. `ImplementsFencedOwnership` maps the token to the newest generation, the
holder to the active lease and `done` to the completion event.

### TaskHandoff

`PrepareHandoff`, `AcceptHandoff` (with `Transfer`, the two lease writes, and the move of the task,
whose refusal rolls all of it back), `ReadToReject` and `SaveRejected`, which are two statements in
the code. Membership and topology checks refuse without changing anything and are left out.

### SessionResume

`ListSessionTasks` reads the tasks in hands; `BlockTask` and `QueueTask` are the two
`updateStatus` calls for each; `CrashResume`. A call that throws drops the task, as the code's
`catch` does.

### BackgroundJobs

`job[j]` is the row, `late[j]` its deadline, `worker[l]` the asynchronous function `runJob` started
under lease `l`, `active[j]` the entry of `activeJobs`. `RunJob` claims the job and its task;
`HeartbeatJob` is the timer with its four outcomes, in the order of the code's tests;
`WorkerResolves` and `WorkerRejects` are the two continuations of `runJob`, whatever has become of
the job by then; `AbortActiveJob` and `UserCancels` come from outside. `ProcessDies` clears all
memory; `DiesAfterRelease` is a death between the two writes of the reconciler, `Reconcile` the
reconciler itself. Nothing but the tests runs `BackgroundJobRecoveryReconciler`: the API server, the
CLI and the TUI start `CrashRecoveryEngine` only. Its steps are in the model, as safety must hold
with it, and no fairness is assumed of it. `checkpointJob` writes a payload only and is left out.

### SqliteEngine

`frames[p]` are the calls of `transaction` under way in `p`, each with what it took itself for:
outermost (TRUE) or nested, by the counter `transactionDepth[p]`. `BeginOuter`, `BeginNested`,
`BeginBusy` (the lock is held and the busy timeout passes: the depth was raised before the `try`),
`Write` (autocommits without a transaction), `Returns`, `Throws`, `Dies`. The database file is
external: a write transaction's pages are visible at COMMIT and gone at ROLLBACK or death.

The other modules take a transaction as one step. The theorems about this one say when they may:
until a `BEGIN` of that process has timed out (section 5), which is always with one process.

### WorkflowRun

`row` is the row of `workflow_runs`; `exec[e]` an invocation of `WorkflowExecutor.execute` with its
own copy, its level and the nodes it has yet to look at (`todo`) or waits for (`busy`). `Visit` is
the loop over a level, with `PassOver`, `FailBlocked`, `Skip`, `Dispatch` and `RequestApproval` as
its cases; `Settle` is a dispatch that ends, `LevelIsOver` and what follows the code after
`Promise.all`. An executor runs to its next `await` before anything else does (`LoopIsFree`); most
saves on the way are steps, as a process may die between them. Two steps make two saves each, a gate
that starts and waits and a level that ends with its run: `DiesBetweenSaves` is a death after the
first. `Pause`, `Resume`, `Cancel`, `ApproveGate`, `RejectGate` are `WorkflowEngine`'s methods,
`ReconcileSingleRun` the reconciler's, which only tests run (see `BackgroundJobs`). Levels are
Kahn's waves as a recursive function; `AcyclicAssumption` says that they reach every node, as the
registry refuses a workflow with a cycle. Retries, timeouts and budgets of a node, and the insides
of `parallel` and `foreach`, are a dispatch that settles at most once; `Timed` are the nodes whose
dispatch has a timeout (`withTimeout`, task nodes). The in-memory test for CANCELLED never fires, as
`cancelWorkflow` changes the row only, and `WorkflowEngine` passes no abort signal (a test does);
both are left out.

### ToolGateway

| state | code |
|---|---|
| `call[c]` | one `ToolGateway.invoke`: operation, approval id presented, answer, the call it repeats |
| `executing` | handlers that run, whether or not anybody listens |
| `approval`, `elapsed`, `logged`, `granted` | `ApprovalManager.approvals`; those past `expiresAt`; the last event of each; ever granted |
| `cache`, `locks` | `IdempotencyStore.store`, `inFlightLocks` |
| `journal`, `retries` | `SideEffectJournal` (certainties), `operationRetryCounts` |
| `version`, `owner`, `life` | `policyVersion`, `verifyOwnership` of the caller's lease, starts of the process |

`invoke` does not await before the handler, so each early return is one action with its guards in
the code's order: `InvokeInvalid` (fencing, schema), `InvokeRepeated` (cached or busy key),
`InvokeDenied`, `InvokeAsks` (creates the request; its append may fail and then the call throws with
the lock of its key), `InvokeUnapproved`, `InvokeDiverged`, `InvokeRuns`. `HandlerReturns`,
`HandlerThrows`, `CallTimesOut` and `HandlerEndsUnheard` are the race of handler and timer.
`Evaluate` is `PolicyEngine.evaluate`: what no rule may allow, then the rules in order, then the
defaults by risk. `Managed` says whether the gateway has an `ApprovalManager`: without one, both
tests of `require_approval` are passed over and the handler runs (`Asks`, and `GatewayUnmanaged` in
section 4). The gateway's other optional components are taken to be there. `GrantApproval` ...
`ExpireApproval` are `ApprovalManager`'s methods, each with an event that may fail; `Retry` is a
caller that asks `RetryDecisionEngine` and calls again; `Restart` loses the memory and rebuilds the
approvals from the events. No caller outside the tests uses `restoreFromEvents` and
`RetryDecisionEngine` today; they are modelled as the tests and their comments use them.

### EventLog

`log` is the events table in the order of commits, each event with its timestamp; `EventsOf` reads
it as every reader does, by timestamp: `Number` is the place of a row among those of its session,
and a set of rows is listed in that order. `Field` is what the reducers write, the fields of the
session and one for each task; `FieldAfter` is a reducer's case for one of them. `Stamp` and
`Commit` are an append: the event is made, and committed later, by one of several processes;
subscribers of the same process hear of it (`projection[s]`), and an append inside a transaction of
its caller may commit without anybody being told, or tell subscribers of an event that is then
rolled back (`HeardInVain`: `ForkPointRecoveryManager` appends inside its transaction).
`PurgeSession` is `DataRetentionManager`, which deletes a session's events and leaves its snapshots
and projections; the places of the deleted rows stay as a `Gap`. `RebuildAll`, `RebuildSession` and
`Restart` are `ProjectionManager`'s. `CaptureReads` and `CaptureInserts` are the two halves of
`captureSnapshot` around its `await`; `Snapshot` decides between keyframe and delta and takes the
delta. `Reconstructed` is `reconstructStateAt` (nearest intact keyframe, the deltas after it, and
all events again when some are left after the last of those), `Damage` what its checksum is for.
`RollbackTo` rebuilds the projections and appends `session.rolled_back`, which no reducer handles:
the log and the projections keep what is said to be rolled back. `late` and `overlapped` are history
variables: which sessions had an event committed behind a later one, or two captures that
overlapped; `Purged` are those with a gap.

### RemoteDispatch

`node[n]` and `dispatch[d]` are the rows of `remote_nodes` and `remote_dispatches`; `call[c]` is
what a call of `RemoteDispatchManager`, `NodeRegistry` or `RemoteRecoveryReconciler` has read and
has still to do: each read and each transaction is a step. `DispatchTask`, `ClaimForDispatch`,
`SaveDispatch` are one dispatch (claim and row are two transactions), under a new id or one the caller
chose: where a row has that id already, only its status is set (`ON CONFLICT`), and `Chosen` are the ids
callers choose. A node reports any of the six statuses (`NodeHeartbeat`); `AcceptRemoteResult` reads and
`CommitResult` writes, task and dispatch in one transaction; `CancelDispatch`, `SaveCancelled`,
`ReleaseCancelled` a cancellation; `ListActiveDispatches`, `ReclaimLease`, `SaveReclaimed` the
reconciler; `RemoteHeartbeat` renews the lease. The network is what a node may send at any time: a
result or a heartbeat of any saved dispatch, any number of times. `LocalStep` are the
workers of `TaskLease` beside it. A `targetNodeId` skips the test of the node's status and scope
(`MayDispatchTo`). A `releaseTask` that throws after the row was saved leaves a CANCELLED dispatch
with a live lease, which `ReleaseCancelled` has. `reconcileActiveDispatches` and
`detectStalledNodes` have no caller outside the tests.

### ModelRouting

`cred[k]` is a credential with its `concurrencyCount`, `active` the key leases, `health[p]` a
provider's status and failures, `run[r]` a call of `ModelRouter.execute` with its ranking, attempt
and key. `Execute` ranks once; `AcquireKey` picks the least busy key and leases it, before the
secret is awaited; `SecretFails` leaves with the lease held, as that `await` is outside the `try`;
`SendRequest`, `ModelAnswers` and `ModelFails` are the adapter's `await` and what follows: release,
cooldown, health, and whether the error allows another candidate. `ReclaimStaleLease`,
`CooldownEnds` and `AddCredential` (also for a key in use) come from outside. A provider that failed
twice `FailureThreshold` times is `unavailable` and, as only its calls reset it, is not routed to
again. A credential is added with a count of 0, the schema's default, though `addCredential` would
take another from its caller; `disabled` stands for the four statuses `acquireKey` passes over and
`available` for the others. `setProviderHealth`, which nothing calls, is left out.

## 3 Runs, bounds and fairness

| run | instance | shows |
|---|---|---|
| `lease_shared` | 1 task, 2 leases, 1 pass, several processes; 10 500 states | `OneActiveLease`, `ActiveIsNewest`, `StaleWorkerIsFenced`, `OutcomeOnRecord` hold whatever processes and passes interleave; `OrphanIsRequeued` |
| `lease_single` | 2 tasks in a chain, 3 leases, ttl 2, one process; 125 000 states | `HeldWhileLive`, `CompletedIsFinal`, and the refinement of `FencedOwnership`: what holds only when passes are not interrupted |
| `handoff_single` | 1 task, 3 leases, 1 handoff, one process; 420 000 states | `TransferIsAccepted`, `SourceIsFenced` |
| `resume_session` | 2 tasks, 3 leases, several processes; 191 000 states | `CompletedIsFinal` although a resume looks at no lease |
| `jobs_one` | 1 job, 3 leases, 2 attempts, room for a second worker, one process; 164 000 states | `CompletedTogether`, `OneWorkerPerJob`, `StopIsHeard` |
| `engine_procs` | 2 processes, 2 calls, 2 writes, nesting 3; 17 300 states | `Durable` and `LockIsHeldInCall` always, `AtomicUntilBusy` and `IsolatedUntilBusy` |
| `workflow` | 4 nodes (work, work with a condition and a gate side by side, a join with a condition), two with a timeout, 2 executors; 41 300 states | `NoWorkBeforeApproval`, `CompletedRunIsDone`, `RunEnds` |
| `gateway` | 3 calls, 4 operations (two of one idempotency key that differ in their arguments and need a human, one with a key that does not, one that is forbidden though a rule allows it), 1 approval, 2 lives; 355 000 states | `RunsAreApproved`, `OneRunPerKey`, `RepeatedNeverRan` |
| `event_log` | 2 processes, 1 session, 3 events, 3 snapshots, keyframe interval 2; 539 000 states | `ProjectionIsFold`, `ReconstructionIsFold` |
| `remote` | 1 task, 2 leases, 1 node, 2 dispatches, 2 callers, several processes; 1 231 000 states | `CompletedIsBacked`, `SettledHasLetGo`, `StaleResultIsFenced` |
| `routing` | 3 requests (one slow), 2 providers with a candidate and a key each, one key registered anew; 289 000 states | `CountsLeases`, `WithinLimit`, `FailoverEnds` |
| `engine_shared` | 2 processes | section 4: the one run that ends in a violation |

**Bounds.** `LeaseId` bounds the claims ever made; two are enough for a worker and its successor,
three for a task taken over twice or for two tasks. `Ttl`, `MaxRenewals`, `MaxAttempts` stand for 30
000 ms, 100 and 3: what matters is that a lease can be renewed, refuse a further renewal and expire,
and that an attempt may or may not be left. The fairness of `lease_shared` is checked without
symmetry and with one task. `MaxCalls`, `MaxWrites` and `MaxNesting` bound the transactions of a
process: two writes make a partial one visible, two calls one after a failed `BEGIN`, nesting 3 a
nested call in a nested call. In `workflow` two executors are what a resume during a run makes, and
the DAG has a level with a gate and with work, conditions in the first level and in the last, and
nodes with a timeout and without. In `gateway` a third call is one that repeats, or meets the key
of, one that has met an approval, or presents the approval of one operation for the other; two lives
are before and after a restart. `event_log` has three events of two times, so a late one, and three
snapshots: a keyframe, a delta, and a keyframe of the interval or one after a damaged one. Its
`VIEW` joins states that differ in what is held of sessions that are not `complete`, which every
action that looks at it replaces or marks as incomplete again. In `remote` two callers are any two
calls that overtake each other, two dispatches a task and its successor. In `routing` the limit of a
key is 1 and two of three requests meet at a key while the third is slow. The theorems remove the
bounds on the properties they are about.

**Symmetry** (leases, dispatches, calls and keys, and tasks where they are interchangeable) is used in
runs without liveness.

**Fairness.** `lease_shared`: the four steps of crash recovery are strongly fair: the API server,
the CLI and the TUI run `executeRecovery` when they start (and at no other time), so this says that
processes are started again, that not every run of it is cut off by a death, and that one comes
after a lease has expired. Workers, heartbeats and time have none. `jobs_one`: the event loop only.
A heartbeat timer that is not cleared fires, and a recovery pass that was begun goes on; no worker
is assumed to settle, nobody to recover anything, and the process may die at any time. `workflow`:
an executor goes on (weakly fair), and the timer of a dispatch that has one ends it (strongly fair,
as other executors make the loop busy in between). Dispatches without a timeout, those inside
`parallel` and `foreach`, have no fairness: `RunEnds` excepts executors that wait for them. Users,
approvals, deaths and the reconcilers of jobs and workflows, which nothing starts, have none either.
`routing`: `Advance(r)` is weakly fair for each request: the promises of the secret store and of the
adapter settle, the latter at the latest when the HTTP client gives up.

**Deadlock** is not checked where the system may stop: a session with nothing to resume, processes
that have made all their calls, a run that is over.

Each property of a passing run has a faulty variant of a definition (`mutants` in `PROJECT.json`)
under which TLC refutes it.

## 4 Where the code and its documents disagree

The run **`engine_shared`** (`findings` in `PROJECT.json` quotes the line): a `BEGIN IMMEDIATE` that
times out leaves `transactionDepth` raised; later transactions of that process are not transactions
any more, so `AllOrNothing` is violated.

Further configurations, which are not among the runs, end in a violation as well. They are kept
because the proofs and the later modules must not assume the opposite; each checks the property named.

| configuration | property | what TLC shows |
|---|---|---|
| `ResumeLive` | `HeldWhileLive` | resuming a session queues tasks whose worker holds an unexpired lease |
| `TaskHandoffHolders` | `OneActiveLease` | accepting a handoff after its lease ended and the task was claimed anew makes two active leases with one generation |
| `JobsTerminal` | `TerminalIsFinal` | `failJob` of a worker whose job was cancelled puts the job back to QUEUED |
| `JobsStranded` | `JobIsNotStranded` | a job whose process died stays RUNNING: what is started runs crash recovery, not the job reconciler |
| `WorkflowStranded` | `RunIsNotStranded` | a run whose process died, or that waits for a dispatch without a timeout, stays RUNNING |
| `WorkflowRestart` | `ApprovalSurvivesRestart` | an approved gate stays in `runningTasks`; after a restart the reconciler marks it FAILED and the human is asked again |
| `TaskLeaseHeld` | `HeldWhileLive` | several processes: stalled recovery expires a lease that was renewed after the pass read it |
| `TaskLeaseStalled` | `StalledLeaseIsReclaimed` | a stalled lease on a paused task makes each stalled-recovery pass throw at it |
| `JobsLimit` | `WorkersWithinLimit` | an aborted job frees its slot while its worker runs |
| `WorkflowCancel` | `CancelledIsFinal` | an executor that was waiting when the run was cancelled saves its copy over the row |
| `GatewayUnmanaged` | `PolicyIsObeyed` | a gateway without an `ApprovalManager` runs what its policy wants approved |
| `GatewayReuse` | `GrantIsUsedOnce` | the consumption of an approval has no event: after a restart the grant can be used again |
| `GatewayLock` | `LockIsHeldByCall` | a call whose approval request cannot be appended throws with the lock of its key held |
| `EventLogDamage` | `DamageIsMadeUpFor` | a damaged keyframe is passed over, but the deltas after it were taken against it |
| `EventLogLate` | `LateEventIsHarmless` | an event committed behind a later one shifts the numbers that deltas are keyed by |
| `RemoteStale` | `StaleResultIsRejected` | a superseded node's failure still marks its own dispatch FAILED |

`RemoteSingle` (one process) ends without error and shows `CompletionIsKnown`, which several processes do
not keep. The modules state further properties a configuration can be given, with what refutes them
in their comments: `RejectedWasPrepared` and `CompletedIsFinal` with `SharedDb`, `GrantIsUsable`
with a second policy version, `OverlapIsHarmless`, `PurgeIsHarmless` (a session that goes on after a
purge is numbered anew, below its old snapshots), `ViewsAreKept`, `DisabledStaysOut`,
`DrainingGetsNoWork`, `EndOfLeaseOnRecord` (recovery ends leases without an event), `ResumedIsQueued` (a
resume that dies between its two moves leaves the task blocked) and `OnlyTransientIsRetried` (an error
that is neither transient nor permanent is retried). `JobIsNotStranded` and `RunIsNotStranded` hold
under `ReconciledSpec`, a deployment that runs the reconcilers at each start: the first where
`MaxJobAttempts` is at most `MaxAttempts` and attempts of the task are left, the second where every
dispatch has a timeout.

## 5 Proofs

`tlapm` checks every proof to its leaves. Nothing is assumed beyond the named ASSUMEs on constants.

**TaskLeaseProofs**, for any tasks, leases, passes, ttl, attempts, and both values of `SharedDb`.
`ActiveIsNewest` is not inductive alone: a claim takes its generation from the newest lease,
so one must exist when any lease was issued (`NewestExists`), and recovery acts on lease ids a pass
remembers, which must be issued ones (`PassKnown`).
`TablesOK == TypeOK /\ PassKnown /\ NewestExists` and `IInv == TablesOK /\ ActiveIsNewest` are kept
by every action; `TablesOK` is stated apart, with lemmas of its own, since it also survives handoffs.
From them: `TypeCorrect`, `FencingTokens` (`ActiveIsNewest`), `MutualExclusion` (`OneActiveLease`),
`OutcomesRecorded` (`OutcomeOnRecord`), `GenerationsGrow` (`TokensGrow`) and `Fencing`
(`StaleWorkerIsFenced`), the last two as action properties.

For `SharedDb = FALSE`, `SingleInv` adds to `IInv` that what a pass remembers is still so when it
writes (`PassCurrent`), that one pass is under way at a time (`OnePass`), and that a completed task
is so on the board and was completed under one lease (`CompletedOnce`); with them `HeldWhileLive` is
inductive. Each step is a claim, a completion, or `Calm` (no lease comes to life, nothing is
completed). Theorems: `LiveLeaseKeepsTask`, `CompletedStays`, and `OwnershipIsFenced`: a claim maps
to `Grant`, a completion to `Complete`, a calm step to `Depose` of the tasks that lost their lease,
so `Spec` implements `FencedOwnership`. The first two fail with several processes (section 4).

**TaskClientsProofs**: the modules on top of `TaskLease` whose steps are not, or not only, its own.

*Handoffs*, for any tasks, leases and handoffs. `acceptHandoff` counts the new generation on from
the lease the handoff was prepared under, not from the newest one, so `ActiveIsNewest` and with it
`IInv` is lost (`TaskHandoffHolders` in section 4); `TablesOK` is kept. `HandoffInv` adds that the
lease of an accepted handoff is no longer ACTIVE (`SourceLetGo`) and that a rejection under way has
a row (`RejectingKnown`): enough, for any number of processes, for `HandoffTypes` and
`HandedOverIsFenced` (`SourceIsFenced`). For `SharedDb = FALSE`, `SingleHandoffInv` adds that a
rejection has read a handoff that is still PREPARED when it is saved, and gives
`HandoffTransfersOnce` (`TransferIsAccepted`) and `AcceptedIsNotRejected`, which no run lists.

*Resumes*: `ResumeTypes`, for both values of `SharedDb`, and `ResumeKeepsCompleted`
(`CompletedIsFinal`) for `Pass = {} \/ SharedDb = FALSE`. A resume does not take a completion back,
since both its moves are refused by the transition table once the task is COMPLETED; the only step
that does is `ResetTasks` of a recovery pass that listed the task before it was completed (lemma
`OnlyAPassTakesBack`). With several processes that happens, resume or not. In one it does not
(`LoneInv`): one pass is under way at a time, what it listed is not completed (`LonePass`), and no
pass is under way while a session is resumed (`LoneResume`).

*Remote dispatches*, for any nodes, dispatches and callers, both values of `SharedDb`. Each step of
`RemoteDispatch` is one of `TaskLease` or leaves tasks and leases alone
(`RemoteImplementsTaskLease`), so the theorems about claims hold with remote nodes. `RemoteInv` adds
to `IInv` that a dispatch names a lease granted for its task (`DispatchKnown`) and that what calls
have read still holds (`CallKnown`): a lease that is not live never comes back to life. Theorems:
`RemoteTypeCorrect`, `CompletionsAreBacked`, `SettledLetsGo`, `RemoteFencing`.

**BackgroundJobsProofs**, for any jobs, tasks, leases and limits, in one process; two jobs may even
have the same task. Each step of the job manager, the supervisor, a death and the reconciler is, on
tasks and leases, one of `TaskLease` or none (`JobsImplementTasks`), so `JobsKeepTasks`: completed
tasks stay so and live leases keep theirs. `JobInv` adds to `SingleInv` that the lease in a job's
row was granted for its task (`JobHasLease`), that a worker under way is at a job whose row names
its lease and which is not offered to others (`WorkerHasJob`), and that an entry of `activeJobs` is
a job (`ActiveIsJob`). `WorkerHasJob` is the core: however a job was aborted, cancelled or timed
out, it is not claimed again before its worker settles or dies, so that worker completes the task
under the lease the row names and no second one runs beside it. Theorems: `JobTypes`,
`JobsCompleteTogether`, `WorkersAreAlone` (`OneWorkerPerJob`) and `AttemptsRemain` (a job that waits
has an attempt left), which no run lists.

**SqliteEngineProofs**, for any number of processes, calls, writes and levels of nesting.
`EngineInv` relates the depth counter to the calls under way (`Nesting`: they agree until a `BEGIN`
failed, and the counter is never too low), says one connection is in a transaction (`OneHolder`),
and where the writes of a call are: pending for the call that has the lock (`Pending`), in the
database for one without (`Autocommitted`), nowhere for calls to come (`NothingAhead`,
`DatabaseIsPast`). From it: `EngineTypes`, `Atomicity`, `Durability`, `Isolation`,
`LockDiscipline`. `SingleProcessAtomicity` adds that one process never sees a busy lock, so
`AllOrNothing` holds without the condition that `engine_shared` shows to be needed.

**WorkflowRunProofs**, for any DAG, gates, conditions and number of executors.
`NoWorkBeforeApproval` is about statuses in every copy. Its invariant adds: a gate is COMPLETED in
a copy only if it was approved and is never SKIPPED (`Clean`), the gate that waits is below approved
gates itself (`Safe`), and the nodes an executor waits for, whose outcome it will write later, are
work below approved gates (`Orderly`). Theorems: `WorkflowTypes`, `GatesHold`.

That a completed run is done needs what the waves are: `Least` (a
set of numbers has a least one, from the well-foundedness of finite sets under inclusion) is the
induction, and gives that the recursive function exists (`WavesExist`), satisfies its equation (`Waves`),
grows, stops at the first empty level, and reaches every node at `LevelCount` (`Levels`). Then
`PastInv`: the levels before the one a copy is at are done but for decided nodes (`Past`), what is
done and still among the running tasks was decided (`Left`), and an executor inside a level has each
node of it before it, in progress or over (`WavePast`); a node that is passed over is done because
otherwise one above it would be FAILED, and it blocked. Theorem: `CompletedRunsAreDone`
(`CompletedRunIsDone`). Its exception is real: a gate that was approved and a node that a second
executor skipped are still in `runningTasks`, where the reconciler after a death marks them FAILED;
the run goes on behind them and ends COMPLETED with a FAILED node.

**ToolGatewayProofs**, for any rules, operations, calls, retry limits and lives. `GatewayInv` adds
to the properties what states of calls imply (`CallsInOrder`: a call that waits for its handler is
of this life, one that timed out has an unknown outcome in the journal) and that approvals come from
grants and are used up by the calls of this life that ran under them (`ApprovalsInOrder`); both with
an `ApprovalManager` and without, where `RunsAreApproved` asks only that nothing forbidden runs.
Theorems: `GatewayTypes`, `ApprovalsHold`, `KeysExclude`, `RetriesAreSafe`.

**ModelRoutingProofs**, for any requests, candidates, keys and limits. `RoutingInv` says that the
leases are finite in number and of attempts that were made (`LeasesInOrder`), that a count is the
cardinality of the leases of its key (`CountsLeases`), at most the limit (`CountsBounded`), and that
a call that is not slow has the lease of the key it uses (`UsersHold`). Theorems: `RoutingTypes`,
`KeysAreCounted`, `KeysAreLimited`, by counting: the users of a key map injectively into its leases.

**EventLogProofs**, for any processes, sessions, tasks, captures and bounds. Four parts.

1. *Folds.* `FoldLeft` picks the function it folds with by CHOOSE, so first: that function exists, is
   the only one, and folding one element more is one more application (`FoldStep`, `ProjectFold`,
   `ReduceFold`). Where a fact is about every event or every snapshot, the induction is `Least`: a
   set of numbers has a least member, so the least counterexample is refuted by the one before it.
2. *Reading.* The rows of a session are finite and `Number` counts them off, and an event that commits
   behind all others of its session is appended to what was read before (`ReadAppend`). An event that
   does not is the one that makes its session `late`. A purge leaves what is read of other sessions
   as it was (`ReadSame`, `PurgeLeaves`).
3. *Projections.* `ViewInv`: the clock bounds what is stamped, and each complete projection is the fold of
   its log. A rebuild sets it, an append in order keeps it. Theorem: `ProjectionsFold`.
4. *Snapshots.* `ReconstructionIsFold` excepts sessions that are late or purged, or whose captures overlapped, and a log
   with a keyframe lost to damage that its deltas have no base for. For the other sessions `LogInv` says (`Faithful`):
   numbers grow in the order of inserts, each row's state is the fold of the events up to its number
   (`Truthful`), each delta was taken against the row inserted before it (`Chained`), and a capture
   that waits at its `await` and is up to date will insert a row that fits (`UpToDate`, `Fits`). Why
   that is enough: a delta after the keyframe was taken against the delta before it or a row with
   the keyframe's state (`TakenAgainst`), so along the deltas after the keyframe the patched state is
   that of the last row (`PatchedIsLast`), by the least row at which it were not, and patching a
   difference gives back what it was taken of except for tasks that were removed, which
   no reducer does (`TasksStay`). Theorems: `ReconstructionsFold`, `LogTypes`.

   The exceptions are those of `EventLogDamage` and `EventLogLate` in section 4.

**Model-checked only.** Every invariant and action property of the passing runs is stated by a
theorem. Liveness (`OrphanIsRequeued`, `StopIsHeard`, `RunEnds`, `FailoverEnds`) is not: TLAPS
does not prove it, and it rests on fairness. Theorems with a condition on a constant (`SharedDb`, `Pass`)
say nothing without it; section 4 has what happens then.

## 6 What is not modelled

`PROJECT.json` gives the reason for each component. In the modelled ones: payloads, messages and
wording; project isolation; the integrity check, WAL checkpoint and worktree steps of crash
recovery; the steps of a resume that restore views; jobs in several processes; budgets, retries,
`parallel` and `foreach` inside a workflow node; event types that no reducer tells apart; the health
of single models; key pools, which nothing registers; the node side of remote execution, which
echoes what it was sent. `ToolGateway` has optional components; the model has them all but for the
`ApprovalManager`, which may be absent, and no code outside the tests makes a `ToolGateway` at all.
Likewise `BackgroundJobRecoveryReconciler`, `WorkflowRecoveryReconciler`,
`RemoteRecoveryReconciler`, `DataRetentionManager`, `restoreFromEvents` and `RetryDecisionEngine`
have no caller outside the tests and their own directories: they are modelled as they would run, and
no liveness rests on them. Components with planned modules are listed in section 7; the others are
formatting, lookups in tables, or I/O without a protocol.

## 7 Plan

Order: ownership of tasks first, since everything else rests on it, then what composes with it,
then the store and the gateway.

1. done: `TaskLease`, `FencedOwnership`, `TaskHandoff`, `SessionResume`, `BackgroundJobs`,
   `SqliteEngine`, `WorkflowRun`, `ToolGateway`, `EventLog`, `RemoteDispatch`, `ModelRouting`, with
   their runs, and the proof modules of section 5.
2. `PeerMessages` and the team checks of handoffs; the API's idempotency cache;
   webhook delivery with its dead-letter queue; the in-memory `LeaseManager`.
3. `WorkspaceIntegrator`; the hooks with their recursion guard; the circuit breakers of MCP connections.
4. `BackgroundJobs` for two processes on one database; retries and budgets in `WorkflowRun`.

Theorems next: the safety half of the liveness properties, that the recovery step which
decides an orphan, a stranded job or a stuck run is possible in every state that needs it; that
`Reconstructed` is the fold for sessions with overlapping captures when one of them fails;
an abstract specification of one workflow run (gates, nodes done in the order of the DAG) that
`WorkflowRun` implements.
