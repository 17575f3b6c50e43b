# FlowDeck in TLA+

FlowDeck (`src/` of this repository) is an orchestration engine and OpenCode plugin: it keeps *runs* and
*execution plans* of AI-agent work in SQLite, dispatches the work to agents in git worktrees, verifies it and
decides when a run is complete. This directory holds specifications of the parts of it that decide, retry,
lease, recover and complete, TLC configurations that model-check them on small instances, and TLAPS proofs
of their safety for every instance.

Paths below are relative to `src/src/orchestration/` unless they start with another name.

## 1. Inventory

| Component | State | Operations | Hard behaviour | What makes it correct | Status |
|---|---|---|---|---|---|
| **Outbox delivery** (`services/outbox-worker.ts`, `persistence/adapters/sqlite-delivery-sink.ts`) | `event_outbox`, `event_deliveries`, `dead_letter_events`; a worker's batch | enqueue, claim, publish, mark delivered / failed, record delivery / dead letter, requeue | several processes; leases that expire under a slow worker; crashes between publish and mark; the lease shares a column with the error text | nothing is delivered without having been published, nothing given up early, nothing stranded, everything settles | modelled |
| **Run phase and transition engine** (`services/transition-engine.ts`, `orchestration-snapshot-service.ts`) | `task_runs.state`, `aggregate_version`; attempts, strategy constraints | evaluate a snapshot, compare-and-set transition, observe verdicts | concurrent `session.idle` handlers; snapshot stale after an await | terminal phases final; a finished run gets verified | partly |
| **Live verification, completion policy** (`services/verification-service.ts`, `completion-policy.ts`) | `verification_results` by state fingerprint, completion reviews | request, evaluate, mark stale, complete | the verified state moves on between request, evaluation and completion | a pass belongs to a satisfying state; `completed` has its review; verdicts are not overturned | partly |
| **Run API** (`services/run-service.ts`, `persistence/adapters/sqlite-transactional-run-writer.ts`) | the same `task_runs` row | create, update, cancel, pause | test and write are separate | only completion policy completes; terminal is final | partly |
| **Execution plan** (`execution/scheduler.ts`, `worktree-executor.ts`, `worktree-manager.ts`, `sqlite-repository.ts`, `contracts.ts`) | plan, workstream and lease rows, worktrees on disk | waves: allocate, lease, dispatch, record, block dependents, clean; cancel; recover | process death between any two steps; cancellation from elsewhere; exceptions in cleanup | running work keeps its lease; verdicts final; dependents run only after what they wait for | partly |
| **Controlled integration** (`execution/integration.ts`) | `execution_integration_attempts`, the root checkout's head | integrate, recover | merge, acknowledgement and status are three commits | merged work is never executed again, failed or lost | modelled |
| **Token budget** (`src/src/services/token-budget-controller.ts`, `token-usage-store.ts`, `adaptive-execution-control.ts`, `execution/opencode-executor.ts`) | reservations, run and session totals; the append-only store | reserve, commit, stop, terminate, reclaim, redistribute, rebuild | late commits, a death between a reservation and its event, rebuild from a log | charges survive, nothing is given back twice, no grant above the ceiling | partly |
| **Advisory file lock** (`src/src/services/async-lock.ts`; users in `src/src/tools/planning-state-lib.ts`) | one lock file; the log it guards | acquire, steal, retry, time out, release; append, clear | an empty file between creation and pid; a stale file tested and then removed; a holder that died | mutual exclusion; every call atomic; every call ends | modelled |
| **Command executor** (`commands/services/durable-command-executor.ts`, `command-recovery-claim.ts`, `execution/assignment-binding-coordinator.ts`) | invocation row, run, plan, binding, recovery claim, verification and decision | execute, recover, cancel | two recoverers; a claim that expires; whole-row writes of a copy; cancel against complete | one agent at a time; completed was decided; execution ends | modelled |
| **Child execution lifecycle** (`services/child-execution-lifecycle-service.ts`, `execution-registry.ts`, `run-service.ts`) | records in memory and as rows, assignments, sessions, handles | register, bind, start, complete, fail, cancel (requested, confirmed), reconcile | session events in any order; aborts that fail, time out or answer late; a death between two commits | a restart rebuilds what memory held; ends final; a replacing goal starts after the old children stopped; cancelling returns | partly |
| **Deferred replacement** (`persistence/repositories/deferred-replacement.ts`, `src/src/runtime/flowdeck-opencode-adapter.ts`) | `deferred_replacements` rows | save, claim, hand over, resume, block, supersede, cancel, reconcile | two drains, a restart or a user turn in between | only the newest goal is prompted; outcomes final and true | modelled |
| **Continuation dispatch** (`services/continuation-policy.ts`) | `continuation_dispatches` rows | claim, prompt, record, retry once, reconcile | prompt sent and its outcome lost | one prompt at a time, at most two | partly |
| **OpenCode adapter** (`src/src/runtime/flowdeck-opencode-adapter.ts`) | none of its own beside maps | hooks for events, tools, messages | handlers interleave at every await | the parts above | partly, within RunLifecycle, ChildLifecycle, DeferredHandoff |
| Progress observation (`services/progress-observation-service.ts`) | observations, stall verdicts | record | – | – | summarised in RunLifecycle |
| Repository lease (`src/src/services/repo-lease-coordinator.ts`) | one file | acquire, heartbeat, release | check-then-rename | mutual exclusion | not modelled: exported, no caller in the repository |
| Parallel engine, child reconciler (`src/src/services/heidi-parallel-engine.ts`) | waves of native children | plan, launch, reconcile | fan-out limits | ownership does not overlap | not modelled yet |
| Assignments, contracts, events, idempotency | rows with a status | CRUD with status guards | – | – | not modelled by themselves |
| HTTP API, streaming, projections | none of their own | read | – | – | not modelled: transport and read models |
| Routing, performance, command completion engine | appended rows | compute, append | – | – | not modelled: functions of their input |
| PR monitor, plugin shell, scripts, `src/crates/fdx` (Rust) | – | – | – | – | not modelled: polling of an external service, prompts and user interface, release tooling, code search |

How they interact. A user command is compiled into a run and an execution plan; the command executor calls
`executePlan`, which runs waves of workstreams through agents, each under a token reservation, and integrates
their branches; run and plan changes are written together with event rows, which the outbox workers publish.
Independently, each `session.idle` callback of OpenCode evaluates the run's snapshot, moves its phase, verifies
it and hands it to the completion policy. Task tool calls of a session become child executions; a user message
that replaces the goal cancels the run and its children, and when they have not stopped in time the new goal is
deferred and handed over by the continuation dispatcher once they have. The shared state is the SQLite database
(and git, and the files of `.planning`); there is no message passing between processes. A runtime that starts
(`composition.ts`) first recovers what it finds. Two processes on one database are ordinary: OpenCode starts one
plugin instance per session host.

`PROJECT.json` lists the hazards of this code at the line where each bites, with the properties that would
catch it going wrong.

## 2. Modules

### OutboxDelivery and EventChannel

One step is one SQLite transaction or one `eventBus.publish`, i.e. what the worker does between two awaits.

| TLA+ | Code |
|---|---|
| `status`, `retryCount`, `lease`/`ttl`, `created` | columns of `event_outbox`; lease and ttl are the JSON claim in `last_error`, ttl its remaining seconds |
| `delivery`, `deadLetters` | `event_deliveries`, `dead_letter_events` |
| `pc`, `batch`, `attempt`, `current` | locals of `processBatch`; `attempt` is the attempt count read by the claim |
| `ClaimDue`, `Due`, `Claimed` | `claimDue`: UPDATE of due rows, then SELECT by the claim text |
| `Publish`, `PublishThrows`, `MarkDelivered`, `RecordDelivery`, `MarkFailed`, `RecordDeadLetter` | the steps of `processBatch` |
| `MarkDeliveredThrows`, `MarkFailedThrows`, `Crash` | failing transactions and process death (bounded by `MaxFaults`) |
| `published`, `failures` | history variables: what reached the bus, failures recorded |

`EventChannel` is what a producer may rely on: an event is sent once, reaches the subscribers any number of times,
is acknowledged only while it is open and after it reached them, and only a recorded failure reopens it or, at
the limit, gives it up. `OutboxDelivery` implements it with `fate <- Fate(e)` of every row (pending and
delivering are both *open*), `reached <- published`, `buried <- deadLetters`. That a late failure may reopen an
acknowledged event is part of the promise, because it is what `markFailed` does; that a late `markDelivered` can
never revive one that was given up is too.

### RunLifecycle

One run with any number of `session.idle` handlers and API callers, interleaved at awaits and transactions.

| TLA+ | Code |
|---|---|
| `phase`, `version` | `task_runs.state`, `aggregate_version` |
| `work`, `child`, `marks`, `attempt` | what the snapshot says of work items, native children, barriers/progress/strategy and the last attempt; their owners change them at any moment (`Change`) |
| `Fingerprint` | `computeStateFingerprint`: the record of what it hashes; equal records for equal hashes |
| `requested`, `passed`, `failed`, `stale` | `verification_results`, by fingerprint |
| `hpc` … `hstatus` | a handler's place in `onSessionIdle` / `runLiveVerification` and its locals |
| `Evaluate*`, `TransitionPhase` | `evaluate`'s branches in their order; compare-and-set on phase and version |
| `RequestVerification` … `MarkStale`, `EvaluateAndComplete` | verification service and completion policy |
| `UpdateRun`, `CancelRun`, `CancelChildren`, `CancelRecheck`, `CancelCheck`, `WriteRunState` | the run API: test, await, unguarded UPDATE |

### ExecutionPlan and WorkGraph

One plan from `savePlan` to its end. One step is one transaction, one git command, or one agent returning; a
death (`Crash`) is possible between any two, and a caller of `cancelPlan` (another process) interleaves with
everything.

| TLA+ | Code |
|---|---|
| `plan`, `ws` | `execution_plans.status`, `execution_workstreams.status`; `transitions`, `planTransitions` are the tables of `contracts.ts`, `CanMove` the assertion that throws |
| `lease` | the set of states of the workstream's lease rows. The schema's `UNIQUE(workstream_id, state)` makes a set exact, and makes an UPDATE into a state an older row holds throw (`Taken`, `ReleaseThrows`) |
| `attempts` | integration attempt rows by kind; `recovered-failed` is the row recovery inserts under the derived primary key |
| `checkout`, `head` | worktree and branch on disk; branches merged into the root checkout |
| `pc`, `todo`, `cur`, `held`, `flight`, `won`, `lost`, `broken` | the executing process: step, loop, allocations of the wave, agents in flight and their outcomes |
| `BeginWave` … `UnwindDone` | `executePlan`: allocate, bind, lease; its catch block |
| `StartPlan` … `BlockDone` | `runReady`: list, mark ready, list again, dispatch all, await all, record, propagate failures, finalize |
| `Integrate` … `SetIntegrated`, `Reject`, `Fail` | `integrate` and the catch block around it |
| `BlockAgainDone`, `Clean`, `CleanDone`, `Finish` | second propagation, cleanup, next wave, verdict |
| `Boot`, `Recover*`, `AttemptsDone`, `Requeue`, `ReclaimExpired`, `ReleaseReclaimed`, `BootDone` | `reconcileIntegratedAttempts`, then `recoverAfterRestart` of integration, repository and executor; `refused` is a recovery that threw, i.e. a runtime that does not start |
| `BeginCancel`, `CancelWorkstream`, `CancelLeases`, `CancelPlan` | `cancelPlan` over its snapshot, one transaction per row, stopping at the first that throws |

Data that no property tells apart is gone: objectives, paths and ownership (a refusal is `IntegrateRefused`),
budgets and performance facts (`AllocationFails` stands for every reason not to get a worktree), lease clocks
(at recovery any live lease may have expired). The four live lease states are one, `active`: every statement
treats them alike. Loops over workstreams visit them in any order, a superset of the code's sorted order.

`WorkGraph` is the plan as a reader of its tables sees it: jobs, what they need, what is merged, one verdict.
A job begins once, when everything it needs has delivered; from the moment its integration is being decided
until it is integrated nobody begins on its strength; it is reported integrated only when it is merged; it is
withdrawn only when it is not merged and nobody has built on it. `ExecutionPlan` implements it with
`state <- Stage(ws[w])`, `merged <- head`, `verdict <- Verdict`: waves, leases, worktrees, agents, deaths and
requeueing are invisible there, the reconciliation at start is one `Integrate` of a set.

### TokenBudget

One run, its workstreams and their executors. Every operation runs under the controller's mutex, or between two
awaits of the only executor of a run, and is one step; a prompt lies between its reservation and its outcome.

| TLA+ | Code |
|---|---|
| `status`, `owner`, `claimed`, `reserved`, `consumed`, `stopped`, `sess*`, `ended` | the controller's reservations, run and agent states |
| `stored`, `usage`, `reclaim`, `given`, `adaptive`, `terminated` | the store, kept as what `rebuildFromEntries` takes from its log: last status per reservation, usage per message, sets of adaptive events |
| `ReserveNew`, `ReserveGiven`, `ReserveRefused`, `Reconcile`, `PromptFails`, `Verified`, `VerificationFails` | the executor's path around its prompt |
| `Allowed`, `Claim`, `Release`, `CancelSession`, `Terminate` | `reserve`, `commitUsage`, `cancelSession`, `terminate` and the hard stop |
| `Redistribute`, `RecordRedistribution`, `RecoverOrphans` | the adaptive control: reservation first, event after it, orphans of a death in between given back |
| `Restart` | death, the rebuild from the store, and what the plan's recovery leaves to execute |

`Restart` also decides who goes on. The plan's database says which workstreams were interrupted: every one with a
prompt under way, and any other that was dispatched before its reservation or whose outcome was not recorded.
Recovery requeues those as `ready`, and `scheduler.ts:48` throws on them at every later wave of the plan, so that
nothing is prompted any more; when none was interrupted, the workstreams not yet dispatched go on. A reservation
that was committed comes back as open (`token-usage-store.ts:376`), left out of the run's total but not of its
session's: `Accounted` states exactly that.

### FileLock and TopicLog

A task is one call of `appendWithLock` or `clearFileWithLock`; every await of `acquireLock` is a step, the
callback is synchronous within its process. `TopicLog` is the abstract specification: each call takes effect
once, in one step. `FileLock` implements it under

    Abstract == INSTANCE TopicLog WITH log <- Content, done <- Effective, broken <- (raced \/ torn)

`Content` is the file outside a rewrite and what the rewriter read during one; `broken` records the two ways out
of the promise the code has: a steal that removed a live holder's file, and a death between truncation and write.

### CommandExecution

One invocation with any number of `executeCommand`, `recoverCommand` and `cancelCommand` calls. `row` is the
invocation row and `inv[a]` a caller's copy of it, which `saveInvocation` writes back whole; `plan`, `ws`,
`dispatch` are the plan with the one workstream a command compiles to and its binding; `claim` is the recovery
claim, whose TTL is the action `ClaimExpires`. What `executePlan` does with the one workstream is one step per
outcome (`Dispatch`, `DispatchThrows`, `NothingReady`, `AgentReturns`): its inside is `ExecutionPlan`. Only planned
work is dispatched; work that a restart has requeued as `ready` is listed, and then refused (`scheduler.ts:48`),
which is one of the cases of `DispatchThrows`. `overran` is a history variable.

### ChildLifecycle

| TLA+ | Code |
|---|---|
| `rec`, `row` | maps of the service, rows of `execution_metadata` |
| `asg`, `sess`, `handle`, `cleaned` | assignment, `agent_sessions` row, registry |
| `pend` | the commits a handler still has to make, one table at a time, in microtasks: only a death comes between |
| `SessionCreated`, `SaveBinding`, `MarkStarted` | a binding: the `agent_sessions` row, the child's row, the start |
| `WriteAssignment`, `Settle` | after a change of state: the assignment, then the `agent_sessions` row and the handle |
| `native`, `bus`, `hooks` | external: OpenCode's sessions, undelivered session events in order, after-hooks due |
| `canc`, `late` | `cancelRun`'s loop per user message; aborts whose caller gave up waiting |
| `run`, `deferred`, `due`, `replaced` | run status, the deferred goal, a drain that is due, the replacing goal was started |
| `TaskCalled`, `RegisterDelegation`, `ToolAfter`, `SessionError`, `SessionDeleted` | the adapter's hooks |
| `CancelRun` … `CancelRunEnd`, `CleanupTimeout`, `LateReply` | `cancelRun`, `markCancelled`, the registry's cleanup and timeout |
| `CancelOrphan` | the orphan check of `cancelChildrenForRun`: the session row, then the assignment |
| `Barrier`, `Drain` | the replacement barrier; started at once or deferred |
| `CrashAndRestart`, `Reconciled` | death and reconciliation from the rows of children and sessions |

A binding commits the `agent_sessions` row (`child-execution-lifecycle-service.ts:320`) before the child's row
(`:338`). After a death between the two, `reconcileAfterRestart` sets the session in memory only (`:666-669`), so
memory and the child's row differ from then on, until the record is saved again. What holds, and is checked and
proved, is `RestartRestores`: memory is always what the two tables together would be reconciled to.

### DeferredHandoff

Goals of a session, numbered as saved: `stat` is `deferred_replacements.status`, `disp` the row of
`continuation_dispatches` with its attempt count and the user turn it belongs to. A drain (`StartDrain`, `Claim`,
`Handoff`, `PromptAccepted`, `PromptFailed`, `SettleGoal`) is interrupted where it awaits the replacement run and
the prompt; user turns (`SavePending`, `CancelCurrent`, `Chat`) come at any moment, and `StartRuntime` reconciles
either after a death or beside a runtime that lives. `sent`, `reported`, `acked` are histories of the prompts.

The `MC*` modules give constants their small values. Definitions marked *seeded fault* are not used by any
specification: each is a plausible bug of the definition next to it and shows that a property can fail.

## 3. Runs

| Run | Question | Result |
|---|---|---|
| `OutboxDelivery` | Safety of delivery with two processes under the shared worker id | holds |
| `OutboxSettles` | Does every enqueued event end delivered or failed? | holds |
| `RunLifecycle` | Completion and verification under two handlers, a caller, changes, a death | holds |
| `RunEngine` | Without API callers: terminal is final, a completable run leaves `verifying` | holds |
| `ExecutionPlan` | Safety of a plan under faults and cancellation, and that every workstream settles without them | holds |
| `TokenBudget` | Do charges, totals and ceilings survive every way a reservation ends, and two deaths? | holds |
| `FileLock` | Does the lock make appends and clears atomic, and does every call end? | holds, until a steal races or a rewrite tears |
| `CommandExecution` | Executions, recoveries, a cancellation, an expiring claim and a restart in every order | holds |
| `ChildLifecycle` | Children of a run under cancellation, late aborts, deletions and a death | holds |
| `DeferredHandoff` | Deferred goals under two drains, user turns and starts of a runtime | holds |
| `RecoveryRefused` | "Recovery is durable and idempotent" | **violated**: the second recovery inserts an existing attempt id |
| `ReservationResettled` | "verify that a reservation is committed or cancelled exactly once" | **violated** after a restart: a committed reservation comes back as open, and the next hard stop cancels it |

The violated ones are the findings of `PROJECT.json`, each with the line it quotes and the line it blames.

The properties of the passing runs, with what each rules out:

- `DeliveredWasPublished`: a late worker, a crash or an expired lease forging a delivery.
- `GivenUpOnlyAfterMaxRetries`: attempt counts read at the claim and written later inflating the retry count.
- `UnsettledIsClaimable`: a row outside `claimDue`'s WHERE clause for ever.
- `ImplementsChannel` (refinement): a claim, an expiry, a requeue or a death that a producer could notice; a
  late `markDelivered` that revives a row given up.
- `EveryEntrySettles` (liveness).
- `CompletedHasReview`: `completed` written by anyone but the completion policy, or from another state than
  the reviewed one.
- `PassedMeansSatisfied`, `VerdictStable`: a verdict for a state that does not justify it, or overturned by
  the unguarded UPDATE of another handler.
- `TerminalImmutable`: a late compare-and-set moving a finished run.
- `VerifyingDoesNotStarve` (liveness): a verification requested by a handler that died is never taken up.
- `MergedNeverReruns`: a death between `git merge`, acknowledgement and status makes merged work run again or
  be reported failed.
- `VerdictIsFinal`: a plan with a verdict holds work that can still run, or a succeeded one holds a failure.
- `RunningIsLeased`: cancellation, recovery or an unwinding wave takes lease or worktree from running work.
- `DependenciesDelivered`: work was dispatched, or stays dispatched, on a dependency that did not deliver.
- `ImplementsGraph` (refinement): a recovery that reports integrated what git does not have, withdraws what
  another workstream was begun on, or lets one wait again that had begun.
- `NoneSilentlyPlanned` (liveness): a failure in the integration leaves dependents planned for ever.
- `ConsumedIsDurable`: a restart, a repeated message or the hard stop loses or doubles a charge.
- `Accounted`: one of the ways a reservation ends, or a rebuild, gives its claim back twice, or never.
- `GrantsWithinCeiling`: redistribution, or a restart, promises the same tokens to two prompts.
- `EndedHoldsNothing`, `StopIsFinal`: a terminated session keeps or gets a reservation; a restart revives a
  stopped run, or a reservation of it that was never settled.
- `ExclusiveUnlessRaced`: dead holders, empty files and retries let two tasks in without any steal of a live
  lock. `LogIsAtomic` (refinement): a line lost or written twice. `EveryCallEnds` (liveness).
- `OneAgent`: an execution and a recovery, or two executions with one key, prompt the workstream twice.
- `SingleFlight`: a release by someone who no longer holds the claim admits a second recoverer.
- `CompletedWasDecided`: a stale copy written back turns a cancelled or failed command into a completed one.
- `ExecutionEnds` (liveness): a recorded invocation stays `running` although its runtime lives.
- `RestartRestores`: a death between two commits, or a reconciliation, makes the service forget a session or an
  end that it has already acted on. `AssignmentFollowsChild`, `EndIsFinal`: events, cancellations and late replies
  leave row and assignment disagreeing, or move a child that has ended.
- `ReplacedAfterStop`: the replacing goal starts while a bound child of the old run works in the same tree.
- `CancelReturns` (liveness): a handle nobody resolves holds `cancelRun`.
- `OnePromptAtATime`, `AttemptsBounded`: a lost outcome, a second drain or a second runtime sends a goal again.
- `ResumedWasPrompted`, `NewestGoalOnly`, `OutcomeIsFinal`: reconciliation reports what did not happen, a
  withdrawn or superseded goal is prompted, or a drain that still holds it revives it.

Bounds, and why they are enough:

- Two workers, two rows, batch 2, lease 1 s, 2 retries: two workers are what it takes to race for a row; two
  rows to have a batch with a rest; a lease of 1 distinguishes live, last second and expired; with 2 retries
  the limit is both missed and hit. One fault or two place a death at every step, once or again.
- Two handlers, one caller, versions up to 5 or 6, two changes: a handler with a stale snapshot needs one
  other actor; five versions reach every phase and come back once through `recovering`.
- Three workstreams, c waiting for a and b: waves of two and of one, a dependency that fails while its sibling
  succeeds. Two faults: a death during recovery from a death, or a failing wave followed by a death. One
  cancellation, from any state.
- Token budget: three workstreams (one that completed and gave up its rest, one that receives it, one that
  competes), four reservations, three messages, needs 2 and 3 and usages 1 and 3 under ceilings 6 and 4 with the
  stop at 4, so that every ceiling is both met and missed; two deaths, the second of a rebuilt process. Workstreams, ids and messages are
  interchangeable, hence symmetric.
- File lock: three tasks in three processes, one of them clearing: a holder, a stealer and a third that finds
  what the steal left; one death.
- Command: two executions, two recoveries, one cancellation, one death, verification required.
- Children: two calls to one specialist, so that a session event has two candidates to bind to; one user
  message, one session the user may delete, one death.
- Handoff: two goals (one supersedes the other), four user turns, two drains, two starts.
- The history counters saturate where the properties stop telling values apart.

Fairness, and why the code justifies it:

- `OutboxDelivery`: every worker is polled by `setInterval` and continues a batch it has begun, and time
  passes. Crashes, failing transactions and requeues owe nothing.
- `RunLifecycle`: OpenCode keeps calling `session.idle` for a session that has unfinished work, and a handler
  continues after each await. Callers, changes and deaths owe nothing.
- `ExecutionPlan`: the executing process goes on, a dead one is started again, and a plan that returned or
  threw is executed again (`recoverCommand` does). That an agent's session ends is an assumption:
  `opencode-executor.ts` awaits `session.prompt` without a timeout. Faults and the canceller owe nothing.
- `FileLock`: the event loop of a live process goes on (weak), and the deadline of a call that keeps retrying
  passes: `acquireLock` compares the clock after every attempt, so a call that is again and again at that
  comparison eventually takes it (strong). Starts, ageing and deaths owe nothing.
- `CommandExecution`: the runtime goes on with the calls it has begun, with the same assumption about agents.
  No call owes to be made; claims may expire or not.
- `ChildLifecycle`: the event loop takes up handlers, timers and replies that are due; OpenCode and the user
  promise nothing. The first `session.abort` of a child has no timeout in the code: that it is answered, with
  success or failure, is an assumption.

The deadlock check is off where the system really stops: all rows settled, a terminal run, a budget spent, all
calls returned, all children ended. `ExecutionPlan` (a plan can be executed again) and `DeferredHandoff` (a drain
can always start) never stop, and there it is on.

## 4. Behaviours the model reaches

The properties above say what holds; some carry a condition (`~raced`, `~overran`, no API callers). These are the behaviours behind the conditions, and others a maintainer should know that the models
contain and no document rules out. Each is a reachable sequence of steps of its module.

- A worker slower than its lease publishes a row another worker has delivered meanwhile: the guard reads the
  claim's snapshot (`services/outbox-worker.ts:74`).
- Two workers with equal ids claiming in the same second write the same claim text and share the lease
  (`services/outbox-worker.ts:29`, `sqlite-delivery-sink.ts:142`).
- A terminal phase is overwritten by the API's UPDATE, which tests before an await and writes without a guard
  (`sqlite-transactional-run-writer.ts:121`).
- After a death between outcome and integration a dependent is dispatched on a dependency that is only
  `succeeded`, not merged (`execution/sqlite-repository.ts:101`).
- A workstream requeued as `ready` by recovery is never dispatched: ready to ready is an invalid transition
  (`execution/scheduler.ts:48`).
- Unwinding a wave throws when a workstream has an older lease in the released state
  (`execution/worktree-executor.ts:70`).
- A steal removes the lock of a live holder: the file was tested, and replaced before the unlink
  (`src/src/services/async-lock.ts:106`).
- A command completes with a workstream that was never integrated: a recoverer, beside a living execution or
  after a restart, gets empty lists from `executePlan`, which count as success
  (`commands/services/durable-command-executor.ts:344`).
- A committed reservation counts against its session's ceiling again after a restart, and the hard stop cancels
  it a second time (`src/src/services/token-usage-store.ts:376`).
- After a death between the two commits of a binding the child's row names no session, and memory does
  (`child-execution-lifecycle-service.ts:666`).
- A queued child without a session is recorded as confirmed cancelled, and its session is created afterwards
  (`services/child-execution-lifecycle-service.ts:606`); `ReplacedAfterStop` is about children seen running.
- Of two calls to one specialist, a session is bound to the call that happens to be alone
  (`child-execution-lifecycle-service.ts:276`); `ReplacedAfterStop` is about calls bound to their own session.
- A late unconfirmed abort sets `cancelRequested` on a record that has ended; it then counts as pending
  termination, and a goal deferred behind it is never drained (`child-execution-lifecycle-service.ts:536`).
- A user turn between a failed prompt and its retry makes the dispatch row incompatible, and the retry is lost
  (`services/continuation-policy.ts:264`).
- A replacement run that cannot be created leaves its goal `resuming` until the next start
  (`src/src/runtime/flowdeck-opencode-adapter.ts:1352`).

Read in the code, outside the models:

- A verification row marked stale stays stale when the state returns to its fingerprint
  (`services/verification-service.ts:179`).
- An attempt on the target item makes `evaluate` return before its last step (`transition-engine.ts:885`).
- A death between `git worktree add` and the lease leaves a worktree no row names
  (`execution/worktree-executor.ts:59`).
- A database write that fails after `git merge` reports merged work as failed (`execution/integration.ts:62`).
- `finalizePlan` runs before the integrations; a failure there leaves the plan `running`
  (`execution/scheduler.ts:66`).
- A second runtime on the same database requeues the running workstreams of the first (`composition.ts:846`);
  for deferred goals `DeferredHandoff` contains it.
- Two recoverers may generate different assignment ids (`execution/assignment-binding-coordinator.ts:32`).

## 5. Proofs

TLC examines the instances above; the theorems hold for every value of the constants under the named
assumptions (`SinkAssumption`, `RunAssumption`, `PlanAssumption`, `BudgetAssumption`, `LockAssumption`,
`CommandAssumption`, `ChildAssumption`, `HandoffAssumption`), which only say what the constants are: finite sets,
natural bounds, disjoint kinds of callers, `None` outside the other sets, dependencies within the plan.

| Theorem | States |
|---|---|
| `OutboxSafe`, `OutboxDelivered`, `OutboxClaimable` | `GivenUpOnlyAfterMaxRetries`, `DeliveredWasPublished`, `UnsettledIsClaimable` |
| `OutboxImplementsChannel` | the refinement `ImplementsChannel` |
| `RunSafe`, `RunTypes`, `RunPassed`, `VerdictsFinal` | `CompletedHasReview`, `TypeOK`, `PassedMeansSatisfied`; no step overturns a verdict |
| `EngineTerminal` | `TerminalImmutable` when there are no API callers |
| `PlanSafe`, `PlanTypes`, `PlanVerdict`, `PlanLeases`, `PlanDependencies` | `MergedNeverReruns`, `TypeOK`, `VerdictIsFinal`, `RunningIsLeased`, `DependenciesDelivered` |
| `PlanImplementsGraph` | the refinement `ImplementsGraph` |
| `BudgetTypes`, `BudgetDurable`, `BudgetAccounted`, `BudgetCeiling` | `TypeOK`, `ConsumedIsDurable`, `Accounted`, `GrantsWithinCeiling` |
| `BudgetEnded`, `BudgetStops` | `EndedHoldsNothing`, `StopIsFinal` |
| `LockTypes`, `LockExcludes`, `LockImplementsLog` | `TypeOK`, `ExclusiveUnlessRaced`, and the refinement `LogIsAtomic` |
| `CommandTypes`, `CommandOneAgent`, `CommandSingleFlight`, `CommandDecided` | `TypeOK`, `OneAgent`, `SingleFlight`, `CompletedWasDecided` |
| `ChildTypes`, `ChildRestart`, `ChildAssignment`, `ChildEnd`, `ChildReplaced` | `TypeOK`, `RestartRestores`, `AssignmentFollowsChild`, `EndIsFinal`, `ReplacedAfterStop` |
| `HandoffTypes`, `HandoffOnePrompt`, `HandoffAttempts`, `HandoffResumed`, `HandoffNewest`, `HandoffOutcomeFinal` | `TypeOK`, `OnePromptAtATime`, `AttemptsBounded`, `ResumedWasPrompted`, `NewestGoalOnly`, `OutcomeIsFinal` |

Each follows from an inductive invariant (`OutboxInvariant`, `RunInvariant`, `PlanInvariant`, `LockInvariant`,
`CommandInvariant`, `ChildInvariant`, `HandoffInvariant`, `BudgetInvariant`; `BudgetInv` and `StopInv` within `BudgetEnded`), proved with a lemma or
step per action and below it one per conjunct the action can disturb.

*OutboxInv.* A worker acts on what it read at its claim, whoever has touched the row since. `HandOK` says what
its locals still promise (the record in `markDelivered` was published; the attempt count in hand is at most
the failures recorded), `RetryCountJustified` bounds the row's counter by the same history. Without them
nothing connects a late `markFailed` with the failures that justify giving up. The refinement needs one fact more,
`HandSent`: a worker has in hand only rows that exist, since no transaction deletes one (`RowsStay`). Then each
visible step has its lemma (`EnqueueSends`, `PublishReaches`, `MarkDeliveredAcknowledges`, `MarkFailedRejects`,
`DeadLetterBuries`), and all others leave every fate as it is.

*RunInv.* `HandlersOK` says what a handler may rely on between awaits (the fingerprint it holds was
requested; the verdict it is about to write is the verdict of that fingerprint), `CallersOK` which statuses an
API caller may have in hand, `RowsOK` that verdicts are a function of the state they are for. The last is
what makes the unguarded write harmless: two writers agree. `EngineTerminal` uses that without callers every
write of a phase is the compare-and-set or the completion.

*PlanInv.* Twelve conjuncts; the safety properties need each other and these:
`WaveOK` ties the locals of `executePlan` to its step; `LeaseOK` says that whatever the second or third
`listReady` may return has been leased by this wave; `CancelOK` that the canceller's snapshot covers
everything that can still run when it reaches the leases, which is why releasing them is safe; `LimboOK`
that an integration whose outcome is not in the tables is in the hands of the step that is in it or of the
next recovery, with its branch still on disk so that git can be asked; `FreshOK` that nothing depending on
such a workstream has been dispatched; `HeadOK` that nothing the wave is about to merge or fail is merged;
`RestOK` that a plan that succeeded is at rest. For the refinement, `Acked` adds that what is acknowledged git has.
`FreshOK` is then what allows the two steps that withdraw a result (`FailMaps`, `RecoveryMaps`), and `LimboOK` that
the result an interrupted attempt withdraws is not merged.

*BudgetInv* and *StopInv.* The part of the type the arguments about control read, and that ended sessions hold
nothing, which is inductive over it. What a stopped run holds after a restart depends on the store: `Backed` says
that whatever the store has open is open in the controller or settled by a usage record. The hard stop cancels the
former, so a later rebuild can reopen only the latter.

*AccountInv.* `TypeOK`, `Linked` (what is open, in memory or in the store, has an owner; a prompt has its
own reservation), `Settled`, `ConsumedIsDurable` and `Accounted`. The last two are sums over sets of messages and of
reservations, and the controller never computes them: it adds and subtracts. So the proof rests on lemmas about
`SumOver`, which the community modules define by a recursive function over sets: a sum does not depend on the
order (`SumRemove`), on anything outside the set (`SumSame`), and splits (`SumWithout`). They are shown by a
smallest counterexample: the subsets of a finite set are well founded under strict inclusion, so if some subset
failed, a least one would (`SmallestSubset`), and one unfolding of the sum refutes that. With them each way a
reservation ends (`ClosingAccounts`), a grant (`ClaimAccounts`, `GrantFits`), a charge (`ChargeAdds`,
`ReconcileAccounts`) and the rebuild after a death (`RestartAccounts`) has its lemma. All three
hold in every process. That needs `Settled`: a committed reservation belongs to a workstream past its prompt, and
one that a rebuild has reopened to a workstream that is done, so no session is ended, no orphan recovered and no
prompt answered on it; only the hard stop touches it, and that closes everything at once.

*LockInv.* `HolderHasFile`: as long as no steal hit a live holder, the file in place is the holder's, so there is
one holder. `RewriterLives` and `ReadIsCurrent` say that a rewrite that was not torn belongs to a live task
whose copy is the log as it stands; with them each step maps to one `Call` of `TopicLog`, to `Break` or to a
stutter (`MappedStep`).

*CommandInv.* `Fresh` and `Early`: before the row exists nothing does, and the executor that created it is alone
until it persists its plan. `Agents`: an agent at work keeps the workstream running unless a cancellation took
it, so no second dispatch finds it ready. `Claimed`: until a claim runs out under its holder, it names the one
recoverer at work.

*Inv* of ChildLifecycle. `Rows` holds the agreement of memory, row, session row and assignment: `Cached` says how a record
may differ from its row (the row may lack the session), `Linked` that a record is bound exactly when its session's
row exists, `SessOK` that a finished session row agrees with the child's row; `PendOK` that the commits still to be made are those of the record's state,
which is why a death between them does no harm; `CancOK`
what `cancelRun` may rely on after each await; `Stops` that hooks, errors and deletions speak of sessions that
are over and that a child which ran is, in its end state, over too. `ReplacedAfterStop` follows because the
barrier and the drain both find every child ended or confirmed.

*Inv* of DeferredHandoff. `RowCounts` ties the prompts sent to the attempt count of the durable row and to the
failures reported; `ActiveIsNewest` says that only the newest goal has an active row, `DrainHolds` what a drain
knows of the goal it holds. The two action properties follow from it and the status conditions of the updates.

Only model-checked: liveness (`EveryEntrySettles`, `VerifyingDoesNotStarve`, `NoneSilentlyPlanned`,
`EveryCallEnds`, `ExecutionEnds`, `CancelReturns`). Liveness under fairness, ENABLED and RECURSIVE operators are
beyond the provers used; no module here declares a RECURSIVE operator. The library's induction theorems cannot be
used either (they take an operator as a parameter); where a proof needs induction, over the subsets a sum ranges
over, it argues by a least counterexample instead. Every other property of a passing run is a theorem;
`TerminalImmutable` is proved, as it is checked, for a run without API callers.

## 6. Not modelled

- *Two processes executing one plan*, or a runtime started while another executes its plan.
- *SQLite and git failures at arbitrary statements* of the plan's code: allocation and removal of worktrees and
  the merge may fail, database writes there do not. File system errors of the lock other than EEXIST, ENOENT.
- *Evidence and progress deltas* behind the fingerprint in `RunLifecycle`.
- *Token budget*: the chat hooks of `TokenBudgetRuntime` and assignment totals, which the workstream executor
  does not use; the estimates themselves (a need is any number of a small set).
- *Child lifecycle*: `markTimedOut`, which has no caller.
- *Continuation policy*: `evaluate`, a function of its input, and the in-memory claim used without a database.
- The components marked not modelled in the inventory. Most of the repository's lines are there: prompts, skills
  and commands as text, user interface, doctor, browser and studio tools, the release, qualification and
  benchmark scripts, and the adapters around the Rust code intelligence (`fdx`, `vci`), which call out, parse and
  report and keep no state whose interleavings or recovery a model would explore.

## 7. Plan

Done: `OutboxDelivery` refining `EventChannel`, `RunLifecycle`, `ExecutionPlan` refining `WorkGraph`,
`TokenBudget`, `FileLock` refining `TopicLog`, `CommandExecution`, `ChildLifecycle`, `DeferredHandoff`, with their
runs and proofs. Left, in this order:

1. Abstract specifications of a command (`CommandExecution`) and of a deferred goal (`DeferredHandoff`), and their
   refinements.
2. `ExecutionPlan` with two processes on one database.
3. `ParallelEngine`: ownership of files and fan-out limits of waves of native children.
4. `PullRequestMonitor`: the retry limits of its poll loop.

## 8. Running

    tlc -config ExecutionPlan.cfg MCExecutionPlan
    tlapm ExecutionPlanProofs.tla

`PROJECT.json` names the module and configuration of every run, maps every definition to the lines it models,
and lists for each property the seeded fault that breaks it.
