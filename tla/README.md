# HookClose: TLA+ models, checks and proofs

HookClose is a Python runtime for long-running software agents: three services
(scheduler, OpenCode worker, workflow engine) that move tasks through PostgreSQL
and Redis, and a library of asyncio components (providers with failover, routing,
task chaining, self-healing, workers) that the services are meant to host. This
directory models that code in TLA+, checks the models with TLC on small instances
and proves the main results with TLAPS for every instance.

## Inventory

| Part | State | Operations | Interacts through |
|---|---|---|---|
| `tasks/repository.py`, tables of `infra/postgres/init.sql` | rows: status, attempts, max_attempts, provider, error | `create`, `get`, `update_status`, `get_pending` | called by scheduler, worker, `scripts/create_test_task.py` |
| Redis | one list per provider, the channel `workflow:events` | LPUSH, BLPOP, PUBLISH, SUBSCRIBE | scheduler -> worker (list), both -> engine (channel) |
| `scheduler/main.py` | the fetched list, the loop variable | `poll_pg`: fetch, mark, push, publish | table, lists, channel |
| `opencode-worker/main.py`, `tasks/executor.py` | the popped message, `attempts` | `consume`: pop, mark, execute, complete / requeue / fail, publish | table, list, channel |
| `workflow-engine/main.py` | its subscription | `listen_events`: one INSERT per message | channel, table `events` |
| `providers/` (base, manager, registry, state, persistence) | health of each provider (status, failures, cooldown, tokens), saved snapshots | `candidates`, `complete`, `refresh`, `_record_success`, `_record_failure`, `_on_failure` | concurrent callers share the provider objects |
| `providers/routing.py` | none (pure) | `complexity_score`, `decide`, `route`, `_rank` | gives the manager its order |
| `orchestration/self_healing.py` | occurrences and repair attempts per failure signature | `handle_failure`, `_decide` | concurrent handlers share memory and history |
| `orchestration/chaining.py`, `orchestration/graph.py` | task graph, done set, chain records | `on_completed`, `on_failed`, `add_dependency`, `mark_done`, `ready` | concurrent callers that report outcomes, possibly more than once |
| `workers/openclaw.py`, `workers/workspace.py`, `workers/runners.py`, `workers/codegen.py` | task source, workspace, reports | `run_forever`, `execute`, `_execute_once`, `_generate` | several workers share the source; provider manager, event bus, artifact store |
| `workers/architect.py` | reviews per target and kind | `_run`, `_emit_events`, `_parse` | provider manager, event bus |
| `runtime/state.py` | one JSON document of the system state | `load`, `save`, `update`, `mark_*` | read-modify-write by several processes |
| `adapters/llm/openai.py`, `providers/errors.py`, `providers/implementations.py` | none | `_map_error`, `_invoke`, default profiles | from an SDK exception to the class of error the health reacts to |
| `workflows/` | none | edges of four machines, declared as "Pure data — no execution logic" | the dispatcher is a Protocol; nothing interprets them |
| `events/`, `contracts/`, `memory/`, `observability/`, `agents/`, `sandbox/`, `adapters/` | schemas, ports, thin adapters | - | - |

What is hard here:

* **Two writes that are not one.** The scheduler commits SCHEDULED and then pushes;
  the worker pops and then commits. Between the two, a failed call or a restart
  leaves a task nobody has.
* **Unguarded updates.** `update_status` names a row by id and checks nothing;
  `get_pending` locks nothing. That a task is dispatched once and that a finished
  row is not overwritten rests on the order of calls in three processes.
* **Retries.** `attempts` is written by one service and counted by another.
* **Pub/sub.** Events are lost while the engine is down and inserted late otherwise.
* **Awaits in the library code.** Provider health, repair history, chain records and the
  last review score are read before an `await` and used after it, while other coroutines
  change them.
* **Half-done work.** A claimed task is nowhere but in its worker; a retry runs in the
  workspace, and beside the containers, of the attempt before it.
* **A file as a database.** `update` reads, changes and renames without a lock, and a
  rename is not on the disk when it returns.

## Modules

The task pipeline (the core of the running system):

| Module | Models | State and actions |
|---|---|---|
| `TaskRepository` | `tasks/repository.py`, the table | `db`; `Create`, `UpdateStatus`, `IsPendingBatch` |
| `RedisBroker` | Redis as used (external) | `queue`, `subscribed`, `inbox`; `LPush`, `LPop`, `Publish` |
| `Scheduler` | `poll_pg` | `spc`, `batch`, `cur`; `Fetch`, `Mark`, `Push`, `PublishScheduled`, `SchedulerInterrupted` |
| `OpenCodeWorker` | `consume`, `execute_task` | `wpc`, `wtask`, `wattempts`, history `executions`; one action per awaited call, `WorkerInterrupted` |
| `WorkflowEngine` | `listen_events` | `recorded`; `Subscribe`, `RecordEvent`, `EngineInterrupted` |
| `TaskPipeline` | the services together, with clients and faults | `faults`; `Submit`, `RunScheduler`, `RunWorker`, `RunEngine`, `Fault` |
| `TaskLifecycle` | what an observer of the table may see of these services (abstract) | `status`, `attempts`, `limit` |
| `TestedLifecycle` | the life cycle that `tests/test_task_lifecycle.py` writes down (abstract) | `status`, `executions`, `limit`; `Submit`, `Execute`, `Move` |
| `TaskPipelineInvariant` | the inductive invariants | - |
| `TaskPipelineProofs` | the proofs | - |
| `MCTaskPipeline` | instances for TLC | - |

The library components, each with its own concurrency:

| Module | Models | State and actions |
|---|---|---|
| `FailureAnalysis` | `StacktraceParser`, `FailureAnalyzer`, `FailureSignature` | operators `Categorize`, `SignatureOf` |
| `SelfHealing` | `handle_failure`, `_decide`, memory and history | `occurrences`, `attempts`, `log`, a handler's local variables; `Analyze`, `Decide`, `Leave` |
| `ProviderHealth` | `BaseProvider`'s health transitions | operators `Refresh`, `HasBudget`, `RecordSuccess`, `RecordFailure` |
| `ProviderErrors` | the adapter's `_map_error`, the errors providers raise | operators `MapError`, `Raised`, `Kind` over every SDK exception |
| `ProviderFailover` | `ProviderManager.complete`, the state store, a restart; errors are those of `ProviderErrors`, a stub raises none (`CanFail`) | `health`, `stored`, a caller's local variables; `Begin`, `Invoke`, `Reply`, `InvokeFails`, `Save`, `FailOver`, `Abandon`, `Tick`, `Restart` |
| `Routing` | profiles, `complexity_score`, `_rank`, `decide`, `build_provider_registry` | operators `Complexity`, `Score`, `Ahead`, `Decide`, `BuildRegistry` |
| `RoutingEngine` | `route` on a registry that is extended while it runs | `registered`, `request`, `decision`; `Register`, `Route`, `Use` |
| `TaskGraph` | `TaskDependencyGraph` | `nodes`, `deps`, `done`; `AddDependency`, operators `Reaches`, `Refused`, `Ready` |
| `TaskChaining` | `TaskChainer`, its store and its clients | `meta`, `reports`, `recorded`, `held`, a handler's local variables; `Submit`, `Require`, `OnCompleted`, `OnFailed`, `Record`, `Return`, `Raise` |
| `OpenClawWorker` | `run_forever`, `execute`, `_execute_once`, workspace, runners, code generation | `source`, a worker's local variables, `written`, `done`, `leftover`, `reports`, `last`; one action per awaited call, `Raise`, `RequestStop`, `ContainerExits` |
| `TaskExecution` | what the events about a task promise (abstract) | `phase`, `attempt`, `limit`; `Start`, `Restart`, `Succeed`, `Fail`, `Retry` |
| `ArchitectWorker` | `ClaudeArchitectWorker._run`, the review store, its events | `history`, `emitted`, a review's local variables; `Begin`, `ReadPrevious`, `Answered`, `Unavailable`, `Save`, `EmitEvent`, `Raise` |
| `RuntimeState` | `RuntimeStateStore.update`, the file system under it | `file`, `durable`, an updater's local variables; `Load`, `OpenTemp`, `Write`, `Replace`, `Fail`, `Kill`, `Flush`, `PowerLoss` |
| `SelfHealingProofs`, `ProviderFailoverProofs`, `RoutingEngineProofs`, `TaskChainingProofs`, `OpenClawWorkerProofs`, `ArchitectWorkerProofs`, `RuntimeStateProofs` | the proofs | - |
| `MCSelfHealing`, `MCProviderFailover`, `MCTaskChaining`, `MCRoutingEngine`, `MCOpenClawWorker`, `MCArchitectWorker`, `MCRuntimeState` | instances for TLC | - |

All but `RuntimeState` are asyncio code: a coroutine runs undisturbed from one `await` to the next, so a
step is what lies between two of them, and the constant `Handlers` or `Callers` is the
set of calls that may overlap. Any awaited call may raise or be cancelled (`Leave` of a
handler, `Abandon`, `Raise`). In `SelfHealing` the point of interest is `prior_attempts`, read
before the event `FailureAnalyzed` is awaited and used after it. In `ProviderFailover`
it is that an outcome is recorded in the health as it is when the answer comes, not as
it was when the call began. `cooldown_until` is kept as the time left; `Tick` is one
unit of time. `Save` is two steps (snapshot, store), as with the Redis store; with the
in-memory store it is one, which is the case where nothing happens in between. The
store outlives a restart.

In `TaskChaining` a handler marks, makes and links the child in one step (there is no
`await` before the store is called), then awaits the store (`Record`) and the bus
(`Return`); a call that raises loses the child to its caller, not to the graph. Outcomes
may be reported again, of a task that is done or has failed before: the code keeps no
record of what it has answered. `attempts` is whatever the reported task carries.
`_reaches` is given by what its search computes: the target is in every set of tasks
that contains the start and is closed under prerequisites.

`Routing` works in integers: complexities in hundredths, scores as the numbers `_rank`
rounds to six digits, scaled; `decide` is a function from the candidates to their
places. The profiles are the repository's own, so the rank is checked on them and not on
invented costs. The module is used three times: by `RoutingEngine`, by `ArchitectWorker`
(a review is answered only if a registered provider has the capability of its kind), and
by `MCProviderFailover`, whose `Requests` are the orders `Decide` gives for the registries
`build_provider_registry` makes with one key and with both (written out, and compared with
`Decide` by an ASSUME).

In `OpenClawWorker` a task's payload is what the control branches on: `max_attempts`,
whether it asks for generation, how many steps it has. A command cannot be started,
exceeds its timeout, or exits with a code; with the Docker runner a command that exceeds
its timeout leaves its container running (`leftover`), because only the `docker` client is
killed. An exception that escapes `consume_once` ends `run_forever` (`Raise`, "dead"). The
events `started`, `succeeded`, `failed` and `retry` are kept as the last one of each task,
which is the refinement mapping to `TaskExecution`.

In `ArchitectWorker` the variable `abase` is how many reviews were saved when the score
that drift is measured against was read; it is what relates a review, saved later, to the
one it was compared with. A kind of review needs a capability (`KindCapability`); without
a provider for it the review is saved with score 0 and announced by no event.

`RuntimeState` distinguishes the file as processes see it (`file`) from what a power loss
would bring back (`durable`): the content is synced before the rename, the rename itself
is not. `stale` and `undone` are history variables: an update has written over one it had
not loaded; a power loss has undone a rename.

The task pipeline: every awaited call of `poll_pg` and `consume` is a step of its own, because another
process may run between two of them. A row abstracts `task_type` and `payload` to the
outcome `execute_task` has for them: it is a deterministic function of both, returns
a result or an error, or lets an exception escape. `result`, `workflow_id` and
wording are left out. An interruption (`*Interrupted`) is a call that raises, or a
process that dies and is restarted by Docker: the call took effect or it did not, and
what the process had in memory is gone. An idle poll (no pending row, empty list, no
message) changes nothing and is a stuttering step, so deadlock checking is off: a
pipeline whose tasks are all done simply waits.

The database and the driver are the variable `deployment`, chosen in `Init` from the constant
`Deployments` and never changed: whether `tasks` has the column `error` (no schema of the
repository has it, `update_status` writes it), whether `events.workflow_id` is a foreign key
(in `infra/postgres/init.sql` it is), and whether asyncpg decodes jsonb (it returns text
unless a codec is set, and no service sets one). `pipeline_safety` and the proofs are about
every one of these databases. As shipped, `get_pending` raises on every row and nothing is
scheduled (run `pipeline_shipped`); the behaviours in which tasks move are those of the
databases with a codec, and those in which a failure is recorded, or a task retried, have the
column as well. For what happens without the column see theorem `FailuresGoUnrecorded`.

`TaskLifecycle` and `TestedLifecycle` differ on purpose. The first is what the services
write: a task that waits for a retry is RUNNING next, because the worker puts it back into its
list itself. The second is what the tests say: RETRYING leads to SCHEDULED or FAILED, and a
task fails after `max_attempts` executions. The pipeline implements the first
(`ImplementsLifecycle`, proved) and not the second (run `pipeline_tested`).

## Runs

| Run | Instance | Shows |
|---|---|---|
| `pipeline_safety` | 2 tasks of 5 kinds, 2 workers, 2 faults, all 8 databases, symmetry | `OneCopy`, `BoundedExecutions`, `LossBoundedByFaults`, `RecordedEventsTrue`, `ImplementsLifecycle` |
| `pipeline_shipped` | the same tasks and workers, the shipped database and driver, no fault | violation of `TasksFinish`: nothing is ever scheduled |
| `pipeline_tested` | 1 failing task of 3 attempts, 1 worker, a database on which the code works, no fault | violation of `ImplementsTestedLifecycle` |
| `healing_safety` | 2 handlers, 3 signatures, at most 4 failures of each | `LlmRepairsBounded`, `EscalationJustified` |
| `healing_limit` | the same | violation of `RepairsWithinLimit`: two handlers share the last attempt |
| `failover` | 2 callers; openrouter, with a budget of 2, and the local stub; 1 restart | `HealthConsistent`, `OverrunBounded`, `StubServes`, `CooldownHonoured`, `ExhaustedStaysOut`, `CallsEnd`, `LimitedRecovers` |
| `failover_threshold` | 1 caller; openrouter, openai and the local stub in the orders of a trivial and a complex request | violation of `ThresholdCoolsDown`: FAILED never recovers |
| `chaining_safety` | 4 tasks, 2 handlers, depth 2, 2 reports each, 2 edges of clients, 1 raise, symmetry | `Acyclic`, `ChainBounded`, `HeldAreRecorded`, `OrphansBoundedByRaises`, `ReadyAfterParent` |
| `routing` | every registry of the six known providers, 6 capabilities, requests at the edges | `RankedByCost` (`CostOrder`, `LocalLast`), `FallbackServes`, `TypeOK` (the order is strict) |
| `openclaw` | 2 workers, 2 tasks of 2 kinds, Docker, 1 raise | `LossBoundedByRaises`, `ExecutedOnce`, `ReportsMatchEvents`, `SuccessIsWhole`, `LeftoversBounded`, `ImplementsExecution`, `SourceDrained` |
| `architect` | 2 callers, 2 targets, 3 reviews, scores one threshold apart | `DriftMatchesHistory`, `EventsMatchReviews`, `SilentBoundedByRaises`, `TypeOK` |
| `runtime_state` | 2 updaters, 2 prompts, 2 phases, 3 updates, 2 crashes, symmetry | `ReadersSeeWholeDocuments`, `CompletionsKept` |

The type invariants of the pipeline, self-healing, failover, chaining, the OpenClaw worker and
the runtime state, the pipeline's `PlaceInvariant`, `TerminalIsFinal`, `OneAttemptShort` and
`FailureUnrecorded`, `RepairsBounded` and `RetriesBounded` of `SelfHealing`, `ThresholdByName`
of `RoutingEngine` and `StrayBounded` of `RuntimeState` are proved (below) and not part of a
run.

Bounds: two tasks are enough for one task to overtake another in a list, in a batch
and between two workers. `max_attempts` of 1 and 3 covers no retry and one retry. Two faults let
the recovery of one be hit by the next. Four failures per signature pass both limits
of the repair policy (2 attempts, rollback at 3) with an overlap at the limit. Two
callers let one succeed after the other has failed, or spend a budget the other has just
spent; a budget of 2 and responses of 0 to 2 tokens reach the limit from below and jump over
it; the provider with a key and the stub are what `build_provider_registry` makes of one key. Four tasks
allow two roots with a child each, or one root with siblings and a grandchild refused by
the depth limit; with two edges of clients a cycle can close over any mix of chain links
and their own. In `routing` the requests meet both ends of the clamped complexity, exactly
0.5, every context window and one no provider has. In `openclaw` a task with generation
and one retry and one with two steps and `max_attempts` 0 (which the code takes as 1)
meet every branch of `execute`; the raise may hit any await. In `architect` the scores
-5, 85 and 120 are 0, 85 and 100 once clamped: from 100 to 85 is a drop of exactly the
threshold, and a review without a provider has the same 0 as a genuine one; three reviews
let two overlap and a third be compared with either. In
`runtime_state` three updates let a stale one overwrite a completed one and a third read
the result, two crashes let a power loss follow a kill. Deadlock checking is off in
the pipeline's runs, the healing runs, `chaining_safety`, `openclaw`, `architect` and `runtime_state`: when the tasks, the
source, or the failures, reviews or updates a run allows are used up, nothing is left to do. Where a component has
proofs, they remove these bounds.

Fairness: weak fairness of each service's loop. Each is a `while` loop that polls with
a timeout and handles every exception, and Docker restarts a process that exits
(`restart: unless-stopped`). Nothing is assumed of clients or of faults. In
`ProviderFailover`: weak fairness of the clock and of every call under way, which the
event loop runs when what it awaits is done; a vendor's call ends because the client
is built with a timeout (`OpenAIAdapter.from_api_key`, 60 s). In `OpenClawWorker`: weak
fairness of each worker's steps; a command has a timeout, a provider call ends by
`CallsEnd`, and the other calls are local. That containers ever exit, that anybody asks
the workers to stop, and that no call raises is not assumed. That clients keep calling is
not assumed either; it is the premise `Wanted` of the two properties that need it.

## Proofs

`TaskPipelineProofs` proves `Spec => [](TypeOK /\ PlaceInvariant)` for any finite set of
tasks, any sets of workers, providers and submissions, any bound on faults, any
databases, and one scheduler (`SchedulerAssumption`: the deployment starts one; with two,
`get_pending` would hand both the same row).

None of the safety properties is inductive alone: that a worker's write is legal needs
to know that nobody else has the task, which needs to know that the list entry it came
from was the only one, which needs the scheduler not to dispatch a row twice.
`PlaceInvariant` says it once: a task's single copy is with the scheduler, in a list or
with a worker, and whoever has it knows its status and its count of attempts; events
on the channel or in the table are true of their rows and, statuses only moving
forward, stay true. The proof has one lemma per action and frame lemmas for the parts
an action leaves alone.

From it follow `OneCopy`, `BoundedExecutions` and `RecordedEventsTrue` as invariants, the sharper
`OneAttemptShort` (theorem `RetriesFallOneShort`: at most `max_attempts - 1` executions, and one
for limits below 3),
`TerminalIsFinal` as an action property, and `Spec => ImplementsLifecycle`: every write to
the table is one of the moves of `TaskLifecycle` (lemma `NextIsTableStep`).

`LossBoundedByFaults` bounds the size of a set, so the proof is about what a step adds to it.
A task in an unfinished status is not lost while it is pending, in a list, in dispatch or
with a worker (`Kept`). Lemmas `WorkerStepLosesNone` and `SchedulerLoses` show that a step
of a service hands it from one of these to the next; an interruption drops what one process
holds, which `PlaceInvariant` says is one task (`WorkerInterruptedLosesOne`). Then the set
grows by at most one element exactly when `faults` does (`LossCount`).

`FailureUnrecorded` needs more than `PlaceInvariant`, which says nothing of results:
`OutcomeInvariant` ties a worker's place after `execute_task` to the outcome of its task, and
says that a failing task whose error cannot be stored is executed once and keeps RUNNING.
TLC checked it on small instances before it was proved.

`SelfHealingProofs` proves the types, `RepairsBounded` (what holds in place of the documented
limit) and the other three bounds of `SelfHealing` for every policy, any finite
set of handlers and any outputs. The bound on repairs is not inductive because a
handler's decision is made by a number that may be old. The strengthening (`RepairBudget`,
`LlmBudget`, `RetryBudget`) counts the handlers that have read a number below a limit and
not yet decided: what is recorded and the decisions still outstanding together stay
below the bound. `OldReads` says that a number read is never ahead of the count, which
is why an escalation by an old number is still justified.

`ProviderFailoverProofs` proves `HealthConsistent` (with the types), `OverrunBounded` and
the action property `CooldownHonoured` for any providers, budgets, orders, number of
overlapping calls and restarts. `CooldownHonoured` covers the steps of calls that are
still invoking a provider when another call's failure sends it into a cooldown: their failures
may change or extend the cooldown, and the answer of one of them, and nothing else, makes it
AVAILABLE before the time is over. No call lists the provider anew or begins to invoke it. The invariant for the budget, `OverrunInvariant`, adds
to the tokens spent the largest response for each call that still lists the provider:
listing adds a call only below the budget, and an answer moves its tokens from one
summand to the other. `ExhaustedStaysOutForGood` proves that a spent budget keeps a provider
out of every list until a restart, whatever late answers do to its status.
`StubAlwaysServes` proves that no call fails over to an empty list if every request may use
a stub: its invariant says that a stub's health is never touched by a failure and that a
call under way still has the stub before it (`StubInvariant`).

`TaskChainingProofs` proves the five properties of `TaskChaining` for any finite set of
tasks, any policy and any handlers. Acyclicity is stated without paths: every set of
tasks has a member with no prerequisite in it. If the edge t -> u is accepted, there is a
closed set C with u and without t; a set S that violated the property after the edge
would violate it before, as S cut with C, or as S if u is not in it (lemma
`AddDependencyAcyclic`). The bound on children is inductive together with the count of
reports, the bound on orphans with what the handlers still have; `Linked` adds that a
generated task depends on its parent, `Audited` that what is announced is recorded.
Lemma `FreshNotRefused` shows that the `CycleError` of `add_dependency` cannot occur in
`_link_and_record`.

`OpenClawWorkerProofs` proves the six invariants of `OpenClawWorker` and
`Spec => ImplementsExecution`, for any finite sets of tasks and workers, any payloads (also
limits below 1), either runner and any number of raises. A worker's events, reports and
counters are written by different calls, so each of the properties depends on where in
`execute` a worker is: `Progress(w)` says, for every place, what the last event of its task
is, which reports are stored, how many steps of this attempt were run and how many containers
there may be; `TaskRecord(t)` is what holds of a task whoever has it. That one worker's step
leaves the others' progress alone rests on `ExecutedOnce`, which in turn needs a claimed task
to be fresh (`SourceIsFresh`: no event, no report, nothing run). With these, each step is a
move of `TaskExecution` for one task or a stutter (lemmas over the events, then theorem
`EventsAreAnExecution`).

`ArchitectWorkerProofs` proves the four invariants of `ArchitectWorker` for any callers,
targets, registries and answers. `BeforeSave` and `AfterSave` say of a review under way what
its result was compared with and where in the history it was saved; histories only grow
(`Grows`), so what they say of a saved place stays true while others save. For
`EventsMatchReviews` they give the events of a review that are out by each place in
`_emit_events`. `Counted` bounds histories by the reviews begun, and `SilentCounted` follows
the argument of `LossBoundedByFaults`: only `Raise` takes a caller away from a review that
is not announced.

`RoutingEngineProofs` proves the properties of `RoutingEngine` (with `ThresholdByName`) for any set of requests,
hence for every priority, number of retries and size, where the run takes the edges, and
for every registry that `build_provider_registry` and later registrations can make of the known
profiles. Its lemmas are about the operators of `Routing`. `ScoreByCost`: with equal weights
two affinities differ by (100 - 2k) times the difference of costs, so before the division
two scores that differ do so by more than the divisor, and rounding keeps them apart.
`LocalScoresLess`: from a complexity of 0.1 upwards, which is the least one a task can have
(`ComplexityRange`), ten times the weight outdoes having no cost. `AheadIsAnOrder` and
`RankIsPlace`: scores and names make a strict order, and counting who is ahead numbers any
finite set 1 to n in that order.

`RuntimeStateProofs` proves the four invariants of `RuntimeState` for any processes,
prompts, phases, updates and crashes. The strengthening says of an update under way that its
document is sound and keeps the completions of the file it loaded (`UpdatesExtend`, which
rests on lemma `MutationsExtend` about the three operations on a document), and that
without a rename since the last flush the disk has the file (`Flushed`). If the file has not
changed since the load, the rename therefore loses nothing; if it has, `stale` says so.

Only model-checked: the liveness properties `CallsEnd`, `LimitedRecovers` and `SourceDrained`
(the prover has no fairness reasoning). Every invariant, action property and refinement a passing run checks is also a
theorem. What no proof covers beside liveness: that the bounds of the models are those of
the code's resources, and the operators of `FailureAnalysis` and `ProviderErrors`, which are
tables; the proofs that use them hold for every class of failure and every error.

## Findings

Four runs end in a violation, each of something the repository says of itself:

* `pipeline_shipped`: `tests/test_task_lifecycle.py:121-122` gets a PENDING row from
  `get_pending`, line 201 ends the task in COMPLETED and line 233 a failing one in FAILED, all
  with mocks. With asyncpg as the services open it, `dict(row["payload"])`
  (`tasks/repository.py:90`) is given a string and raises for every row; the poll loop logs it
  and a submitted task stays PENDING for ever. The behaviour ends in stuttering under weak
  fairness of all services. A codec would not be enough: the UPDATE that records an error
  names a column no schema has, and the row stays RUNNING (theorem `FailuresGoUnrecorded`).
* `pipeline_tested`: `tests/test_task_lifecycle.py:248` allows RETRYING to become SCHEDULED
  or FAILED, line 232 expects three executions of a task with `max_attempts` 3. The worker
  goes from RETRYING to RUNNING (the step TLC reports), and as `attempts` is 1 before the first
  execution (`scheduler/main.py:85`) the task is FAILED after two (theorem
  `RetriesFallOneShort`). `BoundedExecutions` is the bound both agree on.
* `healing_limit`: `orchestration/self_healing.py:9-10` says that a signature is repaired at most
  `max_repair_attempts` times. Two overlapping failures read the count before either repairs;
  the excess is at most one per further handler (`RepairsBounded`, theorem `RepairsAreBounded`).
* `failover_threshold`: `providers/base.py:9` says of other errors "COOLDOWN once the threshold
  is hit"; the code sets FAILED with a `cooldown_until` that `refresh` never consults, and the
  provider does not come back.

Properties that hold, and say something else than a document or a test of the repository:

* `LossBoundedByFaults`: a fault between two writes loses a task, while `tasks/base.py:13`
  speaks of "at-least-once" delivery. `LossBoundedByRaises` is the same of the OpenClaw
  worker: `claim` removes the only copy and nothing puts it back.
* `CooldownHonoured` holds between two restarts: `providers/persistence.py:3-5` stores the
  health so that it survives one, and nobody calls `load`. It allows what the code does with a
  late success: `_record_success` ends a cooldown another call's failure has just begun.
* `ThresholdByName` (theorem `RoutesByCost`): `providers/routing.py:56` says "At/above this
  complexity, ordering favors quality", and the reason at line 159 says "quality-weighted" at
  0.5, but there the two terms of the score cancel and the order is alphabetical; 0.5 is the
  complexity of code generation without a hint. `RankedByCost` says nothing about 0.5.
* `CostOrder`: below the threshold the cheapest of one weight is first. With the default
  profiles that is gemini, not opencode as the docstring has it ("simple codegen→opencode",
  `providers/routing.py:20`).
* `FallbackServes` holds for code generation and extraction only: the local stub has no
  other capability and the composition root registers no provider with ARCHITECTURE, so
  with its registry every architecture review ends in `NoProviderAvailable`, although the
  docstring of `LocalProvider` says that the runtime can always degrade gracefully.
* `DriftMatchesHistory`: a review without a provider is saved with score 0, and the next
  review is compared with that: an outage hides a drift. A review that overlaps another is
  compared with the one before both.
* `LeftoversBounded`: with Docker, a step of a later attempt may share its workspace with
  containers of earlier ones; the timeout kills the client only.
* `CompletionsKept`: `update` takes no lock, so an overlapping update silently undoes an
  acknowledged one; the directory is not synced, so a power loss may.

A repair task depends on the task that failed, and `on_failed` does not mark that task
done: by `ReadyAfterParent` the repair is not ready until the failed task is itself
reported as completed.

What no property is about, because nothing in the repository depends on it or says what
should happen: the foreign key of `infra/postgres/init.sql` rejects every event, since no
publisher sends a `workflow_id`; a ROLLBACK does not count as a repair attempt, so a failure
that is not mechanically fixable never escalates under the default policy; a repair that
moves the failing line gives the failure a new signature; provider snapshots may be stored
out of order and nobody reads them; escalations of a chain are emitted and not recorded.

## Not modelled

* Redis losing its lists (append-only file), the single PostgreSQL connection of the
  engine, graceful shutdown, heartbeats and health servers.
* Text: prompts, wording of events, formats. Hash collisions of failure signatures. A score
  of NaN or infinity, which Python's JSON reader accepts and `int()` refuses: as for any
  exception, the review raises (`Raise`).
* `stream` and `embed` of the OpenAI adapter: nothing calls them.
* `workflows/`: the four machines are declarations. The dispatcher that would run them is a
  Protocol with no implementation, so there is no code whose steps a model could have.
* Ports, stubs and start-up wiring: `contracts/`, `events/`, `memory/`, `observability/`,
  `agents/`, `sandbox/`, the other adapters, `runtime/bootstrap.py`, `runtime/cli.py`, the
  Celery configuration in `tasks/`, `orchestrator.py`.

## Plan

Done, in this order: the pipeline with its life cycle and proofs; self-healing; provider
failover; task graph and chaining; provider errors and routing, composed with the failover;
the OpenClaw worker with the execution its events promise; the architect worker; the runtime
state store; then the proofs of every safety property the runs check. What is left:

1. An abstract repair budget (a signature's repairs, each licensed by a recorded failure)
   that `SelfHealing` implements, with the refinement proved.
2. An abstract document store that `RuntimeState` implements between overlapping updates and
   power losses: a sequence of whole documents of which readers see one.
3. The composition of `RoutingEngine` with `ProviderFailover` for every request, beyond the
   two orders `MCProviderFailover` takes from `Decide`.
