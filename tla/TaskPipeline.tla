---------------------------- MODULE TaskPipeline ----------------------------
(***************************************************************************)
(* The task pipeline: clients that create rows, the scheduler, the         *)
(* opencode workers, the workflow engine, and the faults between them.     *)
(***************************************************************************)
EXTENDS Scheduler, OpenCodeWorker, WorkflowEngine

CONSTANT MaxFaults  \* bound on calls that raise and processes that die

ASSUME FaultsAssumption == MaxFaults \in Nat

\* The deployment starts one scheduler container. get_pending takes no lock,
\* so what follows depends on it.
ASSUME SchedulerAssumption == \A s, r \in Schedulers : s = r

VARIABLE faults

vars == <<db, deployment, brokerVars, schedulerVars, workerVars, recorded, faults>>

Init ==
  /\ deployment \in Deployments
  /\ db = [t \in Tasks |-> NoRow]
  /\ queue = [p \in Providers |-> <<>>]
  /\ subscribed = FALSE
  /\ inbox = <<>>
  /\ spc = [s \in Schedulers |-> "poll"]
  /\ batch = [s \in Schedulers |-> {}]
  /\ cur = [s \in Schedulers |-> NoTask]
  /\ wpc = [w \in Workers |-> "blpop"]
  /\ wtask = [w \in Workers |-> NoTask]
  /\ wattempts = [w \in Workers |-> 0]
  /\ executions = [t \in Tasks |-> 0]
  /\ recorded = {}
  /\ faults = 0

\* create_test_task.py: one row; its message to tasks:pending has no listener.
Submit(t, sub) ==
  /\ Create(t, sub)
  /\ UNCHANGED <<deployment, brokerVars, schedulerVars, workerVars, recorded,
                 faults>>

RunScheduler(s) ==
  SchedulerStep(s) /\ UNCHANGED <<deployment, workerVars, recorded, faults>>

RunWorker(w) ==
  WorkerStep(w) /\ UNCHANGED <<deployment, schedulerVars, recorded, faults>>

RunEngine ==
  EngineStep /\ UNCHANGED <<db, deployment, schedulerVars, workerVars, faults>>

Fault ==
  /\ faults < MaxFaults
  /\ faults' = faults + 1
  /\ UNCHANGED deployment
  /\ \/ \E s \in Schedulers : SchedulerInterrupted(s)
                              /\ UNCHANGED <<workerVars, recorded>>
     \/ \E w \in Workers : WorkerInterrupted(w)
                           /\ UNCHANGED <<schedulerVars, recorded>>
     \/ EngineInterrupted /\ UNCHANGED <<db, schedulerVars, workerVars>>

Next ==
  \/ \E t \in Tasks, sub \in Submissions : Submit(t, sub)
  \/ \E s \in Schedulers : RunScheduler(s)
  \/ \E w \in Workers : RunWorker(w)
  \/ RunEngine
  \/ Fault

\* Every service is a loop that runs until it is stopped, and a container
\* that dies is restarted: each keeps taking steps. Clients and faults owe
\* nothing.
Fairness ==
  /\ \A s \in Schedulers : WF_vars(RunScheduler(s))
  /\ \A w \in Workers : WF_vars(RunWorker(w))
  /\ WF_vars(RunEngine)

Spec == Init /\ [][Next]_vars /\ Fairness

-----------------------------------------------------------------------------

\* The types of what changes, beside the database in use.
StateOK ==
  /\ db \in [Tasks -> Row]
  /\ queue \in [Providers -> Seq(Tasks)]
  /\ subscribed \in BOOLEAN
  /\ inbox \in Seq(Event)
  /\ spc \in [Schedulers -> SchedulerPc]
  /\ batch \in [Schedulers -> SUBSET Tasks]
  /\ cur \in [Schedulers -> Tasks \cup {NoTask}]
  /\ wpc \in [Workers -> WorkerPc]
  /\ wtask \in [Workers -> Tasks \cup {NoTask}]
  /\ wattempts \in [Workers -> Nat]
  /\ executions \in [Tasks -> Nat]
  /\ recorded \subseteq Event
  /\ faults \in Nat

TypeOK == deployment \in Deployments /\ StateOK

Terminal == {"COMPLETED", "FAILED"}

\* Somebody still has t to hand: the scheduler between the two writes of a
\* dispatch, a list, or a worker.
Dispatching(t) == \E s \in Schedulers : cur[s] = t /\ spc[s] = "push"
Queued(t) == \E p \in Providers : InQueue(t, p)
Held(t) == \E w \in Workers : wtask[w] = t

\* Task t is not done and nobody will ever act on it again.
Orphan(t) ==
  /\ db[t].status \in {"SCHEDULED", "RUNNING", "RETRYING"}
  /\ ~Dispatching(t) /\ ~Queued(t) /\ ~Held(t)

\* The code itself drops these without any fault: execute_task raises, or the
\* table has no column for the error.
DroppedByCode(t) ==
  \/ db[t].outcome = "raise"
  \/ db[t].outcome = "error" /\ ~ErrorColumn

\* At most one copy of a task is under way: it is being dispatched, or it is
\* in one list once, or one worker has it. get_pending locks nothing and
\* update_status checks no status, so nothing in the database prevents two.
OneCopy ==
  \A t \in Tasks :
    /\ \A w, v \in Workers : wtask[w] = t /\ wtask[v] = t => w = v
    /\ \A p, q \in Providers : \A i \in 1..Len(queue[p]), j \in 1..Len(queue[q]) :
         queue[p][i] = t /\ queue[q][j] = t => p = q /\ i = j
    /\ Queued(t) => ~Held(t) /\ ~Dispatching(t)
    /\ Held(t) => ~Dispatching(t)

\* The retry loop of the worker is bounded: a task is executed at most
\* max_attempts times (once if that is 0), whichever workers pop its copies
\* and however their calls are interrupted.
BoundedExecutions ==
  \A t \in Tasks : executions[t] <= (IF db[t].max = 0 THEN 1 ELSE db[t].max)

\* What the retry loop really gives: the scheduler already writes attempts = 1,
\* so with max_attempts = m a task is executed at most m - 1 times (once if
\* m <= 1), and the row of a failed task counts one attempt more than it had
\* executions. tests/test_task_lifecycle.py:205-234 expects m executions.
OneAttemptShort ==
  \A t \in Tasks :
    /\ executions[t] <= (IF db[t].max <= 2 THEN 1 ELSE db[t].max - 1)
    /\ db[t].status = "FAILED" => db[t].attempts = executions[t] + 1

\* Each fault loses at most one task: an exception in the middle of a batch
\* leaves the rows it has not reached PENDING for the next poll.
LossBoundedByFaults ==
  Cardinality({t \in Tasks : Orphan(t) /\ ~DroppedByCode(t)}) <= faults

\* What the event table says of a task is so: a row task_completed means the
\* task is COMPLETED, task_failed that it is FAILED with its error stored,
\* task_scheduled that it left PENDING, however late the engine inserts it.
RecordedEventsTrue ==
  \A e \in recorded :
    /\ e.event = "task_completed" => db[e.task].status = "COMPLETED"
    /\ e.event = "task_failed" =>
         db[e.task].status = "FAILED" /\ db[e.task].error
    /\ e.event = "task_scheduled" => db[e.task].status # "PENDING"

\* COMPLETED and FAILED are final: no late write of the scheduler or of a
\* worker touches the row of a finished task.
TerminalIsFinal ==
  [][\A t \in Tasks : db[t].status \in Terminal => db'[t] = db[t]]_vars

\* The rows of the pipeline follow the life cycle of TaskLifecycle: what the
\* services write, RETRYING -> RUNNING included.
Lifecycle == INSTANCE TaskLifecycle WITH
  Limits   <- {sub.max : sub \in Submissions},
  status   <- [t \in Tasks |-> db[t].status],
  attempts <- [t \in Tasks |-> db[t].attempts],
  limit    <- [t \in Tasks |-> db[t].max]

\* Every write to the table is a step of the life cycle: no status is skipped,
\* repeated or taken back, a task is retried exactly while attempts are left.
ImplementsLifecycle == Lifecycle!Spec

\* With the tasks table of infra/postgres/init.sql, which has no column error,
\* no failure is ever recorded, against tests/test_task_lifecycle.py:232-234:
\* the row stays RUNNING as it was, and the task is executed once and not
\* queued again, however many attempts it has.
FailureUnrecorded ==
  ~ErrorColumn =>
    \A t \in Tasks :
      db[t].outcome = "error" =>
        /\ db[t].status \notin Terminal \cup {"RETRYING"}
        /\ executions[t] <= 1
        /\ executions[t] = 1 => /\ db[t].status = "RUNNING"
                                /\ ~Queued(t) /\ ~Dispatching(t)

\* The life cycle tests/test_task_lifecycle.py writes down.
Tested == INSTANCE TestedLifecycle WITH
  Limits <- {sub.max : sub \in Submissions},
  status <- [t \in Tasks |-> db[t].status],
  limit  <- [t \in Tasks |-> db[t].max]

\* The services take a task through the statuses as the tests do: a task that
\* waits for a retry is scheduled again before it runs again, and a task fails
\* when it was executed max_attempts times (consume of opencode-worker).
ImplementsTestedLifecycle == Tested!Spec

\* Without faults every task for the opencode provider whose execution returns
\* a result or an error ends COMPLETED or FAILED, as the tasks of
\* tests/test_task_lifecycle.py do (test_get_pending, test_full_lifecycle and
\* test_failure_with_retry).
TasksFinish ==
  \A t \in Tasks :
    /\ db[t].status = "PENDING"
    /\ ProviderOf(t) = "opencode"
    /\ db[t].outcome # "raise"
      ~> db[t].status \in Terminal
=============================================================================
