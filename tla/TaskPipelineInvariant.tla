----------------------- MODULE TaskPipelineInvariant ------------------------
(***************************************************************************)
(* The inductive invariant of TaskPipeline: what the place of a task in    *)
(* the pipeline says about its row.                                        *)
(***************************************************************************)
EXTENDS TaskPipeline

\* Tasks whose first execution is still to come, or that have retries left.
MayExecute(t) ==
  /\ db[t].attempts = executions[t] + 1
  /\ executions[t] = 0 \/ executions[t] + 1 < db[t].max

WithinBudget(t) == executions[t] <= 1 \/ executions[t] < db[t].max

RowOK(t) ==
  /\ db[t].status \in {"absent", "PENDING"} => executions[t] = 0
  /\ db[t].status \in {"SCHEDULED", "RETRYING"} => MayExecute(t)
  /\ db[t].status = "FAILED" => db[t].attempts = executions[t] + 1
                                /\ db[t].error
  /\ WithinBudget(t)

SchedulerOK(s) ==
  /\ spc[s] = "poll" => batch[s] = {}
  /\ \A t \in batch[s] : db[t].status = "PENDING"
  /\ spc[s] \in {"push", "publish"} <=> cur[s] # NoTask
  /\ spc[s] = "push" => db[cur[s]].status = "SCHEDULED"
  /\ spc[s] = "publish" => db[cur[s]].status \notin {"absent", "PENDING"}

\* The status a task has while worker w is at each call for it.
WorkerOK(w) ==
  LET t == wtask[w] IN
  /\ wpc[w] = "blpop" <=> t = NoTask
  /\ wpc[w] = "running" => db[t].status \in {"SCHEDULED", "RETRYING"}
  /\ wpc[w] \in {"execute", "get", "retrying", "failed", "completed"}
       => db[t].status = "RUNNING"
  /\ wpc[w] = "execute" => MayExecute(t)
  /\ wpc[w] \in {"get", "retrying", "failed"}
       => db[t].attempts = executions[t]
  /\ wpc[w] \in {"retrying", "failed"} => wattempts[w] = executions[t] + 1
  /\ wpc[w] = "retrying" => executions[t] + 1 < db[t].max
  /\ wpc[w] = "failed" => executions[t] + 1 >= db[t].max
  /\ wpc[w] = "requeue" => db[t].status = "RETRYING"
  /\ wpc[w] = "publish_failed" => db[t].status = "FAILED"
  /\ wpc[w] = "publish_completed" => db[t].status = "COMPLETED"

\* Every entry of a list is a task waiting for its turn, with no other copy.
EntryOK(p, i) ==
  LET t == queue[p][i] IN
  /\ db[t].status \in {"SCHEDULED", "RETRYING"}
  /\ \A w \in Workers : wtask[w] # t
  /\ \A s \in Schedulers : ~(spc[s] = "push" /\ cur[s] = t)
  /\ \A q \in Providers : \A j \in 1..Len(queue[q]) :
       queue[q][j] = t => q = p /\ j = i

EventTrue(e) ==
  /\ e.event = "task_completed" => db[e.task].status = "COMPLETED"
  /\ e.event = "task_failed" =>
       db[e.task].status = "FAILED" /\ db[e.task].error
  /\ e.event = "task_scheduled" =>
       db[e.task].status \notin {"absent", "PENDING"}

RowsOK == \A t \in Tasks : RowOK(t)
SchedulersOK == \A s \in Schedulers : SchedulerOK(s)
WorkersOK == \A w \in Workers : WorkerOK(w)

OneHolder ==
  \A w, v \in Workers : wtask[w] = wtask[v] /\ wtask[w] # NoTask => w = v

NotHeldInDispatch ==
  \A w \in Workers, s \in Schedulers : spc[s] = "push" => wtask[w] # cur[s]

EntriesOK == \A p \in Providers : \A i \in 1..Len(queue[p]) : EntryOK(p, i)

EventsTrue ==
  /\ \A i \in 1..Len(inbox) : EventTrue(inbox[i])
  /\ \A e \in recorded : EventTrue(e)

\* The inductive invariant. It explains why the unguarded writes are safe: a
\* task's single copy moves from the scheduler to a list to a worker and back,
\* and whoever has it knows its status.
PlaceInvariant ==
  /\ RowsOK
  /\ SchedulersOK
  /\ WorkersOK
  /\ OneHolder
  /\ NotHeldInDispatch
  /\ EntriesOK
  /\ EventsTrue
-----------------------------------------------------------------------------
(* What the outcome of execute_task for a task says about its places.       *)

\* The task fails, and no UPDATE can store that it did.
Unrecordable(t) == ~ErrorColumn /\ db[t].outcome = "error"

\* Only a task whose execution failed is retried or failed, and only one that
\* succeeded is completed.
OutcomeOK(w) ==
  LET t == wtask[w] IN
  /\ wpc[w] \in {"get", "retrying", "requeue", "failed", "publish_failed"}
       => db[t].outcome = "error"
  /\ wpc[w] \in {"completed", "publish_completed"} => db[t].outcome = "ok"
  /\ wpc[w] = "execute" /\ Unrecordable(t) => executions[t] = 0

OutcomesOK == \A w \in Workers : OutcomeOK(w)

\* Without the column `error` the row of a failing task cannot leave RUNNING,
\* so the task never comes back to a worker.
FailingRowOK(t) ==
  Unrecordable(t) =>
    /\ db[t].status \notin Terminal \cup {"RETRYING"}
    /\ executions[t] <= 1
    /\ executions[t] = 1 => db[t].status = "RUNNING"

FailingRowsOK == \A t \in Tasks : FailingRowOK(t)

\* What the services' writes say of outcomes, beside PlaceInvariant.
OutcomeInvariant == OutcomesOK /\ FailingRowsOK
=============================================================================
