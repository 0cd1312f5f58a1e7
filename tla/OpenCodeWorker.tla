--------------------------- MODULE OpenCodeWorker ---------------------------
(***************************************************************************)
(* consume of opencode-worker/main.py: pop a task, mark it RUNNING,        *)
(* execute it, then complete it, queue it again or fail it. A popped       *)
(* message exists only in the worker's memory until it is pushed back.     *)
(***************************************************************************)
EXTENDS RedisBroker

CONSTANT Workers  \* consumers of the list tasks:opencode

VARIABLES
  wpc,         \* the call the worker awaits next
  wtask,       \* the popped task, NoTask while it waits in BLPOP
  wattempts,   \* `attempts` as computed after the failed execution
  executions   \* history: how often each task was executed

workerVars == <<wpc, wtask, wattempts, executions>>

WorkerPc == {"blpop", "running", "execute", "get", "retrying", "requeue",
             "failed", "publish_failed", "completed", "publish_completed"}

Goto(w, pc) == wpc' = [wpc EXCEPT ![w] = pc]

\* `continue`, or the handler of the loop body: the popped task is forgotten.
DropTask(w) ==
  /\ Goto(w, "blpop")
  /\ wtask' = [wtask EXCEPT ![w] = NoTask]
  /\ wattempts' = [wattempts EXCEPT ![w] = 0]

Pop(w) ==
  /\ wpc[w] = "blpop"
  /\ \E t \in Tasks :
       /\ LPop("opencode", t)
       /\ wtask' = [wtask EXCEPT ![w] = t]
  /\ Goto(w, "running")
  /\ UNCHANGED <<wattempts, executions, db, subscribed, inbox>>

MarkRunning(w) ==
  /\ wpc[w] = "running"
  /\ UpdateStatus(wtask[w], "RUNNING", db[wtask[w]].attempts, FALSE)
  /\ Goto(w, "execute")
  /\ UNCHANGED <<wtask, wattempts, executions, brokerVars>>

\* Mutant of Execute: task_completed is published before COMPLETED is written.
ExecuteAndPublish(w) ==
  /\ wpc[w] = "execute"
  /\ executions' = [executions EXCEPT ![wtask[w]] = @ + 1]
  /\ Goto(w, IF db[wtask[w]].outcome = "ok" THEN "publish_completed" ELSE "get")
  /\ UNCHANGED <<wtask, wattempts, db, brokerVars>>

\* execute_task returns a result or an error, or an exception escapes it; an
\* exception reaches the handler of the loop, which queues nothing again.
Execute(w) ==
  /\ wpc[w] = "execute"
  /\ executions' = [executions EXCEPT ![wtask[w]] = @ + 1]
  /\ \/ /\ db[wtask[w]].outcome = "ok"
        /\ Goto(w, "completed")
        /\ UNCHANGED <<wtask, wattempts>>
     \/ /\ db[wtask[w]].outcome = "error"
        /\ Goto(w, "get")
        /\ UNCHANGED <<wtask, wattempts>>
     \/ /\ db[wtask[w]].outcome = "raise"
        /\ DropTask(w)
  /\ UNCHANGED <<db, brokerVars>>

\* Read the row back and decide (rows are never deleted, so it is there, and
\* without the codec no task ever gets this far).
GetAttempts(w) ==
  /\ wpc[w] = "get"
  /\ JsonCodec
  /\ wattempts' = [wattempts EXCEPT ![w] = db[wtask[w]].attempts + 1]
  /\ Goto(w, IF db[wtask[w]].attempts + 1 < db[wtask[w]].max
             THEN "retrying" ELSE "failed")
  /\ UNCHANGED <<wtask, executions, db, brokerVars>>

\* Mutant of MarkRetrying: the UPDATE leaves attempts as it was.
MarkRetryingUncounted(w) ==
  /\ wpc[w] = "retrying"
  /\ UpdateStatus(wtask[w], "RETRYING", db[wtask[w]].attempts, TRUE)
  /\ Goto(w, "requeue")
  /\ UNCHANGED <<wtask, wattempts, executions, brokerVars>>

MarkRetrying(w) ==
  /\ wpc[w] = "retrying"
  /\ UpdateStatus(wtask[w], "RETRYING", wattempts[w], TRUE)
  /\ Goto(w, "requeue")
  /\ UNCHANGED <<wtask, wattempts, executions, brokerVars>>

Requeue(w) ==
  /\ wpc[w] = "requeue"
  /\ LPush("opencode", wtask[w])
  /\ DropTask(w)
  /\ UNCHANGED <<executions, db, subscribed, inbox>>

MarkFailed(w) ==
  /\ wpc[w] = "failed"
  /\ UpdateStatus(wtask[w], "FAILED", wattempts[w], TRUE)
  /\ Goto(w, "publish_failed")
  /\ UNCHANGED <<wtask, wattempts, executions, brokerVars>>

\* Without the column `error` the UPDATE is rejected: nothing is written and
\* the handler forgets the task.
ErrorUpdateRejected(w) ==
  /\ wpc[w] \in {"retrying", "failed"}
  /\ ~ErrorColumn
  /\ DropTask(w)
  /\ UNCHANGED <<executions, db, brokerVars>>

MarkCompleted(w) ==
  /\ wpc[w] = "completed"
  /\ UpdateStatus(wtask[w], "COMPLETED", 0, FALSE)
  /\ Goto(w, "publish_completed")
  /\ UNCHANGED <<wtask, wattempts, executions, brokerVars>>

\* publish_event swallows its exceptions: the loop goes on either way.
PublishOutcome(w) ==
  /\ \/ /\ wpc[w] = "publish_failed"
        /\ Publish("task_failed", wtask[w])
     \/ /\ wpc[w] = "publish_completed"
        /\ Publish("task_completed", wtask[w])
  /\ DropTask(w)
  /\ UNCHANGED <<executions, db, queue, subscribed>>

WorkerStep(w) ==
  \/ Pop(w) \/ MarkRunning(w) \/ Execute(w) \/ GetAttempts(w)
  \/ MarkRetrying(w) \/ Requeue(w) \/ MarkFailed(w)
  \/ ErrorUpdateRejected(w) \/ MarkCompleted(w) \/ PublishOutcome(w)

\* The awaited call raises, or the process dies in it and is restarted: the
\* call took effect or it did not; the popped task is forgotten. A BLPOP that
\* took its element and lost the reply is the case at "blpop".
WorkerInterrupted(w) ==
  /\ DropTask(w)
  /\ \/ /\ wpc[w] # "blpop"
        /\ UNCHANGED <<executions, db, brokerVars>>
     \/ /\ wpc[w] = "blpop"
        /\ \E t \in Tasks : LPop("opencode", t)
        /\ UNCHANGED <<executions, db, subscribed, inbox>>
     \/ /\ wpc[w] = "running"
        /\ UpdateStatus(wtask[w], "RUNNING", db[wtask[w]].attempts, FALSE)
        /\ UNCHANGED <<executions, brokerVars>>
     \/ /\ wpc[w] = "execute"
        /\ executions' = [executions EXCEPT ![wtask[w]] = @ + 1]
        /\ UNCHANGED <<db, brokerVars>>
     \/ /\ wpc[w] \in {"retrying", "failed"}
        /\ UpdateStatus(wtask[w],
                        IF wpc[w] = "failed" THEN "FAILED" ELSE "RETRYING",
                        wattempts[w], TRUE)
        /\ UNCHANGED <<executions, brokerVars>>
     \/ /\ wpc[w] = "requeue"
        /\ LPush("opencode", wtask[w])
        /\ UNCHANGED <<executions, db, subscribed, inbox>>
     \/ /\ wpc[w] = "completed"
        /\ UpdateStatus(wtask[w], "COMPLETED", 0, FALSE)
        /\ UNCHANGED <<executions, brokerVars>>
=============================================================================
