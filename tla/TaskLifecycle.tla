--------------------------- MODULE TaskLifecycle ----------------------------
(***************************************************************************)
(* What an observer of the `tasks` table may see of each task, without     *)
(* queues, workers or messages: the transitions the services write. A task *)
(* may stay where it is for ever; it never goes back.                      *)
(*                                                                         *)
(* It is not the table of tests/test_task_lifecycle.py:243-249, which has  *)
(* RETRYING -> SCHEDULED or FAILED: see TestedLifecycle.                   *)
(***************************************************************************)
EXTENDS Naturals

CONSTANTS
  Tasks,
  Limits  \* values of max_attempts

VARIABLES
  status,    \* status[t]
  attempts,  \* attempts[t]
  limit      \* limit[t]: max_attempts, fixed when the task is created

lifecycleVars == <<status, attempts, limit>>

Init ==
  /\ status = [t \in Tasks |-> "absent"]
  /\ attempts = [t \in Tasks |-> 0]
  /\ limit = [t \in Tasks |-> 0]

Move(t, from, to, n) ==
  /\ status[t] \in from
  /\ status' = [status EXCEPT ![t] = to]
  /\ attempts' = [attempts EXCEPT ![t] = n]

Submit(t, max) ==
  /\ Move(t, {"absent"}, "PENDING", 0)
  /\ limit' = [limit EXCEPT ![t] = max]

Schedule(t) == Move(t, {"PENDING"}, "SCHEDULED", 1)

\* The worker marks what it popped RUNNING, first execution or retry alike: a
\* retried task is pushed back by the worker and never SCHEDULED again.
Start(t) == Move(t, {"SCHEDULED", "RETRYING"}, "RUNNING", attempts[t])

Complete(t) == Move(t, {"RUNNING"}, "COMPLETED", 0)

\* A failed execution is retried while attempts are left, and only then.
Retry(t) ==
  /\ attempts[t] + 1 < limit[t]
  /\ Move(t, {"RUNNING"}, "RETRYING", attempts[t] + 1)

Fail(t) ==
  /\ attempts[t] + 1 >= limit[t]
  /\ Move(t, {"RUNNING"}, "FAILED", attempts[t] + 1)

Next ==
  \E t \in Tasks :
    \/ \E max \in Limits : Submit(t, max)
    \/ /\ Schedule(t) \/ Start(t) \/ Complete(t) \/ Retry(t) \/ Fail(t)
       /\ UNCHANGED limit

Spec == Init /\ [][Next]_lifecycleVars
=============================================================================
