-------------------------- MODULE TestedLifecycle ---------------------------
(***************************************************************************)
(* The life cycle of a task as tests/test_task_lifecycle.py writes it      *)
(* down: the transition table of test_status_transition_validity and the   *)
(* loop of test_failure_with_retry, which executes a failing task          *)
(* max_attempts times. No service is compared with it in the repository.   *)
(***************************************************************************)
EXTENDS Naturals

CONSTANTS
  Tasks,
  Limits  \* values of max_attempts

VARIABLES
  status,      \* status[t]
  executions,  \* executions[t]: calls of execute_task so far
  limit        \* limit[t]: max_attempts

testedVars == <<status, executions, limit>>

Init ==
  /\ status = [t \in Tasks |-> "absent"]
  /\ executions = [t \in Tasks |-> 0]
  /\ limit = [t \in Tasks |-> 0]

\* The keys and values of the table `valid`.
Valid ==
  [PENDING   |-> {"SCHEDULED"},
   SCHEDULED |-> {"RUNNING"},
   RUNNING   |-> {"COMPLETED", "FAILED", "RETRYING"},
   RETRYING  |-> {"SCHEDULED", "FAILED"}]

Submit(t, max) ==
  /\ status[t] = "absent"
  /\ status' = [status EXCEPT ![t] = "PENDING"]
  /\ limit' = [limit EXCEPT ![t] = max]
  /\ UNCHANGED executions

\* One iteration of the loop calls execute_task once, at RUNNING.
Execute(t) ==
  /\ status[t] = "RUNNING"
  /\ executions' = [executions EXCEPT ![t] = @ + 1]
  /\ UNCHANGED <<status, limit>>

\* A failed execution is retried while attempts are left, and only then.
Move(t, to) ==
  /\ status[t] \in DOMAIN Valid
  /\ to \in Valid[status[t]]
  /\ to = "RETRYING" => executions[t] < limit[t]
  /\ to = "FAILED" => executions[t] >= limit[t]
  /\ status' = [status EXCEPT ![t] = to]
  /\ UNCHANGED <<executions, limit>>

Next ==
  \E t \in Tasks :
    \/ \E max \in Limits : Submit(t, max)
    \/ Execute(t)
    \/ \E to \in {"SCHEDULED", "RUNNING", "COMPLETED", "FAILED", "RETRYING"} :
         Move(t, to)

Spec == Init /\ [][Next]_testedVars
=============================================================================
