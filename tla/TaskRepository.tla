--------------------------- MODULE TaskRepository ---------------------------
(***************************************************************************)
(* The `tasks` table and the operations of tasks/repository.py on it.      *)
(*                                                                         *)
(* A row keeps what the services branch on: status, attempts,              *)
(* max_attempts, provider, whether `error` was written, the creation order *)
(* and, in place of task_type and payload, the outcome execute_task has    *)
(* for them ("ok", "error" or "raise": the executor is deterministic).     *)
(***************************************************************************)
EXTENDS Naturals, FiniteSets

CONSTANTS
  Tasks,        \* task ids
  NoTask,       \* a loop variable that holds no task
  Providers,    \* provider names; "opencode" is the one with a consumer
  Submissions,  \* what clients submit: outcome, provider and max_attempts
  BatchLimit,   \* get_pending(limit)
  Deployments   \* the databases the services may run against

Outcomes == {"ok", "error", "raise"}
RowProviders == Providers \cup {""}
Submission == [outcome : Outcomes, provider : RowProviders, max : Nat]

\* errorColumn: the table `tasks` has the column `error` update_status writes;
\* foreignKey: events.workflow_id references workflows(id); jsonCodec: the
\* driver decodes jsonb columns to dicts, as _row_to_task takes for granted.
Deployment ==
  [errorColumn : BOOLEAN, foreignKey : BOOLEAN, jsonCodec : BOOLEAN]

ASSUME TasksAssumption == IsFiniteSet(Tasks) /\ NoTask \notin Tasks
ASSUME ProvidersAssumption == "opencode" \in Providers
ASSUME SubmissionsAssumption == Submissions \subseteq Submission
ASSUME BatchAssumption == BatchLimit \in Nat \ {0}
ASSUME DeploymentsAssumption == Deployments \subseteq Deployment

VARIABLES
  db,         \* the rows of the table `tasks`
  deployment  \* the database in use; nothing changes it

ErrorColumn == deployment.errorColumn
JsonCodec == deployment.jsonCodec

TaskStatus ==
  {"PENDING", "SCHEDULED", "RUNNING", "COMPLETED", "FAILED", "RETRYING"}

Row == [status   : TaskStatus \cup {"absent"},
        attempts : Nat,
        error    : BOOLEAN,
        created  : Nat,
        outcome  : Outcomes,
        provider : RowProviders,
        max      : Nat]

NoRow == [status |-> "absent", attempts |-> 0, error |-> FALSE,
          created |-> 0, outcome |-> "ok", provider |-> "", max |-> 0]

Rows == {t \in Tasks : db[t].status # "absent"}

\* Mutant of Pending: the query also returns rows that wait for a retry.
PendingOrRetrying == {t \in Tasks : db[t].status \in {"PENDING", "RETRYING"}}

Pending == {t \in Tasks : db[t].status = "PENDING"}

\* INSERT INTO tasks: a fresh id, status PENDING, attempts 0.
Create(t, sub) ==
  /\ db[t].status = "absent"
  /\ db' = [db EXCEPT ![t] =
              [status |-> "PENDING", attempts |-> 0, error |-> FALSE,
               created |-> Cardinality(Rows), outcome |-> sub.outcome,
               provider |-> sub.provider, max |-> sub.max]]

\* The UPDATE of update_status: it names the row by id only, whatever status
\* the row has; `error` is written only when given, and needs its column.
UpdateStatus(t, status, attempts, error) ==
  /\ error => ErrorColumn
  /\ db' = [db EXCEPT ![t].status   = status,
                      ![t].attempts = attempts,
                      ![t].error    = @ \/ error]

\* B is a result of get_pending: the oldest BatchLimit pending rows. Nothing
\* locks them. Without a jsonb codec, and no pool of the repository sets one,
\* payload is a string: dict() raises on the first row, there is no result,
\* and the poll loop logs the exception, sleeps and polls again.
IsPendingBatch(B) ==
  /\ JsonCodec
  /\ B \subseteq Pending
  /\ Cardinality(B) <= BatchLimit
  /\ B # Pending => Cardinality(B) = BatchLimit
  /\ \A t \in B, u \in Pending \ B : db[t].created <= db[u].created

\* t comes first in the list B is returned as (ORDER BY created_at).
IsOldest(t, B) ==
  t \in B /\ \A u \in B : db[t].created <= db[u].created

\* _row_to_task and poll_pg: an empty provider means "opencode".
ProviderOf(t) ==
  IF db[t].provider = "" THEN "opencode" ELSE db[t].provider
=============================================================================
