--------------------------- MODULE WorkflowEngine ---------------------------
(***************************************************************************)
(* listen_events of workflow-engine/main.py: every message read from the   *)
(* subscription becomes one INSERT INTO events; a rejected or interrupted  *)
(* INSERT loses the message.                                               *)
(***************************************************************************)
EXTENDS RedisBroker

VARIABLE recorded  \* rows of the table `events`

\* events.workflow_id references workflows(id) in infra/postgres/init.sql and
\* not in scripts/init_db.py.
EventsForeignKey == deployment.foreignKey

\* main() starts and listen_events subscribes.
Subscribe ==
  /\ ~subscribed
  /\ subscribed' = TRUE
  /\ UNCHANGED <<queue, inbox, recorded>>

\* No publisher sends a workflow_id, so the listener inserts the task's id in
\* its place: no workflow has that id, and a foreign key rejects the row.
RecordEvent ==
  /\ subscribed /\ inbox # <<>>
  /\ inbox' = Tail(inbox)
  /\ recorded' = IF EventsForeignKey THEN recorded
                 ELSE recorded \cup {Head(inbox)}
  /\ UNCHANGED <<queue, subscribed>>

EngineStep == Subscribe \/ RecordEvent

\* The engine dies, or its connection does: what the subscription held is
\* gone, and so is what is published until it subscribes again. An INSERT
\* that fails alone loses one message.
EngineInterrupted ==
  /\ subscribed
  /\ \/ /\ subscribed' = FALSE
        /\ inbox' = <<>>
        /\ UNCHANGED recorded
     \/ /\ inbox # <<>>
        /\ inbox' = Tail(inbox)
        /\ UNCHANGED <<subscribed, recorded>>
  /\ UNCHANGED queue
=============================================================================
