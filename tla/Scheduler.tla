----------------------------- MODULE Scheduler ------------------------------
(***************************************************************************)
(* poll_pg of scheduler/main.py: fetch the oldest pending rows, and for    *)
(* each of them mark it SCHEDULED, push it to its provider's list, publish *)
(* task_scheduled. Each awaited call is a step of its own.                 *)
(***************************************************************************)
EXTENDS RedisBroker

CONSTANT Schedulers  \* scheduler processes; the deployment starts one

VARIABLES
  spc,    \* the call the scheduler awaits next
  batch,  \* rows of the fetched list it has not reached
  cur     \* the loop variable `task`

schedulerVars == <<spc, batch, cur>>

SchedulerPc == {"poll", "mark", "push", "publish"}

\* Back to the next iteration of the poll loop: the list is dropped.
AbandonBatch(s) ==
  /\ spc' = [spc EXCEPT ![s] = "poll"]
  /\ batch' = [batch EXCEPT ![s] = {}]
  /\ cur' = [cur EXCEPT ![s] = NoTask]

\* Mutant of Fetch: one UPDATE marks the whole list before any LPUSH.
FetchAndMarkAll(s) ==
  /\ spc[s] = "poll"
  /\ \E B \in SUBSET Pending :
       /\ IsPendingBatch(B)
       /\ B # {}
       /\ batch' = [batch EXCEPT ![s] = B]
       /\ db' = [t \in Tasks |-> IF t \in B
                   THEN [db[t] EXCEPT !.status = "SCHEDULED"] ELSE db[t]]
  /\ spc' = [spc EXCEPT ![s] = "mark"]
  /\ UNCHANGED <<cur, brokerVars>>

Fetch(s) ==
  /\ spc[s] = "poll"
  /\ \E B \in SUBSET Pending :
       /\ IsPendingBatch(B)
       /\ B # {}
       /\ batch' = [batch EXCEPT ![s] = B]
  /\ spc' = [spc EXCEPT ![s] = "mark"]
  /\ UNCHANGED <<cur, db, brokerVars>>

\* Mutant of Mark: SCHEDULED is written without counting the attempt.
MarkUncounted(s) ==
  /\ spc[s] = "mark"
  /\ \E t \in batch[s] :
       /\ IsOldest(t, batch[s])
       /\ UpdateStatus(t, "SCHEDULED", 0, FALSE)
       /\ cur' = [cur EXCEPT ![s] = t]
       /\ batch' = [batch EXCEPT ![s] = @ \ {t}]
  /\ spc' = [spc EXCEPT ![s] = "push"]
  /\ UNCHANGED brokerVars

\* The status is written before the task is queued, with attempts = 1.
Mark(s) ==
  /\ spc[s] = "mark"
  /\ \E t \in batch[s] :
       /\ IsOldest(t, batch[s])
       /\ UpdateStatus(t, "SCHEDULED", 1, FALSE)
       /\ cur' = [cur EXCEPT ![s] = t]
       /\ batch' = [batch EXCEPT ![s] = @ \ {t}]
  /\ spc' = [spc EXCEPT ![s] = "push"]
  /\ UNCHANGED brokerVars

Push(s) ==
  /\ spc[s] = "push"
  /\ LPush(ProviderOf(cur[s]), cur[s])
  /\ spc' = [spc EXCEPT ![s] = "publish"]
  /\ UNCHANGED <<batch, cur, db, subscribed, inbox>>

PublishScheduled(s) ==
  /\ spc[s] = "publish"
  /\ Publish("task_scheduled", cur[s])
  /\ spc' = [spc EXCEPT ![s] = IF batch[s] = {} THEN "poll" ELSE "mark"]
  /\ cur' = [cur EXCEPT ![s] = NoTask]
  /\ UNCHANGED <<batch, db, queue, subscribed>>

SchedulerStep(s) == Fetch(s) \/ Mark(s) \/ Push(s) \/ PublishScheduled(s)

\* The awaited call raises, or the process dies in it and is restarted: the
\* call took effect or it did not, and the rest of the list is dropped.
SchedulerInterrupted(s) ==
  /\ spc[s] # "poll"
  /\ AbandonBatch(s)
  /\ \/ UNCHANGED <<db, brokerVars>>
     \/ /\ spc[s] = "mark"
        /\ \E t \in batch[s] :
             /\ IsOldest(t, batch[s])
             /\ UpdateStatus(t, "SCHEDULED", 1, FALSE)
        /\ UNCHANGED brokerVars
     \/ /\ spc[s] = "push"
        /\ LPush(ProviderOf(cur[s]), cur[s])
        /\ UNCHANGED <<db, subscribed, inbox>>
     \/ /\ spc[s] = "publish"
        /\ Publish("task_scheduled", cur[s])
        /\ UNCHANGED <<db, queue, subscribed>>
=============================================================================
