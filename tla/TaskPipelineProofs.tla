------------------------- MODULE TaskPipelineProofs -------------------------
(***************************************************************************)
(* Proofs about TaskPipeline: for any number of tasks, workers and faults. *)
(***************************************************************************)
EXTENDS TaskPipelineInvariant, SequenceTheorems, FiniteSetTheorems, TLAPS

-----------------------------------------------------------------------------
(* What the operations on the table, the lists and the channel do.          *)

\* The UPDATE of update_status changes status, attempts and error of one row.
LEMMA UpdateStatusEffect ==
  ASSUME NEW t \in Tasks, NEW st \in TaskStatus, NEW n \in Nat,
         NEW e \in BOOLEAN,
         db \in [Tasks -> Row], UpdateStatus(t, st, n, e)
  PROVE  /\ db' \in [Tasks -> Row]
         /\ e => ErrorColumn
         /\ db'[t].status = st
         /\ db'[t].attempts = n
         /\ db'[t].error = (db[t].error \/ e)
         /\ db'[t].created = db[t].created
         /\ db'[t].max = db[t].max
         /\ db'[t].outcome = db[t].outcome
         /\ db'[t].provider = db[t].provider
         /\ \A u \in Tasks \ {t} : db'[u] = db[u]
<1> DEFINE new == [db[t] EXCEPT !.status = st, !.attempts = n,
                                !.error = db[t].error \/ e]
<1>1. db[t] \in Row
  OBVIOUS
<1>2. new \in Row
  BY <1>1 DEF Row
<1>3. db' = [db EXCEPT ![t] = new]
  BY DEF UpdateStatus
<1>4. new.status = st /\ new.attempts = n /\ new.error = (db[t].error \/ e)
      /\ new.created = db[t].created /\ new.max = db[t].max
      /\ new.outcome = db[t].outcome /\ new.provider = db[t].provider
  BY <1>1 DEF Row
<1> HIDE DEF new
<1>5. db'[t] = new
  BY <1>3
<1> QED
  BY <1>2, <1>3, <1>4, <1>5 DEF UpdateStatus

\* LPUSH puts a task in front of one list.
LEMMA LPushEffect ==
  ASSUME NEW p \in Providers, NEW t \in Tasks,
         queue \in [Providers -> Seq(Tasks)], LPush(p, t)
  PROVE  /\ queue' \in [Providers -> Seq(Tasks)]
         /\ Len(queue'[p]) = Len(queue[p]) + 1
         /\ queue'[p][1] = t
         /\ \A i \in 2..Len(queue'[p]) :
              i - 1 \in 1..Len(queue[p]) /\ queue'[p][i] = queue[p][i - 1]
         /\ \A q \in Providers \ {p} : queue'[q] = queue[q]
<1>1. queue[p] \in Seq(Tasks) /\ <<t>> \in Seq(Tasks) /\ Len(<<t>>) = 1
  OBVIOUS
<1>2. queue'[p] = <<t>> \o queue[p]
  BY DEF LPush
<1>3. /\ <<t>> \o queue[p] \in Seq(Tasks)
      /\ Len(<<t>> \o queue[p]) = Len(queue[p]) + 1
      /\ \A i \in 1 .. Len(<<t>>) + Len(queue[p]) :
           (<<t>> \o queue[p])[i] = IF i <= Len(<<t>>) THEN <<t>>[i]
                                    ELSE queue[p][i - Len(<<t>>)]
  BY <1>1, ConcatProperties, LenProperties
<1> QED
  BY <1>1, <1>2, <1>3, LenProperties DEF LPush

\* BLPOP takes the first task of one list.
LEMMA LPopEffect ==
  ASSUME NEW p \in Providers, NEW t \in Tasks,
         queue \in [Providers -> Seq(Tasks)], LPop(p, t)
  PROVE  /\ queue' \in [Providers -> Seq(Tasks)]
         /\ 1 \in 1..Len(queue[p]) /\ queue[p][1] = t
         /\ Len(queue'[p]) = Len(queue[p]) - 1
         /\ \A i \in 1..Len(queue'[p]) :
              i + 1 \in 1..Len(queue[p]) /\ queue'[p][i] = queue[p][i + 1]
         /\ \A q \in Providers \ {p} : queue'[q] = queue[q]
<1>1. queue[p] \in Seq(Tasks) /\ queue[p] # <<>>
  BY DEF LPop
<1>2. queue'[p] = Tail(queue[p]) /\ t = Head(queue[p])
  BY DEF LPop
<1> QED
  BY <1>1, <1>2, HeadTailProperties, LenProperties DEF LPop

\* PUBLISH adds at most its own message to what the subscriber will read.
LEMMA PublishEffect ==
  ASSUME NEW ev \in EventNames, NEW t \in Tasks,
         inbox \in Seq(Event), Publish(ev, t)
  PROVE  /\ inbox' \in Seq(Event)
         /\ \A i \in 1..Len(inbox') :
              \/ i \in 1..Len(inbox) /\ inbox'[i] = inbox[i]
              \/ inbox'[i] = [event |-> ev, task |-> t]
<1> DEFINE e == [event |-> ev, task |-> t]
<1>1. e \in Event
  BY DEF Event
<1>2. inbox' = IF subscribed THEN Append(inbox, e) ELSE inbox
  BY DEF Publish
<1> HIDE DEF e
<1>3. CASE inbox' = inbox
  BY <1>3
<1>4. CASE inbox' = Append(inbox, e)
  BY <1>1, <1>4, AppendProperties, LenProperties DEF e
<1> QED
  BY <1>2, <1>3, <1>4

-----------------------------------------------------------------------------
(* The invariant is inductive.                                              *)

IInv == StateOK /\ PlaceInvariant

\* A status that an event reports is not taken back by the step.
KeepsEvents ==
  \A t \in Tasks :
    /\ db[t].status = "COMPLETED" => db'[t].status = "COMPLETED"
    /\ db[t].status = "FAILED" /\ db[t].error
         => db'[t].status = "FAILED" /\ db'[t].error
    /\ db[t].status \notin {"absent", "PENDING"}
         => db'[t].status \notin {"absent", "PENDING"}

\* An event that is true stays true over a step that keeps events.
LEMMA EventStaysTrue ==
  ASSUME KeepsEvents, NEW e \in Event, EventTrue(e)
  PROVE  EventTrue(e)'
BY DEF KeepsEvents, EventTrue, Event

\* The channel and the event table stay true over a step that keeps events
\* and adds no message.
LEMMA EventsStayTrue ==
  ASSUME StateOK, EventsTrue, KeepsEvents, UNCHANGED <<inbox, recorded>>
  PROVE  EventsTrue'
<1>1. \A i \in 1..Len(inbox) : inbox[i] \in Event
  BY ElementOfSeq DEF StateOK
<1>2. ASSUME NEW i \in 1..Len(inbox') PROVE EventTrue(inbox[i])'
  BY <1>1, EventStaysTrue DEF EventsTrue
<1>3. ASSUME NEW e \in recorded' PROVE EventTrue(e)'
  BY EventStaysTrue DEF EventsTrue, StateOK
<1> QED
  BY <1>2, <1>3 DEF EventsTrue

\* They stay true when a true message is published.
LEMMA EventsAfterPublish ==
  ASSUME StateOK, EventsTrue, KeepsEvents, UNCHANGED recorded,
         NEW ev \in EventNames, NEW t \in Tasks, Publish(ev, t),
         EventTrue([event |-> ev, task |-> t])'
  PROVE  EventsTrue'
<1>1. /\ inbox' \in Seq(Event)
      /\ \A i \in 1..Len(inbox') :
           \/ i \in 1..Len(inbox) /\ inbox'[i] = inbox[i]
           \/ inbox'[i] = [event |-> ev, task |-> t]
  BY PublishEffect DEF StateOK
<1>2. ASSUME NEW i \in 1..Len(inbox') PROVE EventTrue(inbox[i])'
  <2>1. CASE i \in 1..Len(inbox) /\ inbox'[i] = inbox[i]
    <3>1. PICK e \in Event : e = inbox[i] /\ EventTrue(e)
      BY <2>1, ElementOfSeq DEF EventsTrue, StateOK
    <3>2. EventTrue(e)' /\ inbox'[i] = e
      BY <2>1, <3>1, EventStaysTrue
    <3> QED
      BY <3>2 DEF EventTrue
  <2>2. CASE inbox'[i] = [event |-> ev, task |-> t]
    BY <2>2 DEF EventTrue
  <2> QED
    BY <1>1, <2>1, <2>2
<1>3. ASSUME NEW e \in recorded' PROVE EventTrue(e)'
  BY EventStaysTrue DEF EventsTrue, StateOK
<1> QED
  BY <1>2, <1>3 DEF EventsTrue

\* The scheduler's view holds over a step of somebody else that touches
\* neither a pending row nor the row it is dispatching.
LEMMA SchedulersFrame ==
  ASSUME StateOK, SchedulersOK, UNCHANGED <<spc, batch, cur>>, KeepsEvents,
         \A u \in Tasks : db[u].status = "PENDING" => db'[u].status = "PENDING",
         \A s \in Schedulers : spc[s] = "push" => db'[cur[s]] = db[cur[s]]
  PROVE  SchedulersOK'
<1> SUFFICES ASSUME NEW s \in Schedulers PROVE SchedulerOK(s)'
  BY DEF SchedulersOK
<1>1. SchedulerOK(s)
  BY DEF SchedulersOK
<1>2. \A t \in batch[s] : t \in Tasks
  BY DEF StateOK
<1>3. cur[s] \in Tasks \cup {NoTask}
  BY DEF StateOK
<1> QED
  BY <1>1, <1>2, <1>3 DEF SchedulerOK, KeepsEvents

\* Worker w acted on the task t it holds, t is not finished (or its row did
\* not change), and w is where its new position says: then everything but the
\* lists and the events is as it should be.
WorkerActed(w, t) ==
  /\ StateOK'
  /\ \A u \in Tasks \ {t} : db'[u] = db[u] /\ executions'[u] = executions[u]
  /\ \/ db'[t] = db[t]
     \/ /\ db[t].status \in {"SCHEDULED", "RETRYING", "RUNNING"}
        /\ db'[t].status \notin {"absent", "PENDING"}
  /\ \A v \in Workers \ {w} :
       wpc'[v] = wpc[v] /\ wtask'[v] = wtask[v] /\ wattempts'[v] = wattempts[v]
  /\ wtask'[w] \in {t, NoTask}
  /\ UNCHANGED <<spc, batch, cur>>
  /\ RowOK(t)'
  /\ WorkerOK(w)'

\* A worker that acts on its own task leaves the rest of the invariant intact:
\* the scheduler, the other workers and the other rows do not notice.
LEMMA WorkerFrame ==
  ASSUME IInv, NEW w \in Workers, NEW t \in Tasks, wtask[w] = t,
         WorkerActed(w, t), db[t].status # "PENDING"
  PROVE  /\ RowsOK' /\ SchedulersOK' /\ WorkersOK'
         /\ OneHolder' /\ NotHeldInDispatch' /\ KeepsEvents
<1> USE DEF IInv, PlaceInvariant, WorkerActed
<1>1. RowsOK'
  BY DEF RowsOK, RowOK, MayExecute, WithinBudget
<1>2. KeepsEvents
  BY DEF KeepsEvents
<1>3. SchedulersOK'
  <2>1. ASSUME NEW s \in Schedulers, spc[s] = "push"
        PROVE  db'[cur[s]] = db[cur[s]]
    <3>1. cur[s] \in Tasks /\ cur[s] # t
      BY <2>1 DEF SchedulersOK, SchedulerOK, StateOK, NotHeldInDispatch
    <3> QED
      BY <3>1
  <2>2. \A u \in Tasks : db[u].status = "PENDING" => db'[u].status = "PENDING"
    OBVIOUS
  <2> QED
    BY <1>2, <2>1, <2>2, SchedulersFrame
<1>4. WorkersOK'
  <2> SUFFICES ASSUME NEW v \in Workers PROVE WorkerOK(v)'
    BY DEF WorkersOK
  <2>1. CASE v = w
    BY <2>1
  <2>2. CASE v # w
    <3>1. WorkerOK(v)
      BY DEF WorkersOK
    <3>2. wtask[v] # t
      BY <2>2, TasksAssumption DEF OneHolder
    <3>3. wtask[v] \in Tasks \cup {NoTask}
      BY DEF StateOK
    <3>4. CASE wtask[v] = NoTask
      BY <2>2, <3>1, <3>4 DEF WorkerOK
    <3>5. CASE wtask[v] \in Tasks
      BY <2>2, <3>1, <3>2, <3>5 DEF WorkerOK, MayExecute
    <3> QED
      BY <3>3, <3>4, <3>5
  <2> QED
    BY <2>1, <2>2
<1>5. OneHolder' /\ NotHeldInDispatch'
  <2>1. \A v \in Workers : wtask'[v] \in {wtask[v], NoTask}
    OBVIOUS
  <2>2. OneHolder'
    BY <2>1 DEF OneHolder
  <2>3. ASSUME NEW v \in Workers, NEW s \in Schedulers, spc[s] = "push"
        PROVE  wtask'[v] # cur[s]
    BY <2>1, <2>3 DEF NotHeldInDispatch, SchedulersOK, SchedulerOK
  <2> QED
    BY <2>2, <2>3 DEF NotHeldInDispatch
<1> QED
  BY <1>1, <1>2, <1>3, <1>4, <1>5

\* The lists are as they should be after a worker acted on its own task
\* without touching them.
LEMMA EntriesFrame ==
  ASSUME IInv, NEW w \in Workers, NEW t \in Tasks, wtask[w] = t,
         WorkerActed(w, t), UNCHANGED queue
  PROVE  EntriesOK'
<1> SUFFICES ASSUME NEW p \in Providers, NEW i \in 1..Len(queue[p])
             PROVE  EntryOK(p, i)'
  BY DEF EntriesOK
<1>1. EntryOK(p, i)
  BY DEF IInv, PlaceInvariant, EntriesOK
<1>2. queue[p][i] \in Tasks
  BY ElementOfSeq DEF IInv, StateOK
<1>3. queue[p][i] # t
  BY <1>1 DEF EntryOK
<1>4. \A v \in Workers : wtask'[v] \in {wtask[v], NoTask}
  BY DEF WorkerActed
<1> QED
  BY <1>1, <1>2, <1>3, <1>4, TasksAssumption DEF EntryOK, WorkerActed

\* A worker that acted on its own task and on nothing else.
LEMMA WorkerActedInv ==
  ASSUME IInv, NEW w \in Workers, NEW t \in Tasks, wtask[w] = t,
         WorkerActed(w, t), db[t].status # "PENDING",
         UNCHANGED <<queue, inbox, recorded>>
  PROVE  IInv'
<1>1. /\ RowsOK' /\ SchedulersOK' /\ WorkersOK'
      /\ OneHolder' /\ NotHeldInDispatch' /\ KeepsEvents
  BY WorkerFrame
<1>2. EntriesOK'
  BY EntriesFrame
<1>3. EventsTrue'
  BY <1>1, EventsStayTrue DEF IInv, PlaceInvariant
<1> QED
  BY <1>1, <1>2, <1>3 DEF IInv, PlaceInvariant, WorkerActed

\* A worker marks the task it popped RUNNING.
LEMMA MarkRunningInv ==
  ASSUME IInv, NEW w \in Workers, MarkRunning(w),
         UNCHANGED <<schedulerVars, recorded, faults>>
  PROVE  IInv'
<1>0. PICK t \in Tasks :
        /\ t = wtask[w]
        /\ db[t].status \in {"SCHEDULED", "RETRYING"} /\ WorkerOK(w) /\ RowOK(t)
  BY DEF IInv, PlaceInvariant, WorkersOK, WorkerOK, MarkRunning, StateOK, RowsOK
<1>1. db[t].attempts \in Nat
  BY <1>0 DEF IInv, StateOK, Row
<1>2. /\ db' \in [Tasks -> Row]
      /\ db'[t].status = "RUNNING"
      /\ db'[t].attempts = db[t].attempts
      /\ db'[t].error = (db[t].error \/ FALSE)
      /\ db'[t].max = db[t].max
      /\ \A u \in Tasks \ {t} : db'[u] = db[u]
  BY <1>0, <1>1, UpdateStatusEffect DEF MarkRunning, IInv, StateOK, TaskStatus
<1>3. /\ UNCHANGED <<queue, subscribed, inbox, spc, batch, cur, wtask,
                     wattempts, executions, recorded, faults>>
      /\ wpc' = [wpc EXCEPT ![w] = "execute"] /\ wpc[w] = "running"
  BY DEF MarkRunning, Goto, brokerVars, schedulerVars
<1>4. StateOK'
  BY <1>2, <1>3 DEF IInv, StateOK, WorkerPc
<1>5. RowOK(t)' /\ WorkerOK(w)'
  BY <1>0, <1>2, <1>3 DEF IInv, StateOK, RowOK, WorkerOK, MayExecute, WithinBudget
<1>6. WorkerActed(w, t)
  BY <1>0, <1>2, <1>3, <1>4, <1>5 DEF WorkerActed, IInv, StateOK
<1> QED
  BY <1>0, <1>3, <1>6, WorkerActedInv

\* A worker marks a failed execution RETRYING, with the attempt counted.
LEMMA MarkRetryingInv ==
  ASSUME IInv, NEW w \in Workers, MarkRetrying(w),
         UNCHANGED <<schedulerVars, recorded, faults>>
  PROVE  IInv'
<1>0. PICK t \in Tasks :
        t = wtask[w] /\ db[t].status = "RUNNING" /\ WorkerOK(w) /\ RowOK(t)
  BY DEF IInv, PlaceInvariant, WorkersOK, WorkerOK, MarkRetrying, StateOK, RowsOK
<1>1. wattempts[w] \in Nat
  BY DEF IInv, StateOK
<1>2. /\ db' \in [Tasks -> Row]
      /\ db'[t].status = "RETRYING"
      /\ db'[t].attempts = wattempts[w]
      /\ db'[t].error = (db[t].error \/ TRUE)
      /\ db'[t].max = db[t].max
      /\ \A u \in Tasks \ {t} : db'[u] = db[u]
  BY <1>0, <1>1, UpdateStatusEffect DEF MarkRetrying, IInv, StateOK, TaskStatus
<1>3. /\ UNCHANGED <<queue, subscribed, inbox, spc, batch, cur, wtask,
                     wattempts, executions, recorded, faults>>
      /\ wpc' = [wpc EXCEPT ![w] = "requeue"] /\ wpc[w] = "retrying"
  BY DEF MarkRetrying, Goto, brokerVars, schedulerVars
<1>4. StateOK'
  BY <1>2, <1>3 DEF IInv, StateOK, WorkerPc
<1>5. RowOK(t)' /\ WorkerOK(w)'
  BY <1>0, <1>2, <1>3 DEF IInv, StateOK, RowOK, WorkerOK, MayExecute, WithinBudget
<1>6. WorkerActed(w, t)
  BY <1>0, <1>2, <1>3, <1>4, <1>5 DEF WorkerActed, IInv, StateOK
<1> QED
  BY <1>0, <1>3, <1>6, WorkerActedInv

\* A worker marks its task FAILED: no attempts are left.
LEMMA MarkFailedInv ==
  ASSUME IInv, NEW w \in Workers, MarkFailed(w),
         UNCHANGED <<schedulerVars, recorded, faults>>
  PROVE  IInv'
<1>0. PICK t \in Tasks :
        t = wtask[w] /\ db[t].status = "RUNNING" /\ WorkerOK(w) /\ RowOK(t)
  BY DEF IInv, PlaceInvariant, WorkersOK, WorkerOK, MarkFailed, StateOK, RowsOK
<1>1. wattempts[w] \in Nat
  BY DEF IInv, StateOK
<1>2. /\ db' \in [Tasks -> Row]
      /\ db'[t].status = "FAILED"
      /\ db'[t].attempts = wattempts[w]
      /\ db'[t].error = (db[t].error \/ TRUE)
      /\ db'[t].max = db[t].max
      /\ \A u \in Tasks \ {t} : db'[u] = db[u]
  BY <1>0, <1>1, UpdateStatusEffect DEF MarkFailed, IInv, StateOK, TaskStatus
<1>3. /\ UNCHANGED <<queue, subscribed, inbox, spc, batch, cur, wtask,
                     wattempts, executions, recorded, faults>>
      /\ wpc' = [wpc EXCEPT ![w] = "publish_failed"] /\ wpc[w] = "failed"
  BY DEF MarkFailed, Goto, brokerVars, schedulerVars
<1>4. StateOK'
  BY <1>2, <1>3 DEF IInv, StateOK, WorkerPc
<1>5. RowOK(t)' /\ WorkerOK(w)'
  BY <1>0, <1>2, <1>3 DEF IInv, StateOK, RowOK, WorkerOK, MayExecute, WithinBudget
<1>6. WorkerActed(w, t)
  BY <1>0, <1>2, <1>3, <1>4, <1>5 DEF WorkerActed, IInv, StateOK
<1> QED
  BY <1>0, <1>3, <1>6, WorkerActedInv

\* A worker marks its task COMPLETED.
LEMMA MarkCompletedInv ==
  ASSUME IInv, NEW w \in Workers, MarkCompleted(w),
         UNCHANGED <<schedulerVars, recorded, faults>>
  PROVE  IInv'
<1>0. PICK t \in Tasks :
        t = wtask[w] /\ db[t].status = "RUNNING" /\ WorkerOK(w) /\ RowOK(t)
  BY DEF IInv, PlaceInvariant, WorkersOK, WorkerOK, MarkCompleted, StateOK, RowsOK
<1>1. 0 \in Nat
  BY DEF IInv, StateOK
<1>2. /\ db' \in [Tasks -> Row]
      /\ db'[t].status = "COMPLETED"
      /\ db'[t].attempts = 0
      /\ db'[t].error = (db[t].error \/ FALSE)
      /\ db'[t].max = db[t].max
      /\ \A u \in Tasks \ {t} : db'[u] = db[u]
  BY <1>0, <1>1, UpdateStatusEffect DEF MarkCompleted, IInv, StateOK, TaskStatus
<1>3. /\ UNCHANGED <<queue, subscribed, inbox, spc, batch, cur, wtask,
                     wattempts, executions, recorded, faults>>
      /\ wpc' = [wpc EXCEPT ![w] = "publish_completed"] /\ wpc[w] = "completed"
  BY DEF MarkCompleted, Goto, brokerVars, schedulerVars
<1>4. StateOK'
  BY <1>2, <1>3 DEF IInv, StateOK, WorkerPc
<1>5. RowOK(t)' /\ WorkerOK(w)'
  BY <1>0, <1>2, <1>3 DEF IInv, StateOK, RowOK, WorkerOK, MayExecute, WithinBudget
<1>6. WorkerActed(w, t)
  BY <1>0, <1>2, <1>3, <1>4, <1>5 DEF WorkerActed, IInv, StateOK
<1> QED
  BY <1>0, <1>3, <1>6, WorkerActedInv

\* A worker reads the row of a failed execution back and decides.
LEMMA GetAttemptsInv ==
  ASSUME IInv, NEW w \in Workers, GetAttempts(w),
         UNCHANGED <<schedulerVars, recorded, faults>>
  PROVE  IInv'
<1>0. PICK t \in Tasks :
        t = wtask[w] /\ db[t].status = "RUNNING" /\ WorkerOK(w) /\ RowOK(t)
  BY DEF IInv, PlaceInvariant, WorkersOK, WorkerOK, GetAttempts, StateOK, RowsOK
<1>1. db[t].attempts \in Nat /\ db[t].max \in Nat /\ executions[t] \in Nat
  BY <1>0 DEF IInv, StateOK, Row
<1>2. /\ UNCHANGED <<db, queue, subscribed, inbox, spc, batch, cur, wtask,
                     executions, recorded, faults>>
      /\ wpc[w] = "get"
      /\ wpc' = [wpc EXCEPT ![w] = IF db[t].attempts + 1 < db[t].max
                                   THEN "retrying" ELSE "failed"]
      /\ wattempts' = [wattempts EXCEPT ![w] = db[t].attempts + 1]
  BY <1>0 DEF GetAttempts, Goto, brokerVars, schedulerVars
<1>3. StateOK'
  BY <1>1, <1>2 DEF IInv, StateOK, WorkerPc
<1>4. RowOK(t)' /\ WorkerOK(w)'
  BY <1>0, <1>1, <1>2
     DEF IInv, StateOK, RowOK, WorkerOK, MayExecute, WithinBudget
<1>5. WorkerActed(w, t)
  BY <1>0, <1>2, <1>3, <1>4 DEF WorkerActed, IInv, StateOK
<1> QED
  BY <1>0, <1>2, <1>5, WorkerActedInv

\* `continue` and the handler leave the worker idle and the others alone.
LEMMA DropTaskEffect ==
  ASSUME IInv, NEW w \in Workers, DropTask(w)
  PROVE  /\ wpc' \in [Workers -> WorkerPc]
         /\ wtask' \in [Workers -> Tasks \cup {NoTask}]
         /\ wattempts' \in [Workers -> Nat]
         /\ wtask'[w] = NoTask
         /\ WorkerOK(w)'
         /\ \A v \in Workers \ {w} : /\ wpc'[v] = wpc[v]
                                     /\ wtask'[v] = wtask[v]
                                     /\ wattempts'[v] = wattempts[v]
<1>1. wpc'[w] = "blpop" /\ wtask'[w] = NoTask
  BY DEF DropTask, Goto, IInv, StateOK
<1>2. WorkerOK(w)'
  BY <1>1 DEF WorkerOK
<1> QED
  BY <1>1, <1>2 DEF DropTask, Goto, IInv, StateOK, WorkerPc

\* Forgetting the task without any other effect.
LEMMA DropTaskInv ==
  ASSUME IInv, NEW w \in Workers, DropTask(w), wpc[w] # "blpop",
         UNCHANGED <<executions, db, queue, subscribed, inbox>>,
         UNCHANGED <<spc, batch, cur, recorded>>, faults' \in Nat
  PROVE  IInv'
<1>1. PICK t \in Tasks : t = wtask[w] /\ RowOK(t) /\ WorkerOK(w)
  BY DEF IInv, PlaceInvariant, WorkersOK, WorkerOK, StateOK, RowsOK
<1>2. db[t].status # "PENDING"
  BY <1>1 DEF WorkerOK, IInv, StateOK, WorkerPc
<1>3. StateOK'
  BY DropTaskEffect DEF IInv, StateOK
<1>4. RowOK(t)'
  BY <1>1 DEF RowOK, MayExecute, WithinBudget
<1>5. WorkerActed(w, t)
  BY <1>1, <1>3, <1>4, DropTaskEffect DEF WorkerActed
<1> QED
  BY <1>1, <1>2, <1>5, WorkerActedInv

\* A worker executes its task: the count of executions catches up with the
\* attempts the row had.
LEMMA ExecuteInv ==
  ASSUME IInv, NEW w \in Workers, Execute(w),
         UNCHANGED <<schedulerVars, recorded, faults>>
  PROVE  IInv'
<1>0. PICK t \in Tasks :
        /\ t = wtask[w] /\ db[t].status = "RUNNING"
        /\ WorkerOK(w) /\ RowOK(t) /\ MayExecute(t)
  BY DEF IInv, PlaceInvariant, WorkersOK, WorkerOK, Execute, StateOK, RowsOK
<1>1. db[t].attempts \in Nat /\ db[t].max \in Nat /\ executions[t] \in Nat
  BY DEF IInv, StateOK, Row
<1>2. /\ UNCHANGED <<db, queue, subscribed, inbox, spc, batch, cur, recorded,
                     faults>>
      /\ wpc[w] = "execute"
      /\ executions' = [executions EXCEPT ![t] = @ + 1]
  BY <1>0 DEF Execute, brokerVars, schedulerVars
<1>3. executions' \in [Tasks -> Nat] /\ executions'[t] = executions[t] + 1
  BY <1>1, <1>2 DEF IInv, StateOK
<1>4. RowOK(t)'
  BY <1>0, <1>1, <1>2, <1>3 DEF RowOK, MayExecute, WithinBudget
<1>5. ASSUME NEW pc \in {"completed", "get"}, Goto(w, pc),
             UNCHANGED <<wtask, wattempts>>
      PROVE  IInv'
  <2>1. wpc' \in [Workers -> WorkerPc] /\ wpc'[w] = pc
    BY <1>5 DEF Goto, IInv, StateOK, WorkerPc
  <2>2. WorkerOK(w)'
    BY <1>0, <1>1, <1>2, <1>3, <1>5, <2>1, TasksAssumption
       DEF WorkerOK, MayExecute
  <2>3. WorkerActed(w, t)
    BY <1>0, <1>2, <1>3, <1>4, <1>5, <2>1, <2>2
       DEF WorkerActed, IInv, StateOK, Goto
  <2> QED
    BY <1>0, <1>2, <2>3, WorkerActedInv
<1>6. ASSUME DropTask(w) PROVE IInv'
  <2>1. WorkerActed(w, t)
    BY <1>0, <1>2, <1>3, <1>4, <1>6, DropTaskEffect
       DEF WorkerActed, IInv, StateOK
  <2> QED
    BY <1>0, <1>2, <2>1, WorkerActedInv
<1> QED
  BY <1>5, <1>6 DEF Execute

\* A row written on behalf of the task a worker holds, and the task forgotten:
\* the write took effect, its reply did not arrive.
LEMMA WriteThenDropInv ==
  ASSUME IInv, NEW w \in Workers, DropTask(w),
         NEW t \in Tasks, t = wtask[w],
         db[t].status \in {"SCHEDULED", "RETRYING", "RUNNING"},
         NEW st \in TaskStatus \ {"PENDING"}, NEW n \in Nat, NEW e \in BOOLEAN,
         UpdateStatus(t, st, n, e),
         st \in {"SCHEDULED", "RETRYING"} =>
           n = executions[t] + 1 /\ executions[t] + 1 < db[t].max,
         st = "FAILED" => n = executions[t] + 1 /\ e,
         UNCHANGED <<executions, queue, subscribed, inbox>>,
         UNCHANGED <<spc, batch, cur, recorded>>, faults' \in Nat
  PROVE  IInv'
<1>1. /\ db' \in [Tasks -> Row]
      /\ db'[t].status = st
      /\ db'[t].attempts = n
      /\ db'[t].error = (db[t].error \/ e)
      /\ db'[t].max = db[t].max
      /\ \A u \in Tasks \ {t} : db'[u] = db[u]
  BY UpdateStatusEffect DEF IInv, StateOK
<1>2. RowOK(t)
  BY DEF IInv, PlaceInvariant, RowsOK
<1>3. RowOK(t)'
  BY <1>1, <1>2 DEF RowOK, MayExecute, WithinBudget, TaskStatus
<1>4. StateOK'
  BY <1>1, DropTaskEffect DEF IInv, StateOK
<1>5. WorkerActed(w, t)
  BY <1>1, <1>3, <1>4, DropTaskEffect DEF WorkerActed, TaskStatus
<1> QED
  BY <1>5, WorkerActedInv

\* A worker publishes the outcome it has just written: the message is true.
LEMMA PublishOutcomeInv ==
  ASSUME IInv, NEW w \in Workers, PublishOutcome(w),
         UNCHANGED <<schedulerVars, recorded, faults>>
  PROVE  IInv'
<1>0. PICK t \in Tasks, ev \in {"task_failed", "task_completed"} :
        /\ t = wtask[w] /\ RowOK(t) /\ Publish(ev, t)
        /\ ev = "task_failed" => db[t].status = "FAILED"
        /\ ev = "task_completed" => db[t].status = "COMPLETED"
  BY DEF IInv, PlaceInvariant, WorkersOK, WorkerOK, PublishOutcome, StateOK,
         RowsOK
<1>1. /\ UNCHANGED <<executions, db, queue, subscribed, spc, batch, cur,
                     recorded, faults>>
      /\ DropTask(w)
  BY DEF PublishOutcome, schedulerVars
<1>2. /\ inbox' \in Seq(Event)
      /\ \A i \in 1..Len(inbox') :
           \/ i \in 1..Len(inbox) /\ inbox'[i] = inbox[i]
           \/ inbox'[i] = [event |-> ev, task |-> t]
  BY <1>0, PublishEffect DEF EventNames, IInv, StateOK
<1>3. StateOK'
  BY <1>1, <1>2, DropTaskEffect DEF IInv, StateOK
<1>4. RowOK(t)'
  BY <1>0, <1>1 DEF RowOK, MayExecute, WithinBudget
<1>5. WorkerActed(w, t)
  BY <1>0, <1>1, <1>3, <1>4, DropTaskEffect DEF WorkerActed
<1>6. EventsTrue'
  <2>1. KeepsEvents
    BY <1>1 DEF KeepsEvents
  <2>2. EventTrue([event |-> ev, task |-> t])'
    BY <1>0, <1>1 DEF EventTrue, RowOK
  <2> QED
    BY <1>0, <1>1, <2>1, <2>2, EventsAfterPublish
       DEF IInv, PlaceInvariant, EventNames
<1>7. EntriesOK'
  BY <1>0, <1>1, <1>5, EntriesFrame
<1> QED
  BY <1>0, <1>3, <1>5, <1>6, <1>7, WorkerFrame DEF IInv, PlaceInvariant

\* The lists after an LPUSH of a task that is waiting, in no list, held by no
\* worker and no longer in dispatch.
LEMMA EntriesAfterPush ==
  ASSUME StateOK, EntriesOK, NEW p0 \in Providers, NEW t \in Tasks,
         LPush(p0, t), UNCHANGED db,
         db[t].status \in {"SCHEDULED", "RETRYING"},
         \A p \in Providers : \A i \in 1..Len(queue[p]) : queue[p][i] # t,
         \A v \in Workers : wtask'[v] # t /\ wtask'[v] \in {wtask[v], NoTask},
         \A s \in Schedulers : spc'[s] = "push" =>
           cur'[s] # t /\ spc[s] = "push" /\ cur'[s] = cur[s]
  PROVE  EntriesOK'
<1>1. /\ queue' \in [Providers -> Seq(Tasks)]
      /\ Len(queue'[p0]) = Len(queue[p0]) + 1
      /\ queue'[p0][1] = t
      /\ \A i \in 2..Len(queue'[p0]) :
           i - 1 \in 1..Len(queue[p0]) /\ queue'[p0][i] = queue[p0][i - 1]
      /\ \A q \in Providers \ {p0} : queue'[q] = queue[q]
  BY LPushEffect DEF StateOK
<1>2. ASSUME NEW p \in Providers, NEW i \in 1..Len(queue'[p])
      PROVE  \/ p = p0 /\ i = 1 /\ queue'[p][i] = t
             \/ \E j \in 1..Len(queue[p]) :
                  /\ queue'[p][i] = queue[p][j]
                  /\ i = IF p = p0 THEN j + 1 ELSE j
  <2>1. CASE p = p0 /\ i = 1
    BY <1>1, <2>1
  <2>2. CASE p = p0 /\ i # 1
    <3>1. Len(queue'[p]) \in Nat
      BY <1>1, LenProperties
    <3>2. i \in 2..Len(queue'[p])
      BY <2>2, <3>1
    <3>3. i - 1 \in 1..Len(queue[p]) /\ queue'[p][i] = queue[p][i - 1]
      BY <1>1, <2>2, <3>2
    <3> QED
      BY <2>2, <3>2, <3>3
  <2>3. CASE p # p0
    BY <1>1, <2>3
  <2> QED
    BY <2>1, <2>2, <2>3
<1>3. ASSUME NEW p \in Providers, NEW i \in 1..Len(queue[p])
      PROVE  EntryOK(p, i) /\ queue[p][i] \in Tasks
  BY ElementOfSeq DEF EntriesOK, StateOK
<1> SUFFICES ASSUME NEW p \in Providers, NEW i \in 1..Len(queue'[p])
             PROVE  EntryOK(p, i)'
  BY DEF EntriesOK
<1>4. CASE p = p0 /\ i = 1 /\ queue'[p][i] = t
  <2>1. ASSUME NEW q \in Providers, NEW j \in 1..Len(queue'[q]),
               queue'[q][j] = t
        PROVE  q = p /\ j = i
    BY <1>2, <1>4, <2>1
  <2> QED
    BY <1>4, <2>1 DEF EntryOK
<1>5. ASSUME NEW k \in 1..Len(queue[p]), queue'[p][i] = queue[p][k],
             i = IF p = p0 THEN k + 1 ELSE k
      PROVE  EntryOK(p, i)'
  <2>1. PICK u \in Tasks : u = queue[p][k]
    BY <1>3
  <2>2. EntryOK(p, k) /\ u # t
    BY <1>3, <2>1
  <2>3. ASSUME NEW q \in Providers, NEW j \in 1..Len(queue'[q]),
               queue'[q][j] = u
        PROVE  q = p /\ j = i
    <3>1. PICK m \in 1..Len(queue[q]) : /\ queue'[q][j] = queue[q][m]
                                        /\ j = IF q = p0 THEN m + 1 ELSE m
      BY <1>2, <2>2, <2>3
    <3>2. q = p /\ m = k
      BY <2>1, <2>2, <2>3, <3>1 DEF EntryOK
    <3> QED
      BY <1>5, <3>1, <3>2
  <2>4. \A v \in Workers : wtask'[v] # u
    BY <2>1, <2>2, TasksAssumption DEF EntryOK
  <2>5. db[u].status \in {"SCHEDULED", "RETRYING"}
        /\ \A s \in Schedulers : ~(spc'[s] = "push" /\ cur'[s] = u)
    BY <2>1, <2>2 DEF EntryOK
  <2> QED
    BY <1>5, <2>1, <2>3, <2>4, <2>5 DEF EntryOK
<1> QED
  BY <1>2, <1>4, <1>5

\* The lists after a BLPOP of t that left everything else alone, but for a
\* worker that may now hold t.
LEMMA EntriesAfterPop ==
  ASSUME StateOK, EntriesOK, NEW p0 \in Providers, NEW t \in Tasks,
         LPop(p0, t), UNCHANGED <<db, spc, cur>>,
         \A v \in Workers : wtask'[v] \in {wtask[v], NoTask, t}
  PROVE  EntriesOK'
<1>1. /\ queue' \in [Providers -> Seq(Tasks)]
      /\ 1 \in 1..Len(queue[p0]) /\ queue[p0][1] = t
      /\ Len(queue'[p0]) = Len(queue[p0]) - 1
      /\ \A i \in 1..Len(queue'[p0]) :
           i + 1 \in 1..Len(queue[p0]) /\ queue'[p0][i] = queue[p0][i + 1]
      /\ \A q \in Providers \ {p0} : queue'[q] = queue[q]
  BY LPopEffect DEF StateOK
<1>2. ASSUME NEW p \in Providers, NEW i \in 1..Len(queue'[p])
      PROVE  \E j \in 1..Len(queue[p]) :
               /\ queue'[p][i] = queue[p][j]
               /\ j = IF p = p0 THEN i + 1 ELSE i
  BY <1>1
<1>3. ASSUME NEW p \in Providers, NEW i \in 1..Len(queue[p])
      PROVE  EntryOK(p, i) /\ queue[p][i] \in Tasks
  BY ElementOfSeq DEF EntriesOK, StateOK
<1> SUFFICES ASSUME NEW p \in Providers, NEW i \in 1..Len(queue'[p])
             PROVE  EntryOK(p, i)'
  BY DEF EntriesOK
<1>4. PICK k \in 1..Len(queue[p]) : /\ queue'[p][i] = queue[p][k]
                                    /\ k = IF p = p0 THEN i + 1 ELSE i
  BY <1>2
<1>5. PICK u \in Tasks : u = queue[p][k]
  BY <1>3
<1>6. EntryOK(p, k)
  BY <1>3
<1>7. u # t
  BY <1>1, <1>4, <1>5, <1>6 DEF EntryOK
<1>8. ASSUME NEW q \in Providers, NEW j \in 1..Len(queue'[q]),
             queue'[q][j] = u
      PROVE  q = p /\ j = i
  <2>1. PICK m \in 1..Len(queue[q]) : /\ queue'[q][j] = queue[q][m]
                                      /\ m = IF q = p0 THEN j + 1 ELSE j
    BY <1>2
  <2>2. q = p /\ m = k
    BY <1>5, <1>6, <1>8, <2>1 DEF EntryOK
  <2> QED
    BY <1>4, <2>1, <2>2
<1>9. \A v \in Workers : wtask'[v] # u
  BY <1>5, <1>6, <1>7, TasksAssumption DEF EntryOK
<1>10. db[u].status \in {"SCHEDULED", "RETRYING"}
       /\ \A s \in Schedulers : ~(spc[s] = "push" /\ cur[s] = u)
  BY <1>5, <1>6 DEF EntryOK
<1> QED
  BY <1>4, <1>5, <1>8, <1>9, <1>10 DEF EntryOK

\* Pushing the task a worker holds back to the list and forgetting it, as a
\* step of its own or with the reply of the LPUSH lost.
LEMMA RequeueInv ==
  ASSUME IInv, NEW w \in Workers, wpc[w] = "requeue",
         LPush("opencode", wtask[w]), DropTask(w),
         UNCHANGED <<executions, db, subscribed, inbox>>,
         UNCHANGED <<spc, batch, cur, recorded>>, faults' \in Nat
  PROVE  IInv'
<1>0. PICK t \in Tasks : /\ t = wtask[w] /\ db[t].status = "RETRYING"
                         /\ RowOK(t) /\ LPush("opencode", t)
  BY DEF IInv, PlaceInvariant, WorkersOK, WorkerOK, StateOK, RowsOK
<1>1. StateOK'
  BY <1>0, LPushEffect, DropTaskEffect, ProvidersAssumption DEF IInv, StateOK
<1>2. RowOK(t)'
  BY <1>0 DEF RowOK, MayExecute, WithinBudget
<1>3. WorkerActed(w, t)
  BY <1>0, <1>1, <1>2, DropTaskEffect DEF WorkerActed
<1>4. EntriesOK'
  <2>1. \A v \in Workers : wtask'[v] # t /\ wtask'[v] \in {wtask[v], NoTask}
    BY <1>0, TasksAssumption, DropTaskEffect DEF IInv, PlaceInvariant, OneHolder
  <2>2. \A s \in Schedulers : spc[s] = "push" => cur[s] # t
    BY <1>0 DEF IInv, PlaceInvariant, NotHeldInDispatch
  <2>3. \A p \in Providers : \A i \in 1..Len(queue[p]) : queue[p][i] # t
    BY <1>0 DEF IInv, PlaceInvariant, EntriesOK, EntryOK
  <2> QED
    BY <1>0, <2>1, <2>2, <2>3, EntriesAfterPush, ProvidersAssumption
       DEF IInv, PlaceInvariant
<1>5. EventsTrue'
  BY <1>0, <1>3, WorkerFrame, EventsStayTrue DEF IInv, PlaceInvariant
<1> QED
  BY <1>0, <1>1, <1>3, <1>4, <1>5, WorkerFrame DEF IInv, PlaceInvariant

\* Nothing but the lists and one worker's variables changed.
LEMMA RowsUnchanged ==
  ASSUME IInv, UNCHANGED <<db, executions, spc, batch, cur>>
  PROVE  RowsOK' /\ SchedulersOK' /\ KeepsEvents
BY DEF IInv, PlaceInvariant, RowsOK, RowOK, MayExecute, WithinBudget,
       SchedulersOK, SchedulerOK, KeepsEvents

\* A worker takes the first task of its list, or a BLPOP takes it and loses
\* the reply.
LEMMA PopInv ==
  ASSUME IInv, NEW w \in Workers, wpc[w] = "blpop",
         NEW t \in Tasks, LPop("opencode", t),
         \/ /\ wtask' = [wtask EXCEPT ![w] = t]
            /\ wpc' = [wpc EXCEPT ![w] = "running"]
            /\ UNCHANGED wattempts
         \/ DropTask(w),
         UNCHANGED <<executions, db, subscribed, inbox>>,
         UNCHANGED <<spc, batch, cur, recorded>>, faults' \in Nat
  PROVE  IInv'
<1> USE DEF IInv, PlaceInvariant
<1>1. /\ queue' \in [Providers -> Seq(Tasks)]
      /\ 1 \in 1..Len(queue["opencode"]) /\ queue["opencode"][1] = t
  BY LPopEffect, ProvidersAssumption DEF StateOK
<1>2. /\ db[t].status \in {"SCHEDULED", "RETRYING"}
      /\ \A v \in Workers : wtask[v] # t
      /\ \A s \in Schedulers : ~(spc[s] = "push" /\ cur[s] = t)
  BY <1>1, ProvidersAssumption DEF EntriesOK, EntryOK
<1>3. /\ wpc' \in [Workers -> WorkerPc]
      /\ wtask' \in [Workers -> Tasks \cup {NoTask}]
      /\ wattempts' \in [Workers -> Nat]
      /\ wtask'[w] \in {t, NoTask}
      /\ wpc'[w] = IF wtask'[w] = t THEN "running" ELSE "blpop"
      /\ \A v \in Workers \ {w} :
           wpc'[v] = wpc[v] /\ wtask'[v] = wtask[v] /\ wattempts'[v] = wattempts[v]
  <2>1. CASE /\ wtask' = [wtask EXCEPT ![w] = t]
             /\ wpc' = [wpc EXCEPT ![w] = "running"]
             /\ UNCHANGED wattempts
    BY <2>1 DEF StateOK, WorkerPc
  <2>2. CASE DropTask(w)
    BY <2>2, TasksAssumption DEF DropTask, Goto, StateOK, WorkerPc
  <2> QED
    BY <2>1, <2>2
<1>4. StateOK'
  BY <1>1, <1>3 DEF StateOK
<1>5. RowsOK' /\ SchedulersOK' /\ KeepsEvents
  BY RowsUnchanged
<1>6. WorkersOK'
  <2> SUFFICES ASSUME NEW v \in Workers PROVE WorkerOK(v)'
    BY DEF WorkersOK
  <2>1. WorkerOK(v)
    BY DEF WorkersOK
  <2>2. CASE v = w
    BY <1>2, <1>3, <2>2, TasksAssumption DEF WorkerOK
  <2>3. CASE v # w
    BY <1>3, <2>1, <2>3 DEF WorkerOK, MayExecute
  <2> QED
    BY <2>2, <2>3
<1>7. OneHolder' /\ NotHeldInDispatch'
  <2>1. \A v \in Workers \ {w} : wtask'[v] = wtask[v] /\ wtask[v] # t
    BY <1>2, <1>3
  <2>2. OneHolder'
    BY <1>3, <2>1 DEF OneHolder
  <2>3. ASSUME NEW v \in Workers, NEW s \in Schedulers, spc[s] = "push"
        PROVE  wtask'[v] # cur[s]
    <3>1. cur[s] # NoTask /\ cur[s] # t /\ wtask[v] # cur[s]
      BY <1>2, <2>3 DEF SchedulersOK, SchedulerOK, NotHeldInDispatch
    <3> QED
      BY <1>3, <3>1
  <2> QED
    BY <2>2, <2>3 DEF NotHeldInDispatch
<1>8. EntriesOK'
  BY <1>3, EntriesAfterPop, ProvidersAssumption
<1>9. EventsTrue'
  BY <1>5, EventsStayTrue
<1> QED
  BY <1>4, <1>5, <1>6, <1>7, <1>8, <1>9

\* One iteration of consume, whatever call of it is next.
LEMMA WorkerStepInv ==
  ASSUME IInv, NEW w \in Workers, RunWorker(w)
  PROVE  IInv'
<1>0. /\ UNCHANGED <<schedulerVars, recorded, faults>>
      /\ UNCHANGED <<spc, batch, cur, recorded>>
      /\ faults' \in Nat
  BY DEF RunWorker, schedulerVars, IInv, StateOK
<1>1. CASE Pop(w)
  <2>1. PICK t \in Tasks : /\ LPop("opencode", t)
                           /\ wtask' = [wtask EXCEPT ![w] = t]
    BY <1>1 DEF Pop
  <2> QED
    BY <1>0, <1>1, <2>1, PopInv DEF Pop, Goto
<1>2. CASE MarkRunning(w)
  BY <1>0, <1>2, MarkRunningInv
<1>3. CASE Execute(w)
  BY <1>0, <1>3, ExecuteInv
<1>4. CASE GetAttempts(w)
  BY <1>0, <1>4, GetAttemptsInv
<1>5. CASE MarkRetrying(w)
  BY <1>0, <1>5, MarkRetryingInv
<1>6. CASE Requeue(w)
  BY <1>0, <1>6, RequeueInv DEF Requeue
<1>7. CASE MarkFailed(w)
  BY <1>0, <1>7, MarkFailedInv
<1>8. CASE ErrorUpdateRejected(w)
  BY <1>0, <1>8, DropTaskInv DEF ErrorUpdateRejected, brokerVars
<1>9. CASE MarkCompleted(w)
  BY <1>0, <1>9, MarkCompletedInv
<1>10. CASE PublishOutcome(w)
  BY <1>0, <1>10, PublishOutcomeInv
<1> QED
  BY <1>1, <1>2, <1>3, <1>4, <1>5, <1>6, <1>7, <1>8, <1>9, <1>10
     DEF RunWorker, WorkerStep

\* A call of consume that fails, or in which the worker dies.
LEMMA WorkerInterruptedInv ==
  ASSUME IInv, NEW w \in Workers, WorkerInterrupted(w),
         UNCHANGED <<schedulerVars, recorded>>, faults' \in Nat
  PROVE  IInv'
<1>0. /\ UNCHANGED <<spc, batch, cur, recorded>>
      /\ DropTask(w)
      /\ WorkerOK(w)
  BY DEF WorkerInterrupted, schedulerVars, IInv, PlaceInvariant, WorkersOK
<1>1. CASE wpc[w] # "blpop" /\ UNCHANGED <<executions, db, brokerVars>>
  BY <1>0, <1>1, DropTaskInv DEF brokerVars
<1>2. CASE /\ wpc[w] = "blpop"
           /\ \E t \in Tasks : LPop("opencode", t)
           /\ UNCHANGED <<executions, db, subscribed, inbox>>
  BY <1>0, <1>2, PopInv
<1>3. CASE /\ wpc[w] = "requeue"
           /\ LPush("opencode", wtask[w])
           /\ UNCHANGED <<executions, db, subscribed, inbox>>
  BY <1>0, <1>3, RequeueInv
<1>4. ASSUME wpc[w] # "blpop"
      PROVE  \E t \in Tasks : /\ t = wtask[w] /\ RowOK(t)
                              /\ db[t].attempts \in Nat /\ db[t].max \in Nat
                              /\ executions[t] \in Nat /\ wattempts[w] \in Nat
  BY <1>0, <1>4 DEF IInv, PlaceInvariant, WorkerOK, StateOK, RowsOK, Row
<1>5. CASE /\ wpc[w] = "execute"
           /\ executions' = [executions EXCEPT ![wtask[w]] = @ + 1]
           /\ UNCHANGED <<db, brokerVars>>
  <2>1. PICK t \in Tasks : /\ t = wtask[w] /\ RowOK(t)
                           /\ db[t].max \in Nat /\ executions[t] \in Nat
    BY <1>4, <1>5
  <2>2. db[t].status = "RUNNING" /\ MayExecute(t)
    BY <1>0, <1>5, <2>1 DEF WorkerOK
  <2>3. executions' \in [Tasks -> Nat] /\ executions'[t] = executions[t] + 1
        /\ \A u \in Tasks \ {t} : executions'[u] = executions[u]
    BY <1>5, <2>1 DEF IInv, StateOK
  <2>4. RowOK(t)'
    BY <1>5, <2>1, <2>2, <2>3 DEF RowOK, MayExecute, WithinBudget
  <2>5. StateOK'
    BY <1>0, <1>5, <2>3, DropTaskEffect DEF IInv, StateOK, brokerVars
  <2>6. WorkerActed(w, t)
    BY <1>0, <1>5, <2>1, <2>3, <2>4, <2>5, DropTaskEffect DEF WorkerActed
  <2> QED
    BY <1>0, <1>5, <2>1, <2>2, <2>6, WorkerActedInv DEF brokerVars
<1>6. CASE /\ wpc[w] = "running"
           /\ UpdateStatus(wtask[w], "RUNNING", db[wtask[w]].attempts, FALSE)
           /\ UNCHANGED <<executions, brokerVars>>
  <2>1. PICK t \in Tasks : t = wtask[w] /\ db[t].attempts \in Nat
    BY <1>4, <1>6
  <2>2. db[t].status \in {"SCHEDULED", "RETRYING"}
    BY <1>0, <1>6, <2>1 DEF WorkerOK
  <2> QED
    BY <1>0, <1>6, <2>1, <2>2, WriteThenDropInv DEF TaskStatus, brokerVars
<1>7. CASE /\ wpc[w] = "completed"
           /\ UpdateStatus(wtask[w], "COMPLETED", 0, FALSE)
           /\ UNCHANGED <<executions, brokerVars>>
  <2>1. PICK t \in Tasks : t = wtask[w]
    BY <1>4, <1>7
  <2>2. db[t].status = "RUNNING"
    BY <1>0, <1>7, <2>1 DEF WorkerOK
  <2> QED
    BY <1>0, <1>7, <2>1, <2>2, WriteThenDropInv DEF TaskStatus, brokerVars
<1>8. CASE /\ wpc[w] \in {"retrying", "failed"}
           /\ UpdateStatus(wtask[w],
                           IF wpc[w] = "failed" THEN "FAILED" ELSE "RETRYING",
                           wattempts[w], TRUE)
           /\ UNCHANGED <<executions, brokerVars>>
  <2>1. PICK t \in Tasks : t = wtask[w] /\ wattempts[w] \in Nat
    BY <1>4, <1>8
  <2>2. /\ db[t].status = "RUNNING"
        /\ wattempts[w] = executions[t] + 1
        /\ wpc[w] = "retrying" => executions[t] + 1 < db[t].max
    BY <1>0, <1>8, <2>1 DEF WorkerOK
  <2>3. CASE wpc[w] = "failed"
    BY <1>0, <1>8, <2>1, <2>2, <2>3, WriteThenDropInv DEF TaskStatus, brokerVars
  <2>4. CASE wpc[w] = "retrying"
    BY <1>0, <1>8, <2>1, <2>2, <2>4, WriteThenDropInv DEF TaskStatus, brokerVars
  <2> QED
    BY <1>8, <2>3, <2>4
<1> QED
  BY <1>1, <1>2, <1>3, <1>5, <1>6, <1>7, <1>8 DEF WorkerInterrupted

\* A task a worker holds has left PENDING.
LEMMA HeldStarted ==
  ASSUME IInv, NEW w \in Workers, NEW t \in Tasks,
         db[t].status \in {"absent", "PENDING"}
  PROVE  wtask[w] # t
<1> SUFFICES ASSUME wtask[w] = t PROVE FALSE
  OBVIOUS
<1>1. WorkerOK(w) /\ wpc[w] \in WorkerPc
  BY DEF IInv, PlaceInvariant, WorkersOK, StateOK
<1>2. wpc[w] # "blpop"
  BY <1>1, TasksAssumption DEF WorkerOK
<1> QED
  BY <1>1, <1>2 DEF WorkerOK, WorkerPc

\* The scheduler fetches pending rows.
LEMMA FetchInv ==
  ASSUME IInv, NEW s \in Schedulers, Fetch(s),
         UNCHANGED <<workerVars, recorded, faults>>
  PROVE  IInv'
<1> USE DEF IInv, PlaceInvariant
<1>0. PICK B \in SUBSET Pending : batch' = [batch EXCEPT ![s] = B]
  BY DEF Fetch
<1>1. /\ UNCHANGED <<db, queue, subscribed, inbox, cur, wpc, wtask, wattempts,
                     executions, recorded, faults>>
      /\ spc[s] = "poll" /\ spc' = [spc EXCEPT ![s] = "mark"]
  BY DEF Fetch, brokerVars, workerVars
<1>2. StateOK'
  BY <1>0, <1>1 DEF StateOK, SchedulerPc, Pending
<1>3. SchedulersOK'
  <2> SUFFICES ASSUME NEW r \in Schedulers PROVE SchedulerOK(r)'
    BY DEF SchedulersOK
  <2>1. r = s /\ SchedulerOK(r)
    BY SchedulerAssumption DEF SchedulersOK
  <2>2. spc'[r] = "mark" /\ batch'[r] = B
    BY <1>0, <1>1, <2>1 DEF StateOK
  <2> QED
    BY <1>1, <2>1, <2>2 DEF SchedulerOK, Pending
<1>4. ASSUME NEW r \in Schedulers PROVE spc'[r] # "push"
  BY <1>1, SchedulerAssumption DEF StateOK
<1>5. RowsOK' /\ WorkersOK' /\ OneHolder'
  BY <1>1 DEF RowsOK, RowOK, MayExecute, WithinBudget, WorkersOK, WorkerOK,
              OneHolder
<1>6. NotHeldInDispatch' /\ EntriesOK'
  BY <1>1, <1>4 DEF NotHeldInDispatch, EntriesOK, EntryOK
<1>7. EventsTrue'
  BY <1>1, EventsStayTrue DEF KeepsEvents
<1> QED
  BY <1>2, <1>3, <1>5, <1>6, <1>7

\* The scheduler marks the row t of its list SCHEDULED, and goes on to queue
\* it, or loses its place.
LEMMA MarkInv ==
  ASSUME IInv, NEW s \in Schedulers, spc[s] = "mark", NEW t \in batch[s],
         UpdateStatus(t, "SCHEDULED", 1, FALSE),
         \/ /\ cur' = [cur EXCEPT ![s] = t]
            /\ batch' = [batch EXCEPT ![s] = @ \ {t}]
            /\ spc' = [spc EXCEPT ![s] = "push"]
         \/ AbandonBatch(s),
         UNCHANGED <<queue, subscribed, inbox>>,
         UNCHANGED <<wpc, wtask, wattempts, executions, recorded>>,
         faults' \in Nat
  PROVE  IInv'
<1> USE DEF IInv, PlaceInvariant
<1>0. t \in Tasks /\ db[t].status = "PENDING" /\ RowOK(t) /\ SchedulerOK(s)
  BY DEF SchedulersOK, SchedulerOK, StateOK, RowsOK
<1>1. /\ db' \in [Tasks -> Row]
      /\ db'[t].status = "SCHEDULED"
      /\ db'[t].attempts = 1
      /\ db'[t].error = (db[t].error \/ FALSE)
      /\ db'[t].max = db[t].max
      /\ \A u \in Tasks \ {t} : db'[u] = db[u]
  BY <1>0, UpdateStatusEffect DEF StateOK, TaskStatus
<1>2. /\ spc' \in [Schedulers -> SchedulerPc]
      /\ batch' \in [Schedulers -> SUBSET Tasks]
      /\ cur' \in [Schedulers -> Tasks \cup {NoTask}]
      /\ spc'[s] \in {"push", "poll"}
      /\ spc'[s] = "push" => cur'[s] = t /\ batch'[s] = batch[s] \ {t}
      /\ spc'[s] = "poll" => cur'[s] = NoTask /\ batch'[s] = {}
  <2>1. CASE AbandonBatch(s)
    BY <2>1 DEF AbandonBatch, StateOK, SchedulerPc
  <2>2. CASE /\ cur' = [cur EXCEPT ![s] = t]
             /\ batch' = [batch EXCEPT ![s] = @ \ {t}]
             /\ spc' = [spc EXCEPT ![s] = "push"]
    BY <1>0, <2>2 DEF StateOK, SchedulerPc
  <2> QED
    BY <2>1, <2>2
<1>3. StateOK'
  BY <1>1, <1>2 DEF StateOK
<1>4. \A w \in Workers : wtask[w] # t
  BY <1>0, HeldStarted
<1>5. \A p \in Providers : \A i \in 1..Len(queue[p]) : queue[p][i] # t
  BY <1>0 DEF EntriesOK, EntryOK
<1>6. RowsOK'
  <2>1. RowOK(t)'
    BY <1>0, <1>1 DEF RowOK, MayExecute, WithinBudget
  <2>2. ASSUME NEW u \in Tasks \ {t} PROVE RowOK(u)'
    BY <1>1 DEF RowsOK, RowOK, MayExecute, WithinBudget
  <2> QED
    BY <2>1, <2>2 DEF RowsOK
<1>7. SchedulersOK'
  <2> SUFFICES ASSUME NEW r \in Schedulers PROVE SchedulerOK(r)'
    BY DEF SchedulersOK
  <2>1. r = s
    BY SchedulerAssumption
  <2>2. \A u \in batch[s] : u \in Tasks /\ db[u].status = "PENDING"
    BY <1>0 DEF SchedulerOK, StateOK
  <2> QED
    BY <1>0, <1>1, <1>2, <2>1, <2>2, TasksAssumption DEF SchedulerOK
<1>8. WorkersOK'
  <2> SUFFICES ASSUME NEW v \in Workers PROVE WorkerOK(v)'
    BY DEF WorkersOK
  <2>1. WorkerOK(v) /\ wtask[v] \in Tasks \cup {NoTask} /\ wtask[v] # t
    BY <1>4 DEF WorkersOK, StateOK
  <2>2. CASE wtask[v] = NoTask
    BY <2>1, <2>2 DEF WorkerOK
  <2>3. CASE wtask[v] \in Tasks
    BY <1>1, <2>1, <2>3 DEF WorkerOK, MayExecute
  <2> QED
    BY <2>1, <2>2, <2>3
<1>9. OneHolder' /\ NotHeldInDispatch'
  BY <1>2, <1>4, SchedulerAssumption DEF OneHolder, NotHeldInDispatch
<1>10. EntriesOK'
  <2> SUFFICES ASSUME NEW p \in Providers, NEW i \in 1..Len(queue[p])
               PROVE  EntryOK(p, i)'
    BY DEF EntriesOK
  <2>1. EntryOK(p, i) /\ queue[p][i] # t /\ queue[p][i] \in Tasks
    BY <1>5, ElementOfSeq DEF EntriesOK, StateOK
  <2>2. \A r \in Schedulers : ~(spc'[r] = "push" /\ cur'[r] = queue[p][i])
    BY <1>2, <2>1, SchedulerAssumption
  <2> QED
    BY <1>1, <2>1, <2>2 DEF EntryOK
<1>11. EventsTrue'
  <2>1. KeepsEvents
    BY <1>0, <1>1 DEF KeepsEvents
  <2> QED
    BY <2>1, EventsStayTrue
<1> QED
  BY <1>3, <1>6, <1>7, <1>8, <1>9, <1>10, <1>11

\* The scheduler pushes the task it has marked.
LEMMA PushInv ==
  ASSUME IInv, NEW s \in Schedulers, spc[s] = "push",
         LPush(ProviderOf(cur[s]), cur[s]),
         \/ /\ spc' = [spc EXCEPT ![s] = "publish"]
            /\ UNCHANGED <<batch, cur>>
         \/ AbandonBatch(s),
         UNCHANGED <<db, subscribed, inbox>>,
         UNCHANGED <<wpc, wtask, wattempts, executions, recorded>>,
         faults' \in Nat
  PROVE  IInv'
<1> USE DEF IInv, PlaceInvariant
<1>0. PICK t \in Tasks : /\ t = cur[s] /\ db[t].status = "SCHEDULED"
                         /\ SchedulerOK(s)
  BY DEF SchedulersOK, SchedulerOK, StateOK
<1>1. PICK p0 \in Providers : p0 = ProviderOf(t) /\ LPush(p0, t)
  BY <1>0, ProvidersAssumption DEF ProviderOf, StateOK, Row, RowProviders
<1>2. /\ spc' \in [Schedulers -> SchedulerPc]
      /\ batch' \in [Schedulers -> SUBSET Tasks]
      /\ cur' \in [Schedulers -> Tasks \cup {NoTask}]
      /\ spc'[s] \in {"publish", "poll"}
      /\ spc'[s] = "publish" => cur'[s] = t /\ batch'[s] = batch[s]
      /\ spc'[s] = "poll" => cur'[s] = NoTask /\ batch'[s] = {}
  <2>1. CASE AbandonBatch(s)
    BY <2>1 DEF AbandonBatch, StateOK, SchedulerPc
  <2>2. CASE spc' = [spc EXCEPT ![s] = "publish"] /\ UNCHANGED <<batch, cur>>
    BY <1>0, <2>2 DEF StateOK, SchedulerPc
  <2> QED
    BY <2>1, <2>2
<1>3. StateOK'
  BY <1>1, <1>2, LPushEffect DEF StateOK
<1>4. \A w \in Workers : wtask[w] # t
  BY <1>0 DEF NotHeldInDispatch
<1>5. \A p \in Providers : \A i \in 1..Len(queue[p]) : queue[p][i] # t
  BY <1>0 DEF EntriesOK, EntryOK
<1>6. \A r \in Schedulers : spc'[r] # "push"
  BY <1>2, SchedulerAssumption
<1>7. SchedulersOK'
  <2> SUFFICES ASSUME NEW r \in Schedulers PROVE SchedulerOK(r)'
    BY DEF SchedulersOK
  <2>1. r = s
    BY SchedulerAssumption
  <2> QED
    BY <1>0, <1>2, <2>1, TasksAssumption DEF SchedulerOK
<1>8. RowsOK' /\ WorkersOK' /\ OneHolder'
  BY DEF RowsOK, RowOK, MayExecute, WithinBudget, WorkersOK, WorkerOK, OneHolder
<1>9. NotHeldInDispatch'
  BY <1>6 DEF NotHeldInDispatch
<1>10. EntriesOK'
  BY <1>0, <1>1, <1>4, <1>5, <1>6, EntriesAfterPush
<1>11. EventsTrue'
  BY EventsStayTrue DEF KeepsEvents
<1> QED
  BY <1>3, <1>7, <1>8, <1>9, <1>10, <1>11

\* The scheduler publishes task_scheduled (or the call fails) and takes up
\* the next row, or drops the list.
LEMMA SchedulerMovesOnInv ==
  ASSUME IInv, NEW s \in Schedulers, spc[s] # "poll",
         \/ spc[s] = "publish" /\ Publish("task_scheduled", cur[s])
         \/ UNCHANGED inbox,
         \/ /\ spc[s] = "publish"
            /\ spc' = [spc EXCEPT ![s] = IF batch[s] = {} THEN "poll" ELSE "mark"]
            /\ cur' = [cur EXCEPT ![s] = NoTask]
            /\ UNCHANGED batch
         \/ AbandonBatch(s),
         UNCHANGED <<db, queue, subscribed>>,
         UNCHANGED <<wpc, wtask, wattempts, executions, recorded>>,
         faults' \in Nat
  PROVE  IInv'
<1> USE DEF IInv, PlaceInvariant
<1>0. SchedulerOK(s)
  BY DEF SchedulersOK
<1>1. /\ spc' \in [Schedulers -> SchedulerPc]
      /\ batch' \in [Schedulers -> SUBSET Tasks]
      /\ cur' \in [Schedulers -> Tasks \cup {NoTask}]
      /\ cur'[s] = NoTask
      /\ \/ spc'[s] = "mark" /\ batch'[s] = batch[s]
         \/ spc'[s] = "poll" /\ batch'[s] = {}
  <2>1. CASE AbandonBatch(s)
    BY <2>1 DEF AbandonBatch, StateOK, SchedulerPc
  <2>2. CASE /\ spc' = [spc EXCEPT ![s] =
                          IF batch[s] = {} THEN "poll" ELSE "mark"]
             /\ cur' = [cur EXCEPT ![s] = NoTask]
             /\ UNCHANGED batch
    <3>1. /\ cur' \in [Schedulers -> Tasks \cup {NoTask}]
          /\ cur'[s] = NoTask
          /\ batch' \in [Schedulers -> SUBSET Tasks]
          /\ batch'[s] = batch[s]
      BY <2>2 DEF StateOK
    <3>2. CASE batch[s] = {}
      <4>1. spc' = [spc EXCEPT ![s] = "poll"]
        BY <2>2, <3>2
      <4>2. spc' \in [Schedulers -> SchedulerPc] /\ spc'[s] = "poll"
        BY <4>1 DEF StateOK, SchedulerPc
      <4> QED
        BY <3>1, <3>2, <4>2
    <3>3. CASE batch[s] # {}
      <4>1. spc' = [spc EXCEPT ![s] = "mark"]
        BY <2>2, <3>3
      <4>2. spc' \in [Schedulers -> SchedulerPc] /\ spc'[s] = "mark"
        BY <4>1 DEF StateOK, SchedulerPc
      <4> QED
        BY <3>1, <4>2
    <3> QED
      BY <3>2, <3>3
  <2> QED
    BY <2>1, <2>2
<1>2. \A r \in Schedulers : spc'[r] # "push"
  BY <1>1, SchedulerAssumption
<1>3. inbox' \in Seq(Event) /\ EventsTrue'
  <2>1. KeepsEvents
    BY DEF KeepsEvents
  <2>2. CASE UNCHANGED inbox
    BY <2>1, <2>2, EventsStayTrue DEF StateOK
  <2>3. CASE spc[s] = "publish" /\ Publish("task_scheduled", cur[s])
    <3>1. PICK t \in Tasks : /\ t = cur[s]
                             /\ db[t].status \notin {"absent", "PENDING"}
      BY <1>0, <2>3 DEF SchedulerOK, StateOK
    <3>2. EventTrue([event |-> "task_scheduled", task |-> t])'
      BY <3>1 DEF EventTrue
    <3>3. Publish("task_scheduled", t) /\ "task_scheduled" \in EventNames
      BY <2>3, <3>1 DEF EventNames
    <3> QED
      BY <2>1, <3>2, <3>3, EventsAfterPublish, PublishEffect DEF StateOK
  <2> QED
    BY <2>2, <2>3
<1>4. StateOK'
  BY <1>1, <1>3 DEF StateOK
<1>5. SchedulersOK'
  <2> SUFFICES ASSUME NEW r \in Schedulers PROVE SchedulerOK(r)'
    BY DEF SchedulersOK
  <2>1. r = s
    BY SchedulerAssumption
  <2> QED
    BY <1>0, <1>1, <2>1 DEF SchedulerOK
<1>6. RowsOK' /\ WorkersOK' /\ OneHolder'
  BY DEF RowsOK, RowOK, MayExecute, WithinBudget, WorkersOK, WorkerOK, OneHolder
<1>7. NotHeldInDispatch' /\ EntriesOK'
  BY <1>2 DEF NotHeldInDispatch, EntriesOK, EntryOK
<1> QED
  BY <1>3, <1>4, <1>5, <1>6, <1>7

\* One step of poll_pg.
LEMMA SchedulerStepInv ==
  ASSUME IInv, NEW s \in Schedulers, RunScheduler(s)
  PROVE  IInv'
<1>0. /\ UNCHANGED <<workerVars, recorded, faults>>
      /\ UNCHANGED <<wpc, wtask, wattempts, executions, recorded>>
      /\ faults' \in Nat
  BY DEF RunScheduler, workerVars, IInv, StateOK
<1>1. CASE Fetch(s)
  BY <1>0, <1>1, FetchInv
<1>2. CASE Mark(s)
  BY <1>0, <1>2, MarkInv DEF Mark, brokerVars
<1>3. CASE Push(s)
  BY <1>0, <1>3, PushInv DEF Push
<1>4. CASE PublishScheduled(s)
  BY <1>0, <1>4, SchedulerMovesOnInv DEF PublishScheduled
<1> QED
  BY <1>1, <1>2, <1>3, <1>4 DEF RunScheduler, SchedulerStep

\* A call of poll_pg that fails, or in which the scheduler dies.
LEMMA SchedulerInterruptedInv ==
  ASSUME IInv, NEW s \in Schedulers, SchedulerInterrupted(s),
         UNCHANGED <<workerVars, recorded>>, faults' \in Nat
  PROVE  IInv'
<1>0. /\ UNCHANGED <<wpc, wtask, wattempts, executions, recorded>>
      /\ AbandonBatch(s) /\ spc[s] # "poll"
  BY DEF SchedulerInterrupted, workerVars
<1>1. CASE UNCHANGED <<db, brokerVars>>
  BY <1>0, <1>1, SchedulerMovesOnInv DEF brokerVars
<1>2. CASE /\ spc[s] = "mark"
           /\ \E t \in batch[s] : /\ IsOldest(t, batch[s])
                                  /\ UpdateStatus(t, "SCHEDULED", 1, FALSE)
           /\ UNCHANGED brokerVars
  BY <1>0, <1>2, MarkInv DEF brokerVars
<1>3. CASE /\ spc[s] = "push"
           /\ LPush(ProviderOf(cur[s]), cur[s])
           /\ UNCHANGED <<db, subscribed, inbox>>
  BY <1>0, <1>3, PushInv
<1>4. CASE /\ spc[s] = "publish"
           /\ Publish("task_scheduled", cur[s])
           /\ UNCHANGED <<db, queue, subscribed>>
  BY <1>0, <1>4, SchedulerMovesOnInv
<1> QED
  BY <1>1, <1>2, <1>3, <1>4 DEF SchedulerInterrupted

\* The engine reads, records or loses messages; nobody else notices.
LEMMA EngineInv ==
  ASSUME IInv, EngineStep \/ EngineInterrupted,
         UNCHANGED <<db, schedulerVars, workerVars>>, faults' \in Nat
  PROVE  IInv'
<1> USE DEF IInv, PlaceInvariant
<1>1. UNCHANGED <<db, queue, spc, batch, cur, wpc, wtask, wattempts,
                  executions>>
  BY DEF EngineStep, EngineInterrupted, Subscribe, RecordEvent, schedulerVars,
         workerVars
<1>2. /\ inbox' \in Seq(Event)
      /\ \A i \in 1..Len(inbox') :
           \E j \in 1..Len(inbox) : inbox'[i] = inbox[j]
      /\ \A e \in recorded' : e \in recorded \/ (inbox # <<>> /\ e = Head(inbox))
      /\ subscribed' \in BOOLEAN
  <2>1. CASE UNCHANGED inbox /\ Subscribe
    BY <2>1 DEF Subscribe, StateOK
  <2>2. CASE inbox' = <<>> /\ UNCHANGED recorded /\ subscribed' = FALSE
    <3>1. <<>> \in Seq(Event) /\ Len(<<>>) = 0
      BY EmptySeq
    <3>2. Len(inbox') = 0 /\ inbox' \in Seq(Event)
      BY <2>2, <3>1
    <3>3. \A i \in 1..Len(inbox') : FALSE
      BY <3>2
    <3>4. \A e \in recorded' : e \in recorded
      BY <2>2
    <3>5. subscribed' \in BOOLEAN
      BY <2>2
    <3> QED
      BY <3>2, <3>3, <3>4, <3>5, Zenon
  <2>3. CASE /\ inbox # <<>> /\ inbox' = Tail(inbox)
             /\ UNCHANGED subscribed
             /\ \A e \in recorded' : e \in recorded \/ e = Head(inbox)
    BY <2>3, HeadTailProperties, LenProperties DEF StateOK
  <2> QED
    BY <2>1, <2>2, <2>3
       DEF EngineStep, EngineInterrupted, Subscribe, RecordEvent
<1>3. inbox # <<>> => Head(inbox) = inbox[1] /\ 1 \in 1..Len(inbox)
                      /\ Head(inbox) \in Event
  BY HeadTailProperties, LenProperties, EmptySeq DEF StateOK
<1>4. StateOK'
  BY <1>1, <1>2, <1>3 DEF StateOK
<1>5. EventsTrue'
  <2>1. \A j \in 1..Len(inbox) : EventTrue(inbox[j])
    BY DEF EventsTrue
  <2>2. ASSUME NEW i \in 1..Len(inbox') PROVE EventTrue(inbox[i])'
    BY <1>1, <1>2, <2>1 DEF EventTrue
  <2>3. ASSUME NEW e \in recorded' PROVE EventTrue(e)'
    BY <1>1, <1>2, <1>3, <2>1 DEF EventTrue, EventsTrue
  <2> QED
    BY <2>2, <2>3 DEF EventsTrue
<1>6. RowsOK' /\ SchedulersOK' /\ WorkersOK'
  BY <1>1 DEF RowsOK, RowOK, MayExecute, WithinBudget, SchedulersOK,
              SchedulerOK, WorkersOK, WorkerOK
<1>7. OneHolder' /\ NotHeldInDispatch' /\ EntriesOK'
  BY <1>1 DEF OneHolder, NotHeldInDispatch, EntriesOK, EntryOK
<1> QED
  BY <1>4, <1>5, <1>6, <1>7

\* A client inserts a row.
LEMMA SubmitInv ==
  ASSUME IInv, NEW t \in Tasks, NEW sub \in Submissions, Submit(t, sub)
  PROVE  IInv'
<1> USE DEF IInv, PlaceInvariant
<1>0. /\ UNCHANGED <<queue, subscribed, inbox, spc, batch, cur, wpc, wtask,
                     wattempts, executions, recorded, faults>>
      /\ Create(t, sub) /\ db[t].status = "absent"
  BY DEF Submit, Create, brokerVars, schedulerVars, workerVars
<1>1. Cardinality(Rows) \in Nat
  <2>1. Rows \subseteq Tasks
    BY DEF Rows
  <2>2. IsFiniteSet(Rows)
    BY <2>1, TasksAssumption, FS_Subset
  <2> QED
    BY <2>2, FS_CardinalityType
<1>2. /\ db' \in [Tasks -> Row]
      /\ db'[t].status = "PENDING"
      /\ \A u \in Tasks \ {t} : db'[u] = db[u]
  <2> DEFINE row == [status |-> "PENDING", attempts |-> 0, error |-> FALSE,
                     created |-> Cardinality(Rows), outcome |-> sub.outcome,
                     provider |-> sub.provider, max |-> sub.max]
  <2>1. sub.outcome \in Outcomes /\ sub.provider \in RowProviders
        /\ sub.max \in Nat
    BY SubmissionsAssumption DEF Submission
  <2>2. row \in Row /\ row.status = "PENDING"
    BY <1>1, <2>1 DEF Row, TaskStatus
  <2>3. db' = [db EXCEPT ![t] = row]
    BY <1>0 DEF Create
  <2> HIDE DEF row
  <2> QED
    BY <2>2, <2>3 DEF StateOK
<1>3. StateOK'
  BY <1>0, <1>2 DEF StateOK
<1>4. RowsOK'
  <2>1. RowOK(t) /\ executions[t] = 0
    BY <1>0 DEF RowsOK, RowOK
  <2>2. RowOK(t)'
    BY <1>0, <1>2, <2>1 DEF RowOK, WithinBudget
  <2>3. ASSUME NEW u \in Tasks \ {t} PROVE RowOK(u)'
    BY <1>0, <1>2 DEF RowsOK, RowOK, MayExecute, WithinBudget
  <2> QED
    BY <2>2, <2>3 DEF RowsOK
<1>5. SchedulersOK'
  <2> SUFFICES ASSUME NEW s \in Schedulers PROVE SchedulerOK(s)'
    BY DEF SchedulersOK
  <2>1. SchedulerOK(s) /\ batch[s] \subseteq Tasks
        /\ cur[s] \in Tasks \cup {NoTask}
    BY DEF SchedulersOK, StateOK
  <2>2. t \notin batch[s]
    BY <1>0, <2>1 DEF SchedulerOK
  <2>3. cur[s] # NoTask => cur[s] # t
    BY <1>0, <2>1 DEF SchedulerOK
  <2> QED
    BY <1>0, <1>2, <2>1, <2>2, <2>3 DEF SchedulerOK
<1>6. WorkersOK'
  <2> SUFFICES ASSUME NEW v \in Workers PROVE WorkerOK(v)'
    BY DEF WorkersOK
  <2>1. WorkerOK(v) /\ wtask[v] \in Tasks \cup {NoTask} /\ wtask[v] # t
    BY <1>0, HeldStarted DEF WorkersOK, StateOK
  <2>2. CASE wtask[v] = NoTask
    BY <1>0, <2>1, <2>2 DEF WorkerOK
  <2>3. CASE wtask[v] \in Tasks
    BY <1>0, <1>2, <2>1, <2>3 DEF WorkerOK, MayExecute
  <2> QED
    BY <2>1, <2>2, <2>3
<1>7. OneHolder' /\ NotHeldInDispatch'
  BY <1>0 DEF OneHolder, NotHeldInDispatch
<1>8. EntriesOK'
  <2> SUFFICES ASSUME NEW p \in Providers, NEW i \in 1..Len(queue[p])
               PROVE  EntryOK(p, i)'
    BY <1>0 DEF EntriesOK
  <2>1. EntryOK(p, i) /\ queue[p][i] \in Tasks
    BY ElementOfSeq DEF EntriesOK, StateOK
  <2>2. queue[p][i] # t
    BY <1>0, <2>1 DEF EntryOK
  <2> QED
    BY <1>0, <1>2, <2>1, <2>2 DEF EntryOK
<1>9. EventsTrue'
  <2>1. KeepsEvents
    BY <1>0, <1>2 DEF KeepsEvents
  <2> QED
    BY <1>0, <2>1, EventsStayTrue
<1> QED
  BY <1>3, <1>4, <1>5, <1>6, <1>7, <1>8, <1>9

\* The invariant holds with an empty table, empty lists and idle services.
LEMMA InitInv == Init => IInv
<1> SUFFICES ASSUME Init PROVE IInv
  OBVIOUS
<1>1. StateOK
  <2>1. NoRow \in Row
    BY ProvidersAssumption DEF NoRow, Row, Outcomes, RowProviders
  <2>2. <<>> \in Seq(Event) /\ <<>> \in Seq(Tasks)
    BY EmptySeq
  <2>3. db \in [Tasks -> Row] /\ queue \in [Providers -> Seq(Tasks)]
        /\ inbox \in Seq(Event)
    BY <2>1, <2>2 DEF Init
  <2>4. /\ spc \in [Schedulers -> SchedulerPc]
        /\ batch \in [Schedulers -> SUBSET Tasks]
        /\ cur \in [Schedulers -> Tasks \cup {NoTask}]
    BY DEF Init, SchedulerPc
  <2>5. /\ wpc \in [Workers -> WorkerPc]
        /\ wtask \in [Workers -> Tasks \cup {NoTask}]
        /\ wattempts \in [Workers -> Nat]
        /\ executions \in [Tasks -> Nat]
    BY DEF Init, WorkerPc
  <2>6. subscribed \in BOOLEAN /\ recorded \subseteq Event /\ faults \in Nat
    BY DEF Init
  <2> QED
    BY <2>3, <2>4, <2>5, <2>6 DEF StateOK
<1>2. RowsOK
  <2> SUFFICES ASSUME NEW t \in Tasks PROVE RowOK(t)
    BY DEF RowsOK
  <2>1. db[t] = NoRow /\ executions[t] = 0
    BY DEF Init
  <2>2. NoRow.status = "absent"
    BY DEF NoRow
  <2>3. db[t].status = "absent"
    BY <2>1, <2>2
  <2> QED
    BY <2>1, <2>3 DEF RowOK, WithinBudget
<1>3. SchedulersOK /\ WorkersOK
  BY DEF Init, SchedulersOK, SchedulerOK, WorkersOK, WorkerOK
<1>4. OneHolder /\ NotHeldInDispatch /\ EntriesOK /\ EventsTrue
  BY DEF Init, OneHolder, NotHeldInDispatch, EntriesOK, EventsTrue
<1> QED
  BY <1>1, <1>2, <1>3, <1>4 DEF IInv, PlaceInvariant

\* No step changes the database the services run against.
LEMMA DeploymentIsFixed == [Next]_vars => deployment' = deployment
BY DEF Next, Submit, RunScheduler, RunWorker, RunEngine, Fault, vars

\* Every step of the pipeline, faults included, preserves the invariant.
LEMMA NextInv == IInv /\ [Next]_vars => IInv'
<1> SUFFICES ASSUME IInv, [Next]_vars PROVE IInv'
  OBVIOUS
<1>1. ASSUME NEW t \in Tasks, NEW sub \in Submissions, Submit(t, sub)
      PROVE  IInv'
  BY <1>1, SubmitInv
<1>2. ASSUME NEW s \in Schedulers, RunScheduler(s) PROVE IInv'
  BY <1>2, SchedulerStepInv
<1>3. ASSUME NEW w \in Workers, RunWorker(w) PROVE IInv'
  BY <1>3, WorkerStepInv
<1>4. CASE RunEngine
  <2>1. faults' \in Nat
    BY <1>4 DEF RunEngine, IInv, StateOK
  <2> QED
    BY <1>4, <2>1, EngineInv DEF RunEngine
<1>5. CASE Fault
  <2>1. faults' \in Nat
    BY <1>5 DEF Fault, IInv, StateOK
  <2> QED
    BY <1>5, <2>1, SchedulerInterruptedInv, WorkerInterruptedInv, EngineInv
       DEF Fault
<1>6. CASE UNCHANGED vars
  BY <1>6 DEF vars, brokerVars, schedulerVars, workerVars, IInv, StateOK,
              PlaceInvariant, RowsOK, RowOK, MayExecute, WithinBudget,
              SchedulersOK, SchedulerOK, WorkersOK, WorkerOK, OneHolder,
              NotHeldInDispatch, EntriesOK, EntryOK, EventsTrue, EventTrue
<1> QED
  BY <1>1, <1>2, <1>3, <1>4, <1>5, <1>6 DEF Next

\* Type correctness and the place invariant hold in every reachable state, for
\* any number of tasks, workers and faults, with one scheduler.
THEOREM PipelineInvariant == Spec => [](TypeOK /\ PlaceInvariant)
<1>1. IInv /\ deployment \in Deployments => TypeOK /\ PlaceInvariant
  BY DEF IInv, TypeOK
<1>2. Init => deployment \in Deployments
  BY DEF Init
<1>3. deployment \in Deployments /\ [Next]_vars => (deployment \in Deployments)'
  BY DeploymentIsFixed
<1> QED
  BY <1>1, <1>2, <1>3, InitInv, NextInv, PTL DEF Spec

-----------------------------------------------------------------------------
(* What the invariant gives: the safety properties of TaskPipeline, and the *)
(* refinement of TaskLifecycle.                                             *)

\* The scheduler, the lists and the workers never have two copies of a task,
\* although get_pending locks no row and update_status checks no status.
THEOREM NeverTwoCopies == Spec => []OneCopy
<1>1. IInv => OneCopy
  <2> SUFFICES ASSUME IInv, NEW t \in Tasks
               PROVE  /\ \A w, v \in Workers :
                           wtask[w] = t /\ wtask[v] = t => w = v
                      /\ \A p, q \in Providers :
                           \A i \in 1..Len(queue[p]), j \in 1..Len(queue[q]) :
                             queue[p][i] = t /\ queue[q][j] = t
                               => p = q /\ i = j
                      /\ Queued(t) => ~Held(t) /\ ~Dispatching(t)
                      /\ Held(t) => ~Dispatching(t)
    BY DEF OneCopy
  <2>1. \A w, v \in Workers : wtask[w] = t /\ wtask[v] = t => w = v
    BY TasksAssumption DEF IInv, PlaceInvariant, OneHolder
  <2>2. \A p, q \in Providers :
          \A i \in 1..Len(queue[p]), j \in 1..Len(queue[q]) :
            queue[p][i] = t /\ queue[q][j] = t => p = q /\ i = j
    BY DEF IInv, PlaceInvariant, EntriesOK, EntryOK
  <2>3. Queued(t) => ~Held(t) /\ ~Dispatching(t)
    BY DEF IInv, PlaceInvariant, EntriesOK, EntryOK, Queued, InQueue, Held,
           Dispatching
  <2>4. Held(t) => ~Dispatching(t)
    BY DEF IInv, PlaceInvariant, NotHeldInDispatch, Held, Dispatching
  <2> QED
    BY <2>1, <2>2, <2>3, <2>4
<1> QED
  BY <1>1, InitInv, NextInv, PTL DEF Spec

\* consume executes a task at most max_attempts - 1 times (once when
\* max_attempts is below 3), and the row of a failed task counts one attempt
\* more than it had executions: one execution fewer than the tests expect.
THEOREM RetriesFallOneShort == Spec => []OneAttemptShort
<1>1. IInv => OneAttemptShort
  <2> SUFFICES ASSUME IInv, NEW t \in Tasks
               PROVE  /\ executions[t]
                           <= (IF db[t].max <= 2 THEN 1 ELSE db[t].max - 1)
                      /\ db[t].status = "FAILED"
                           => db[t].attempts = executions[t] + 1
    BY DEF OneAttemptShort
  <2>1. RowOK(t)
    BY DEF IInv, PlaceInvariant, RowsOK
  <2>2. executions[t] \in Nat /\ db[t].max \in Nat
    BY DEF IInv, StateOK, Row
  <2> QED
    BY <2>1, <2>2 DEF RowOK, WithinBudget
<1> QED
  BY <1>1, InitInv, NextInv, PTL DEF Spec

\* consume executes a task at most max_attempts times, and once when that is 0.
THEOREM RetriesAreBounded == Spec => []BoundedExecutions
<1>1. IInv => BoundedExecutions
  <2> SUFFICES ASSUME IInv, NEW t \in Tasks
               PROVE  executions[t] <= (IF db[t].max = 0 THEN 1 ELSE db[t].max)
    BY DEF BoundedExecutions
  <2>1. RowOK(t)
    BY DEF IInv, PlaceInvariant, RowsOK
  <2>2. executions[t] \in Nat /\ db[t].max \in Nat
    BY DEF IInv, StateOK, Row
  <2> QED
    BY <2>1, <2>2 DEF RowOK, WithinBudget
<1> QED
  BY <1>1, InitInv, NextInv, PTL DEF Spec

\* However late the workflow engine inserts an event, the row it names still
\* is in the state the event reports.
THEOREM EventTableIsTrue == Spec => []RecordedEventsTrue
<1>1. IInv => RecordedEventsTrue
  BY DEF IInv, PlaceInvariant, EventsTrue, EventTrue, RecordedEventsTrue
<1> QED
  BY <1>1, InitInv, NextInv, PTL DEF Spec

-----------------------------------------------------------------------------
(* The writes to the table. Every UPDATE the services issue is one of five  *)
(* moves of the life cycle, although update_status itself checks nothing.   *)

\* The statuses and attempts an UPDATE of row t may find and leave.
LegalWrite(t, st, n) ==
  \/ db[t].status = "PENDING" /\ st = "SCHEDULED" /\ n = 1
  \/ /\ db[t].status \in {"SCHEDULED", "RETRYING"}
     /\ st = "RUNNING" /\ n = db[t].attempts
  \/ db[t].status = "RUNNING" /\ st = "COMPLETED" /\ n = 0
  \/ /\ db[t].status = "RUNNING" /\ st = "RETRYING"
     /\ n = db[t].attempts + 1 /\ n < db[t].max
  \/ /\ db[t].status = "RUNNING" /\ st = "FAILED"
     /\ n = db[t].attempts + 1 /\ n >= db[t].max

\* A step leaves the table alone, inserts a row, or makes one legal write.
TableStep ==
  \/ UNCHANGED db
  \/ \E t \in Tasks, sub \in Submissions : Create(t, sub)
  \/ \E t \in Tasks, st \in TaskStatus, n \in Nat, e \in BOOLEAN :
       UpdateStatus(t, st, n, e) /\ LegalWrite(t, st, n)

\* What the scheduler writes: its list holds only rows that are still PENDING.
LEMMA SchedulerWrites ==
  ASSUME IInv, NEW s \in Schedulers,
         RunScheduler(s) \/ SchedulerInterrupted(s)
  PROVE  TableStep
<1>1. CASE UNCHANGED db
  BY <1>1 DEF TableStep
<1>2. ASSUME NEW t \in batch[s], UpdateStatus(t, "SCHEDULED", 1, FALSE)
      PROVE  TableStep
  <2>1. t \in Tasks
    BY DEF IInv, StateOK
  <2>2. db[t].status = "PENDING"
    BY DEF IInv, PlaceInvariant, SchedulersOK, SchedulerOK
  <2>3. LegalWrite(t, "SCHEDULED", 1)
    BY <2>2 DEF LegalWrite
  <2>4. "SCHEDULED" \in TaskStatus /\ 1 \in Nat /\ FALSE \in BOOLEAN
    BY DEF TaskStatus
  <2> QED
    BY <1>2, <2>1, <2>3, <2>4 DEF TableStep
<1> QED
  BY <1>1, <1>2 DEF RunScheduler, SchedulerStep, SchedulerInterrupted, Fetch,
                    Mark, Push, PublishScheduled

\* What a worker writes: at every call it knows the status of the task it has.
LEMMA WorkerWrites ==
  ASSUME IInv, NEW w \in Workers, RunWorker(w) \/ WorkerInterrupted(w)
  PROVE  TableStep
<1>1. CASE UNCHANGED db
  BY <1>1 DEF TableStep
<1>2. ASSUME wpc[w] # "blpop", NEW st \in TaskStatus, NEW n, NEW e \in BOOLEAN,
             UpdateStatus(wtask[w], st, n, e),
             \/ wpc[w] = "running" /\ st = "RUNNING"
                                   /\ n = db[wtask[w]].attempts
             \/ wpc[w] = "retrying" /\ st = "RETRYING" /\ n = wattempts[w]
             \/ wpc[w] = "failed" /\ st = "FAILED" /\ n = wattempts[w]
             \/ wpc[w] = "completed" /\ st = "COMPLETED" /\ n = 0
      PROVE  TableStep
  <2>1. WorkerOK(w)
    BY DEF IInv, PlaceInvariant, WorkersOK
  <2>2. PICK t \in Tasks : t = wtask[w]
    BY <1>2, <2>1 DEF WorkerOK, IInv, StateOK
  <2>3. db[t].attempts \in Nat /\ db[t].max \in Nat /\ executions[t] \in Nat
        /\ wattempts[w] \in Nat
    BY DEF IInv, StateOK, Row
  <2>4. n \in Nat
    BY <1>2, <2>2, <2>3
  <2>5. LegalWrite(t, st, n)
    BY <1>2, <2>1, <2>2, <2>3 DEF LegalWrite, WorkerOK
  <2> QED
    BY <1>2, <2>2, <2>4, <2>5 DEF TableStep
<1>3. {"RUNNING", "RETRYING", "FAILED", "COMPLETED"} \subseteq TaskStatus
  BY DEF TaskStatus
<1>4. CASE RunWorker(w)
  BY <1>1, <1>2, <1>3, <1>4
     DEF RunWorker, WorkerStep, Pop, MarkRunning, Execute, GetAttempts,
         MarkRetrying, Requeue, MarkFailed, ErrorUpdateRejected,
         MarkCompleted, PublishOutcome
<1>5. CASE WorkerInterrupted(w)
  BY <1>1, <1>2, <1>3, <1>5 DEF WorkerInterrupted
<1> QED
  BY <1>4, <1>5

\* Every step of the pipeline is a step of the table.
LEMMA NextIsTableStep == IInv /\ [Next]_vars => TableStep
<1> SUFFICES ASSUME IInv, [Next]_vars PROVE TableStep
  OBVIOUS
<1>1. ASSUME NEW t \in Tasks, NEW sub \in Submissions, Submit(t, sub)
      PROVE  TableStep
  BY <1>1 DEF Submit, TableStep
<1>2. ASSUME NEW s \in Schedulers, RunScheduler(s) PROVE TableStep
  BY <1>2, SchedulerWrites
<1>3. ASSUME NEW w \in Workers, RunWorker(w) PROVE TableStep
  BY <1>3, WorkerWrites
<1>4. CASE RunEngine
  BY <1>4 DEF RunEngine, TableStep
<1>5. CASE Fault
  <2>1. \/ \E s \in Schedulers : SchedulerInterrupted(s)
        \/ \E w \in Workers : WorkerInterrupted(w)
        \/ UNCHANGED db
    BY <1>5 DEF Fault
  <2> QED
    BY <2>1, SchedulerWrites, WorkerWrites DEF TableStep
<1>6. CASE UNCHANGED vars
  BY <1>6 DEF vars, TableStep
<1> QED
  BY <1>1, <1>2, <1>3, <1>4, <1>5, <1>6 DEF Next

\* No late write of the scheduler or of a worker touches a finished row.
THEOREM FinishedRowsAreKept == Spec => TerminalIsFinal
<1>1. IInv /\ [Next]_vars
        => \A t \in Tasks : db[t].status \in Terminal => db'[t] = db[t]
  <2> SUFFICES ASSUME IInv, TableStep, NEW t \in Tasks,
                      db[t].status \in Terminal
               PROVE  db'[t] = db[t]
    BY NextIsTableStep
  <2>1. db \in [Tasks -> Row]
    BY DEF IInv, StateOK
  <2>2. ASSUME NEW u \in Tasks, NEW sub \in Submissions, Create(u, sub)
        PROVE  db'[t] = db[t]
    <3>1. u # t
      BY <2>2 DEF Create, Terminal
    <3> QED
      BY <2>1, <2>2, <3>1 DEF Create
  <2>3. ASSUME NEW u \in Tasks, NEW st \in TaskStatus, NEW n \in Nat,
               NEW e \in BOOLEAN, UpdateStatus(u, st, n, e),
               LegalWrite(u, st, n)
        PROVE  db'[t] = db[t]
    <3>1. u # t
      BY <2>3 DEF LegalWrite, Terminal
    <3> QED
      BY <2>1, <2>3, <3>1, UpdateStatusEffect
  <2> QED
    BY <2>2, <2>3 DEF TableStep
<1> QED
  BY <1>1, InitInv, NextInv, PTL DEF Spec, TerminalIsFinal
-----------------------------------------------------------------------------
(* The pipeline implements TaskLifecycle.                                   *)

\* An empty table is the initial state of the life cycle.
LEMMA InitRefines == Init => Lifecycle!Init
<1>1. NoRow.status = "absent" /\ NoRow.attempts = 0 /\ NoRow.max = 0
  BY DEF NoRow
<1> SUFFICES ASSUME Init PROVE Lifecycle!Init
  OBVIOUS
<1>2. \A t \in Tasks : db[t] = NoRow
  BY DEF Init
<1> QED
  BY <1>1, <1>2 DEF Lifecycle!Init

\* A legal UPDATE is one of the moves of the life cycle.
LEMMA WriteRefines ==
  ASSUME IInv, NEW t \in Tasks, NEW st \in TaskStatus, NEW n \in Nat,
         NEW e \in BOOLEAN, UpdateStatus(t, st, n, e), LegalWrite(t, st, n)
  PROVE  Lifecycle!Next
<1>1. db \in [Tasks -> Row] /\ db' \in [Tasks -> Row]
      /\ db'[t].status = st /\ db'[t].attempts = n /\ db'[t].max = db[t].max
      /\ \A u \in Tasks \ {t} : db'[u] = db[u]
  BY UpdateStatusEffect DEF IInv, StateOK
<1>2. [u \in Tasks |-> db'[u].status]
        = [[u \in Tasks |-> db[u].status] EXCEPT ![t] = st]
  BY <1>1
<1>3. [u \in Tasks |-> db'[u].attempts]
        = [[u \in Tasks |-> db[u].attempts] EXCEPT ![t] = n]
  BY <1>1
<1>4. [u \in Tasks |-> db'[u].max] = [u \in Tasks |-> db[u].max]
  BY <1>1
<1>5. db[t].attempts \in Nat /\ db[t].max \in Nat
  BY <1>1 DEF Row
<1>6. \/ Lifecycle!Schedule(t) \/ Lifecycle!Start(t) \/ Lifecycle!Complete(t)
      \/ Lifecycle!Retry(t) \/ Lifecycle!Fail(t)
  BY <1>2, <1>3, <1>5 DEF LegalWrite, Lifecycle!Schedule, Lifecycle!Start,
     Lifecycle!Complete, Lifecycle!Retry, Lifecycle!Fail, Lifecycle!Move
<1> QED
  BY <1>4, <1>6 DEF Lifecycle!Next

\* An INSERT submits the task to the life cycle.
LEMMA CreateRefines ==
  ASSUME IInv, NEW t \in Tasks, NEW sub \in Submissions, Create(t, sub)
  PROVE  Lifecycle!Next
<1> DEFINE row == [status |-> "PENDING", attempts |-> 0, error |-> FALSE,
                   created |-> Cardinality(Rows), outcome |-> sub.outcome,
                   provider |-> sub.provider, max |-> sub.max]
<1>1. row.status = "PENDING" /\ row.attempts = 0 /\ row.max = sub.max
  OBVIOUS
<1>2. db' = [db EXCEPT ![t] = row] /\ db[t].status = "absent"
  BY DEF Create
<1> HIDE DEF row
<1>3. db \in [Tasks -> Row]
  BY DEF IInv, StateOK
<1>4. [u \in Tasks |-> db'[u].status]
        = [[u \in Tasks |-> db[u].status] EXCEPT ![t] = "PENDING"]
  BY <1>1, <1>2, <1>3
<1>5. [u \in Tasks |-> db'[u].attempts]
        = [[u \in Tasks |-> db[u].attempts] EXCEPT ![t] = 0]
  BY <1>1, <1>2, <1>3
<1>6. [u \in Tasks |-> db'[u].max]
        = [[u \in Tasks |-> db[u].max] EXCEPT ![t] = sub.max]
  BY <1>1, <1>2, <1>3
<1>7. Lifecycle!Submit(t, sub.max)
  BY <1>2, <1>4, <1>5, <1>6 DEF Lifecycle!Submit, Lifecycle!Move
<1> QED
  BY <1>7 DEF Lifecycle!Next

\* An observer of the `tasks` table sees the life cycle of TaskLifecycle and
\* nothing else, whatever the services do and whichever of their calls fail.
THEOREM PipelineImplementsLifecycle == Spec => ImplementsLifecycle
<1>1. IInv /\ [Next]_vars => [Lifecycle!Next]_(Lifecycle!lifecycleVars)
  <2> SUFFICES ASSUME IInv, TableStep
               PROVE  [Lifecycle!Next]_(Lifecycle!lifecycleVars)
    BY NextIsTableStep
  <2>1. CASE UNCHANGED db
    BY <2>1 DEF Lifecycle!lifecycleVars
  <2> QED
    BY <2>1, CreateRefines, WriteRefines DEF TableStep
<1> QED
  BY <1>1, InitInv, NextInv, InitRefines, PTL
     DEF Spec, ImplementsLifecycle, Lifecycle!Spec

-----------------------------------------------------------------------------
(* What the services write about failures.                                  *)

\* A step in which the rows and the executions stay as they are, and only
\* worker w moves.
LEMMA OutcomeMoves ==
  ASSUME ErrorColumn' = ErrorColumn,
         OutcomeInvariant, NEW w \in Workers, UNCHANGED <<db, executions>>,
         \A v \in Workers \ {w} : wpc'[v] = wpc[v] /\ wtask'[v] = wtask[v],
         OutcomeOK(w)'
  PROVE  OutcomeInvariant'
<1>1. ASSUME NEW v \in Workers PROVE OutcomeOK(v)'
  <2>1. CASE v = w
    BY <2>1
  <2>2. CASE v # w
    BY <2>2 DEF OutcomeInvariant, OutcomesOK, OutcomeOK, Unrecordable
  <2> QED
    BY <2>1, <2>2
<1>2. FailingRowsOK'
  BY DEF OutcomeInvariant, FailingRowsOK, FailingRowOK, Unrecordable
<1> QED
  BY <1>1, <1>2 DEF OutcomeInvariant, OutcomesOK

\* A step in which worker w acts on the row or the executions of the task t it
\* has: no other worker has t.
LEMMA OutcomeActs ==
  ASSUME ErrorColumn' = ErrorColumn,
         IInv, OutcomeInvariant, NEW w \in Workers, NEW t \in Tasks,
         wtask[w] = t,
         \A u \in Tasks \ {t} : db'[u] = db[u] /\ executions'[u] = executions[u],
         \A v \in Workers \ {w} : wpc'[v] = wpc[v] /\ wtask'[v] = wtask[v],
         OutcomeOK(w)', FailingRowOK(t)'
  PROVE  OutcomeInvariant'
<1>1. ASSUME NEW v \in Workers PROVE OutcomeOK(v)'
  <2>1. CASE v = w
    BY <2>1
  <2>2. CASE v # w
    <3>1. /\ OutcomeOK(v) /\ wtask[v] # t
          /\ wtask[v] \in Tasks \cup {NoTask}
          /\ wpc[v] = "blpop" <=> wtask[v] = NoTask
      BY <2>2, TasksAssumption DEF OutcomeInvariant, OutcomesOK, IInv,
         PlaceInvariant, OneHolder, StateOK, WorkersOK, WorkerOK
    <3>2. CASE wtask[v] = NoTask
      BY <2>2, <3>1, <3>2 DEF OutcomeOK
    <3>3. CASE wtask[v] \in Tasks
      BY <2>2, <3>1, <3>3 DEF OutcomeOK, Unrecordable
    <3> QED
      BY <3>1, <3>2, <3>3
  <2> QED
    BY <2>1, <2>2
<1>2. ASSUME NEW u \in Tasks PROVE FailingRowOK(u)'
  <2>1. CASE u = t
    BY <2>1
  <2>2. CASE u # t
    BY <2>2 DEF OutcomeInvariant, FailingRowsOK, FailingRowOK, Unrecordable
  <2> QED
    BY <2>1, <2>2
<1> QED
  BY <1>1, <1>2 DEF OutcomeInvariant, OutcomesOK, FailingRowsOK

\* A step in which worker w writes the row of the task it has.
LEMMA OutcomeWrites ==
  ASSUME ErrorColumn' = ErrorColumn,
         IInv, OutcomeInvariant, NEW w \in Workers, wpc[w] # "blpop",
         NEW st \in {"RUNNING", "RETRYING", "FAILED", "COMPLETED"},
         NEW n \in Nat, NEW e \in BOOLEAN, UpdateStatus(wtask[w], st, n, e),
         st \in {"RETRYING", "FAILED"} => e,
         st = "COMPLETED" => wpc[w] = "completed",
         UNCHANGED executions,
         \A v \in Workers \ {w} : wpc'[v] = wpc[v] /\ wtask'[v] = wtask[v],
         \/ wpc'[w] = "blpop"
         \/ /\ wtask'[w] = wtask[w]
            /\ \/ wpc[w] = "running" /\ wpc'[w] = "execute"
               \/ wpc[w] = "retrying" /\ wpc'[w] = "requeue"
               \/ wpc[w] = "failed" /\ wpc'[w] = "publish_failed"
               \/ wpc[w] = "completed" /\ wpc'[w] = "publish_completed"
  PROVE  OutcomeInvariant'
<1>1. PICK t \in Tasks : t = wtask[w]
  BY DEF IInv, PlaceInvariant, WorkersOK, WorkerOK, StateOK
<1>2. /\ e => ErrorColumn
      /\ db'[t].status = st
      /\ db'[t].outcome = db[t].outcome
      /\ \A u \in Tasks \ {t} : db'[u] = db[u]
  BY <1>1, UpdateStatusEffect DEF IInv, StateOK, TaskStatus
<1>3. OutcomeOK(w) /\ FailingRowOK(t) /\ RowOK(t) /\ WorkerOK(w)
      /\ executions[t] \in Nat
  BY <1>1 DEF OutcomeInvariant, OutcomesOK, FailingRowsOK, IInv,
              PlaceInvariant, RowsOK, WorkersOK, StateOK
<1>4. Unrecordable(t)' = Unrecordable(t)
  BY <1>2 DEF Unrecordable
<1>5. FailingRowOK(t)'
  <2> SUFFICES ASSUME Unrecordable(t) PROVE st = "RUNNING"
    BY <1>2, <1>3, <1>4 DEF FailingRowOK, Terminal
  <2>1. ~ErrorColumn /\ db[t].outcome = "error"
    BY DEF Unrecordable
  <2> QED
    BY <1>1, <1>2, <1>3, <2>1 DEF OutcomeOK
<1>6. OutcomeOK(w)'
  <2>1. CASE wpc'[w] = "blpop"
    BY <2>1 DEF OutcomeOK
  <2>2. CASE wpc[w] = "running" /\ wpc'[w] = "execute" /\ wtask'[w] = wtask[w]
    <3>1. Unrecordable(t) => executions[t] = 0
      BY <1>1, <1>3, <2>2 DEF FailingRowOK, WorkerOK
    <3> QED
      BY <1>1, <1>4, <2>2, <3>1 DEF OutcomeOK
  <2>3. CASE /\ wpc[w] \in {"retrying", "failed", "completed"}
             /\ wpc'[w] = (IF wpc[w] = "retrying" THEN "requeue"
                           ELSE IF wpc[w] = "failed" THEN "publish_failed"
                           ELSE "publish_completed")
             /\ wtask'[w] = wtask[w]
    BY <1>1, <1>2, <1>3, <2>3 DEF OutcomeOK
  <2> QED
    BY <2>1, <2>2, <2>3
<1> QED
  BY <1>1, <1>2, <1>5, <1>6, OutcomeActs

\* One execution: nobody but its holder has t, and a task whose failure no row
\* can hold was not executed before.
LEMMA OutcomeExecutes ==
  ASSUME ErrorColumn' = ErrorColumn,
         IInv, OutcomeInvariant, NEW w \in Workers, wpc[w] = "execute",
         executions' = [executions EXCEPT ![wtask[w]] = @ + 1],
         UNCHANGED db,
         \A v \in Workers \ {w} : wpc'[v] = wpc[v] /\ wtask'[v] = wtask[v],
         \/ wpc'[w] = "blpop"
         \/ /\ wtask'[w] = wtask[w]
            /\ \/ wpc'[w] = "completed" /\ db[wtask[w]].outcome = "ok"
               \/ wpc'[w] = "get" /\ db[wtask[w]].outcome = "error"
  PROVE  OutcomeInvariant'
<1>1. PICK t \in Tasks : t = wtask[w] /\ db[t].status = "RUNNING"
  BY DEF IInv, PlaceInvariant, WorkersOK, WorkerOK, StateOK
<1>2. /\ executions'[t] = executions[t] + 1
      /\ \A u \in Tasks \ {t} : executions'[u] = executions[u]
      /\ executions[t] \in Nat
  BY <1>1 DEF IInv, StateOK
<1>3. Unrecordable(t) => executions[t] = 0
  BY <1>1 DEF OutcomeInvariant, OutcomesOK, OutcomeOK
<1>4. FailingRowOK(t)'
  BY <1>1, <1>2, <1>3 DEF FailingRowOK, Unrecordable, Terminal
<1>5. OutcomeOK(w)'
  BY <1>1 DEF OutcomeOK
<1> QED
  BY <1>1, <1>2, <1>4, <1>5, OutcomeActs

\* One iteration of consume.
LEMMA WorkerStepOutcome ==
  ASSUME ErrorColumn' = ErrorColumn,
         IInv, OutcomeInvariant, NEW w \in Workers, RunWorker(w)
  PROVE  OutcomeInvariant'
<1>1. WorkerOK(w) /\ OutcomeOK(w) /\ wattempts[w] \in Nat
  BY DEF IInv, PlaceInvariant, WorkersOK, StateOK, OutcomeInvariant, OutcomesOK
<1>2. wpc \in [Workers -> WorkerPc]
      /\ wtask \in [Workers -> Tasks \cup {NoTask}]
  BY DEF IInv, StateOK
<1>3. ASSUME DropTask(w)
      PROVE  /\ wpc'[w] = "blpop" /\ OutcomeOK(w)'
             /\ \A v \in Workers \ {w} : wpc'[v] = wpc[v] /\ wtask'[v] = wtask[v]
  BY <1>2, <1>3 DEF DropTask, Goto, OutcomeOK
<1>4. ASSUME NEW pc, Goto(w, pc), UNCHANGED wtask
      PROVE  /\ wpc'[w] = pc /\ wtask'[w] = wtask[w]
             /\ \A v \in Workers \ {w} : wpc'[v] = wpc[v] /\ wtask'[v] = wtask[v]
  BY <1>2, <1>4 DEF Goto
<1>5. CASE Pop(w)
  <2>1. /\ wpc'[w] = "running"
        /\ \A v \in Workers \ {w} : wpc'[v] = wpc[v] /\ wtask'[v] = wtask[v]
        /\ UNCHANGED <<db, executions>>
    BY <1>2, <1>5 DEF Pop, Goto
  <2>2. OutcomeOK(w)'
    BY <2>1 DEF OutcomeOK
  <2> QED
    BY <2>1, <2>2, OutcomeMoves
<1>6. CASE MarkRunning(w)
  <2>1. db[wtask[w]].attempts \in Nat
    BY <1>1, <1>6 DEF MarkRunning, WorkerOK, IInv, StateOK, Row
  <2> QED
    BY <1>4, <1>6, <2>1, OutcomeWrites DEF MarkRunning
<1>7. CASE Execute(w)
  <2>1. CASE DropTask(w)
    BY <1>3, <1>7, <2>1, OutcomeExecutes DEF Execute
  <2>2. CASE db[wtask[w]].outcome = "ok" /\ Goto(w, "completed")
             /\ UNCHANGED wtask
    BY <1>4, <1>7, <2>2, OutcomeExecutes DEF Execute
  <2>3. CASE db[wtask[w]].outcome = "error" /\ Goto(w, "get")
             /\ UNCHANGED wtask
    BY <1>4, <1>7, <2>3, OutcomeExecutes DEF Execute
  <2> QED
    BY <1>7, <2>1, <2>2, <2>3 DEF Execute
<1>8. CASE GetAttempts(w)
  <2>1. PICK pc \in {"retrying", "failed"} : Goto(w, pc)
    BY <1>8 DEF GetAttempts
  <2>2. wpc'[w] = pc /\ wtask'[w] = wtask[w] /\ UNCHANGED <<db, executions>>
        /\ wpc[w] = "get"
    BY <1>4, <1>8, <2>1 DEF GetAttempts
  <2>3. OutcomeOK(w)'
    BY <1>1, <2>2 DEF OutcomeOK
  <2> QED
    BY <1>4, <1>8, <2>1, <2>2, <2>3, OutcomeMoves DEF GetAttempts
<1>9. CASE MarkRetrying(w)
  BY <1>1, <1>4, <1>9, OutcomeWrites DEF MarkRetrying
<1>10. CASE Requeue(w)
  BY <1>3, <1>10, OutcomeMoves DEF Requeue
<1>11. CASE MarkFailed(w)
  BY <1>1, <1>4, <1>11, OutcomeWrites DEF MarkFailed
<1>12. CASE ErrorUpdateRejected(w)
  BY <1>3, <1>12, OutcomeMoves DEF ErrorUpdateRejected
<1>13. CASE MarkCompleted(w)
  BY <1>1, <1>4, <1>13, OutcomeWrites DEF MarkCompleted
<1>14. CASE PublishOutcome(w)
  BY <1>3, <1>14, OutcomeMoves DEF PublishOutcome
<1> QED
  BY <1>5, <1>6, <1>7, <1>8, <1>9, <1>10, <1>11, <1>12, <1>13, <1>14
     DEF RunWorker, WorkerStep

\* A call of consume that fails, or in which the worker dies.
LEMMA WorkerInterruptedOutcome ==
  ASSUME ErrorColumn' = ErrorColumn,
         IInv, OutcomeInvariant, NEW w \in Workers, WorkerInterrupted(w)
  PROVE  OutcomeInvariant'
<1>1. WorkerOK(w) /\ wattempts[w] \in Nat /\ wpc \in [Workers -> WorkerPc]
      /\ wtask \in [Workers -> Tasks \cup {NoTask}]
  BY DEF IInv, PlaceInvariant, WorkersOK, StateOK
<1>2. /\ wpc'[w] = "blpop" /\ OutcomeOK(w)'
      /\ \A v \in Workers \ {w} : wpc'[v] = wpc[v] /\ wtask'[v] = wtask[v]
  BY <1>1 DEF WorkerInterrupted, DropTask, Goto, OutcomeOK
<1>3. CASE UNCHANGED <<executions, db>>
  BY <1>2, <1>3, OutcomeMoves
<1>4. CASE /\ wpc[w] = "running"
           /\ UpdateStatus(wtask[w], "RUNNING", db[wtask[w]].attempts, FALSE)
           /\ UNCHANGED executions
  <2>1. db[wtask[w]].attempts \in Nat
    BY <1>1, <1>4 DEF WorkerOK, IInv, StateOK, Row
  <2> QED
    BY <1>2, <1>4, <2>1, OutcomeWrites
<1>5. CASE /\ wpc[w] = "execute"
           /\ executions' = [executions EXCEPT ![wtask[w]] = @ + 1]
           /\ UNCHANGED db
  BY <1>2, <1>5, OutcomeExecutes
<1>6. CASE /\ wpc[w] \in {"retrying", "failed"}
           /\ UpdateStatus(wtask[w],
                           IF wpc[w] = "failed" THEN "FAILED" ELSE "RETRYING",
                           wattempts[w], TRUE)
           /\ UNCHANGED executions
  <2>1. CASE wpc[w] = "failed"
    BY <1>1, <1>2, <1>6, <2>1, OutcomeWrites
  <2>2. CASE wpc[w] = "retrying"
    BY <1>1, <1>2, <1>6, <2>2, OutcomeWrites
  <2> QED
    BY <1>6, <2>1, <2>2
<1>7. CASE /\ wpc[w] = "completed"
           /\ UpdateStatus(wtask[w], "COMPLETED", 0, FALSE)
           /\ UNCHANGED executions
  BY <1>2, <1>7, OutcomeWrites
<1> QED
  BY <1>3, <1>4, <1>5, <1>6, <1>7 DEF WorkerInterrupted

\* A step of a client or of the scheduler changes the row of one task nobody
\* has executed, and leaves it in a status of before the first execution.
LEMMA RowStarts ==
  ASSUME ErrorColumn' = ErrorColumn,
         IInv, OutcomeInvariant, NEW t \in Tasks,
         db[t].status \in {"absent", "PENDING"},
         db'[t].status \in {"PENDING", "SCHEDULED"},
         \A u \in Tasks \ {t} : db'[u] = db[u],
         UNCHANGED <<wpc, wtask, executions>>
  PROVE  OutcomeInvariant'
<1>1. ASSUME NEW v \in Workers PROVE OutcomeOK(v)'
  <2>1. /\ OutcomeOK(v) /\ wtask[v] # t
        /\ wtask[v] \in Tasks \cup {NoTask}
        /\ wpc[v] = "blpop" <=> wtask[v] = NoTask
    BY HeldStarted DEF OutcomeInvariant, OutcomesOK, IInv,
       PlaceInvariant, StateOK, WorkersOK, WorkerOK
  <2>2. CASE wtask[v] = NoTask
    BY <2>1, <2>2 DEF OutcomeOK
  <2>3. CASE wtask[v] \in Tasks
    BY <2>1, <2>3 DEF OutcomeOK, Unrecordable
  <2> QED
    BY <2>1, <2>2, <2>3
<1>2. ASSUME NEW u \in Tasks PROVE FailingRowOK(u)'
  <2>1. CASE u = t
    <3>1. executions[t] = 0
      BY DEF IInv, PlaceInvariant, RowsOK, RowOK
    <3> QED
      BY <2>1, <3>1 DEF FailingRowOK, Terminal
  <2>2. CASE u # t
    BY <2>2 DEF OutcomeInvariant, FailingRowsOK, FailingRowOK, Unrecordable
  <2> QED
    BY <2>1, <2>2
<1> QED
  BY <1>1, <1>2 DEF OutcomeInvariant, OutcomesOK, FailingRowsOK

\* A step of poll_pg, or one that fails or in which the scheduler dies.
LEMMA SchedulerOutcome ==
  ASSUME ErrorColumn' = ErrorColumn,
         IInv, OutcomeInvariant, NEW s \in Schedulers,
         RunScheduler(s) \/ SchedulerInterrupted(s), UNCHANGED workerVars
  PROVE  OutcomeInvariant'
<1>1. UNCHANGED <<wpc, wtask, executions>>
  BY DEF workerVars
<1>2. CASE UNCHANGED db
  BY <1>1, <1>2 DEF OutcomeInvariant, OutcomesOK, OutcomeOK, FailingRowsOK,
                    FailingRowOK, Unrecordable
<1>3. ASSUME NEW t \in batch[s], UpdateStatus(t, "SCHEDULED", 1, FALSE)
      PROVE  OutcomeInvariant'
  <2>1. t \in Tasks /\ db[t].status = "PENDING"
    BY DEF IInv, StateOK, PlaceInvariant, SchedulersOK, SchedulerOK
  <2>2. /\ db'[t].status = "SCHEDULED"
        /\ \A u \in Tasks \ {t} : db'[u] = db[u]
    BY <1>3, <2>1, UpdateStatusEffect DEF IInv, StateOK, TaskStatus
  <2> QED
    BY <1>1, <2>1, <2>2, RowStarts
<1> QED
  BY <1>2, <1>3 DEF RunScheduler, SchedulerStep, SchedulerInterrupted, Fetch,
                    Mark, Push, PublishScheduled

\* Every step of the pipeline, faults included, preserves it.
LEMMA NextOutcome == IInv /\ OutcomeInvariant /\ [Next]_vars => OutcomeInvariant'
<1> SUFFICES ASSUME IInv, OutcomeInvariant, [Next]_vars
             PROVE  OutcomeInvariant'
  OBVIOUS
<1>0. ErrorColumn' = ErrorColumn
  BY DeploymentIsFixed DEF ErrorColumn
<1>1. ASSUME NEW t \in Tasks, NEW sub \in Submissions, Submit(t, sub)
      PROVE  OutcomeInvariant'
  <2>1. /\ db[t].status = "absent" /\ db'[t].status = "PENDING"
        /\ \A u \in Tasks \ {t} : db'[u] = db[u]
    BY <1>1 DEF Submit, Create, IInv, StateOK
  <2> QED
    BY <1>0, <1>1, <2>1, RowStarts DEF Submit, workerVars
<1>2. ASSUME NEW s \in Schedulers, RunScheduler(s) PROVE OutcomeInvariant'
  BY <1>0, <1>2, SchedulerOutcome DEF RunScheduler
<1>3. ASSUME NEW w \in Workers, RunWorker(w) PROVE OutcomeInvariant'
  BY <1>0, <1>3, WorkerStepOutcome
<1>4. CASE UNCHANGED <<db, workerVars>>
  BY <1>0, <1>4 DEF workerVars, OutcomeInvariant, OutcomesOK, OutcomeOK,
              FailingRowsOK, FailingRowOK, Unrecordable
<1>5. CASE Fault
  BY <1>0, <1>4, <1>5, SchedulerOutcome, WorkerInterruptedOutcome DEF Fault
<1> QED
  BY <1>1, <1>2, <1>3, <1>4, <1>5 DEF Next, RunEngine, vars

\* Nothing has happened in the initial state.
LEMMA InitOutcome == Init => OutcomeInvariant
<1> SUFFICES ASSUME Init PROVE OutcomeInvariant
  OBVIOUS
<1>1. OutcomesOK
  BY DEF Init, OutcomesOK, OutcomeOK
<1>2. \A t \in Tasks : executions[t] = 0 /\ db[t].status = "absent"
  BY DEF Init, NoRow
<1>3. FailingRowsOK
  BY <1>2 DEF FailingRowsOK, FailingRowOK, Terminal
<1> QED
  BY <1>1, <1>3 DEF OutcomeInvariant

\* With the tasks table of infra/postgres/init.sql no failure is ever
\* recorded: the row of a failing task stays RUNNING after its only execution,
\* and the task is in no list and not being dispatched.
THEOREM FailuresGoUnrecorded == Spec => []FailureUnrecorded
<1>1. IInv /\ OutcomeInvariant => FailureUnrecorded
  <2> SUFFICES ASSUME IInv, OutcomeInvariant, ~ErrorColumn,
                      NEW t \in Tasks, db[t].outcome = "error"
               PROVE  /\ db[t].status \notin Terminal \cup {"RETRYING"}
                      /\ executions[t] <= 1
                      /\ executions[t] = 1 =>
                           /\ db[t].status = "RUNNING"
                           /\ ~Queued(t) /\ ~Dispatching(t)
    BY DEF FailureUnrecorded
  <2>1. FailingRowOK(t) /\ Unrecordable(t)
    BY DEF OutcomeInvariant, FailingRowsOK, Unrecordable
  <2>2. Queued(t) => db[t].status \in {"SCHEDULED", "RETRYING"}
    BY DEF Queued, InQueue, IInv, PlaceInvariant, EntriesOK, EntryOK
  <2>3. Dispatching(t) => db[t].status = "SCHEDULED"
    BY DEF Dispatching, IInv, PlaceInvariant, SchedulersOK, SchedulerOK
  <2> QED
    BY <2>1, <2>2, <2>3 DEF FailingRowOK
<1> QED
  BY <1>1, InitInv, NextInv, InitOutcome, NextOutcome, PTL DEF Spec

-----------------------------------------------------------------------------
(* What a fault can lose.                                                   *)

Lost(t) == Orphan(t) /\ ~DroppedByCode(t)

\* Task u keeps its row and whoever has it.
Kept(u) ==
  /\ db'[u] = db[u]
  /\ Dispatching(u) => Dispatching(u)'
  /\ Queued(u) => Queued(u)'
  /\ Held(u) => Held(u)'

\* A task that is kept is not lost by the step.
LEMMA KeptIsNotLost ==
  ASSUME ErrorColumn' = ErrorColumn,
         NEW u \in Tasks, Kept(u), Lost(u)'
  PROVE  Lost(u)
BY DEF Kept, Lost, Orphan, DroppedByCode

\* A step that loses nothing, and one that loses one task at most.
LosesNone == \A u \in Tasks : Lost(u)' => Lost(u)
LosesOne == \E x : \A u \in Tasks : u # x => (Lost(u)' => Lost(u))

\* A list that a task is pushed to keeps its entries and holds the task.
LEMMA PushKeepsQueued ==
  ASSUME StateOK, NEW p \in Providers, NEW t \in Tasks, LPush(p, t)
  PROVE  /\ Queued(t)'
         /\ \A u \in Tasks : Queued(u) => Queued(u)'
<1>1. /\ Len(queue'[p]) = Len(queue[p]) + 1 /\ queue'[p][1] = t
      /\ \A i \in 2..Len(queue'[p]) :
           i - 1 \in 1..Len(queue[p]) /\ queue'[p][i] = queue[p][i - 1]
      /\ \A q \in Providers \ {p} : queue'[q] = queue[q]
      /\ Len(queue[p]) \in Nat
  BY LPushEffect, LenProperties DEF StateOK
<1>2. Queued(t)'
  <2>1. 1 \in 1..Len(queue'[p])
    BY <1>1
  <2> QED
    BY <1>1, <2>1 DEF Queued, InQueue
<1>3. ASSUME NEW u \in Tasks, Queued(u) PROVE Queued(u)'
  <2>1. PICK q \in Providers : \E i \in 1..Len(queue[q]) : queue[q][i] = u
    BY <1>3 DEF Queued, InQueue
  <2>2. PICK i \in 1..Len(queue[q]) : queue[q][i] = u
    BY <2>1
  <2>3. CASE q # p
    BY <1>1, <2>2, <2>3 DEF Queued, InQueue
  <2>4. CASE q = p
    <3>1. i + 1 \in 2..Len(queue'[p])
      BY <1>1, <2>2, <2>4
    <3>2. queue'[p][i + 1] = u /\ i + 1 \in 1..Len(queue'[p])
      BY <1>1, <2>2, <2>4, <3>1
    <3> QED
      BY <3>2 DEF Queued, InQueue
  <2> QED
    BY <2>3, <2>4
<1> QED
  BY <1>2, <1>3

\* A list that a task is popped from keeps its other entries.
LEMMA PopKeepsQueued ==
  ASSUME StateOK, NEW p \in Providers, NEW t \in Tasks, LPop(p, t)
  PROVE  \A u \in Tasks : u # t /\ Queued(u) => Queued(u)'
<1>1. /\ queue[p] \in Seq(Tasks) /\ queue[p] # <<>>
      /\ queue'[p] = Tail(queue[p]) /\ queue[p][1] = t
      /\ \A q \in Providers \ {p} : queue'[q] = queue[q]
  BY DEF LPop, StateOK
<1>2. /\ Len(queue[p]) \in Nat /\ Len(queue'[p]) = Len(queue[p]) - 1
      /\ \A i \in 1..Len(queue'[p]) : queue'[p][i] = queue[p][i + 1]
  BY <1>1, HeadTailProperties, LenProperties
<1> SUFFICES ASSUME NEW u \in Tasks, u # t, Queued(u) PROVE Queued(u)'
  OBVIOUS
<1>3. PICK q \in Providers : \E i \in 1..Len(queue[q]) : queue[q][i] = u
  BY DEF Queued, InQueue
<1>4. PICK i \in 1..Len(queue[q]) : queue[q][i] = u
  BY <1>3
<1>5. CASE q # p
  BY <1>1, <1>4, <1>5 DEF Queued, InQueue
<1>6. CASE q = p
  <2>1. i # 1
    BY <1>1, <1>4, <1>6
  <2>2. i - 1 \in 1..Len(queue'[p])
    BY <1>2, <1>4, <1>6, <2>1
  <2>3. queue'[p][i - 1] = u
    BY <1>2, <1>4, <1>6, <2>2
  <2> QED
    BY <2>2, <2>3 DEF Queued, InQueue
<1> QED
  BY <1>5, <1>6

\* A worker that moves without dropping its task keeps it, and all the others.
LEMMA HoldingLosesNone ==
  ASSUME ErrorColumn' = ErrorColumn,
         StateOK, NEW w \in Workers, wtask[w] # NoTask,
         UNCHANGED <<wtask, spc, cur, queue>>,
         \A u \in Tasks : u # wtask[w] => db'[u] = db[u]
  PROVE  LosesNone
<1>1. \A u \in Tasks : /\ Held(u) <=> Held(u)'
                       /\ Queued(u) <=> Queued(u)'
                       /\ Dispatching(u) <=> Dispatching(u)'
  BY DEF Held, Queued, InQueue, Dispatching
<1> SUFFICES ASSUME NEW u \in Tasks, Lost(u)' PROVE Lost(u)
  BY DEF LosesNone
<1>2. CASE u = wtask[w]
  <2>1. Held(u)'
    BY <1>1, <1>2 DEF Held
  <2> QED
    BY <2>1 DEF Lost, Orphan
<1>3. CASE u # wtask[w]
  BY <1>1, <1>3, KeptIsNotLost DEF Kept
<1> QED
  BY <1>2, <1>3

\* A worker that drops its task keeps all the others.
LEMMA DroppingKeepsOthers ==
  ASSUME ErrorColumn' = ErrorColumn,
         StateOK, NEW w \in Workers, DropTask(w), UNCHANGED <<spc, cur>>,
         \A u \in Tasks : u # wtask[w] =>
           db'[u] = db[u] /\ (Queued(u) => Queued(u)')
  PROVE  \A u \in Tasks : u # wtask[w] => Kept(u)
<1> SUFFICES ASSUME NEW u \in Tasks, u # wtask[w] PROVE Kept(u)
  OBVIOUS
<1>1. \A v \in Workers : v # w => wtask'[v] = wtask[v]
  BY DEF DropTask, StateOK
<1>2. Held(u) => Held(u)'
  BY <1>1 DEF Held
<1>3. Dispatching(u) => Dispatching(u)'
  BY DEF Dispatching
<1> QED
  BY <1>2, <1>3 DEF Kept

\* A scheduler that moves on keeps everything but the task it dispatches.
LEMMA SchedulerKeeps ==
  ASSUME StateOK, NEW s \in Schedulers, UNCHANGED wtask, NEW x,
         spc[s] = "push" => cur[s] = x,
         \A u \in Tasks : u # x => db'[u] = db[u] /\ (Queued(u) => Queued(u)')
  PROVE  \A u \in Tasks : u # x => Kept(u)
<1> SUFFICES ASSUME NEW u \in Tasks, u # x PROVE Kept(u)
  OBVIOUS
<1>1. ~Dispatching(u)
  BY SchedulerAssumption DEF Dispatching
<1>2. Held(u) => Held(u)'
  BY DEF Held
<1> QED
  BY <1>1, <1>2 DEF Kept

\* One iteration of consume: the task it drops is queued again, is finished,
\* or is one the code itself drops.
LEMMA WorkerStepLosesNone ==
  ASSUME ErrorColumn' = ErrorColumn,
         IInv, OutcomeInvariant, NEW w \in Workers, RunWorker(w)
  PROVE  LosesNone
<1> USE DEF IInv
<1>0. UNCHANGED <<spc, cur>>
  BY DEF RunWorker, schedulerVars
<1>1. /\ WorkerOK(w) /\ OutcomeOK(w) /\ wattempts[w] \in Nat
      /\ wtask[w] \in Tasks \cup {NoTask}
      /\ wpc[w] = "blpop" <=> wtask[w] = NoTask
  BY DEF PlaceInvariant, WorkersOK, WorkerOK, StateOK, OutcomeInvariant,
         OutcomesOK
\* A task that is dropped with its row as it was, and is not lost.
<1>2. ASSUME DropTask(w), wtask[w] # NoTask, UNCHANGED db,
             \A u \in Tasks : Queued(u) => Queued(u)',
             NEW t, t = wtask[w], ~Lost(t)'
      PROVE  LosesNone
  <2>1. \A u \in Tasks : u # t => Kept(u)
    BY <1>0, <1>2, DroppingKeepsOthers
  <2> QED
    BY <1>2, <2>1, KeptIsNotLost DEF LosesNone
\* A write to the row of the task that the worker keeps.
<1>3. ASSUME NEW st \in TaskStatus, NEW n \in Nat, NEW e \in BOOLEAN,
             UpdateStatus(wtask[w], st, n, e), wpc[w] # "blpop",
             UNCHANGED <<wtask, queue>>
      PROVE  LosesNone
  <2>1. \A u \in Tasks : u # wtask[w] => db'[u] = db[u]
    BY <1>1, <1>3, UpdateStatusEffect DEF StateOK
  <2> QED
    BY <1>0, <1>1, <1>3, <2>1, HoldingLosesNone
<1>4. CASE Pop(w)
  <2>1. PICK t \in Tasks : /\ LPop("opencode", t)
                           /\ wtask' = [wtask EXCEPT ![w] = t]
    BY <1>4 DEF Pop
  <2>2. UNCHANGED db /\ wtask[w] = NoTask /\ wtask'[w] = t
    BY <1>1, <1>4, <2>1 DEF Pop, StateOK
  <2>3. \A u \in Tasks : u # t => Kept(u)
    <3> SUFFICES ASSUME NEW u \in Tasks, u # t PROVE Kept(u)
      OBVIOUS
    <3>1. Queued(u) => Queued(u)'
      BY <2>1, PopKeepsQueued, ProvidersAssumption
    <3>2. Held(u) => Held(u)'
      <4>1. u # NoTask
        BY TasksAssumption
      <4> QED
        BY <2>1, <2>2, <4>1 DEF Held, StateOK
    <3>3. Dispatching(u) => Dispatching(u)'
      BY <1>0 DEF Dispatching
    <3> QED
      BY <2>2, <3>1, <3>2, <3>3 DEF Kept
  <2>4. ~Lost(t)'
    BY <2>2 DEF Lost, Orphan, Held
  <2> QED
    BY <2>3, <2>4, KeptIsNotLost DEF LosesNone
<1>5. CASE MarkRunning(w)
  <2>1. db[wtask[w]].attempts \in Nat
    BY <1>1, <1>5 DEF MarkRunning, StateOK, Row
  <2> QED
    BY <1>3, <1>5, <2>1 DEF MarkRunning, brokerVars, TaskStatus
<1>6. CASE Execute(w)
  <2>1. UNCHANGED <<db, queue>> /\ wtask[w] # NoTask
    BY <1>1, <1>6 DEF Execute, brokerVars
  <2>2. CASE UNCHANGED wtask
    BY <1>0, <2>1, <2>2, HoldingLosesNone
  <2>3. CASE db[wtask[w]].outcome = "raise" /\ DropTask(w)
    <3>1. PICK t : t = wtask[w]
      OBVIOUS
    <3>2. ~Lost(t)'
      BY <2>1, <2>3, <3>1 DEF Lost, DroppedByCode
    <3>3. \A u \in Tasks : Queued(u) => Queued(u)'
      BY <2>1 DEF Queued, InQueue
    <3> QED
      BY <1>2, <2>1, <2>3, <3>1, <3>2, <3>3
  <2> QED
    BY <1>6, <2>2, <2>3 DEF Execute
<1>7. CASE GetAttempts(w)
  BY <1>0, <1>1, <1>7, HoldingLosesNone DEF GetAttempts, brokerVars
<1>8. CASE MarkRetrying(w)
  BY <1>1, <1>3, <1>8 DEF MarkRetrying, brokerVars, TaskStatus
<1>9. CASE Requeue(w)
  <2>1. PICK t \in Tasks : t = wtask[w] /\ LPush("opencode", t)
    BY <1>1, <1>9 DEF Requeue
  <2>2. Queued(t)' /\ \A u \in Tasks : Queued(u) => Queued(u)'
    BY <2>1, PushKeepsQueued, ProvidersAssumption
  <2>3. ~Lost(t)'
    BY <2>2 DEF Lost, Orphan
  <2> QED
    BY <1>1, <1>2, <1>9, <2>1, <2>2, <2>3 DEF Requeue
<1>10. CASE MarkFailed(w)
  BY <1>1, <1>3, <1>10 DEF MarkFailed, brokerVars, TaskStatus
<1>11. CASE ErrorUpdateRejected(w)
  <2>1. PICK t : t = wtask[w]
    OBVIOUS
  <2>2. UNCHANGED <<db, queue>> /\ wtask[w] # NoTask
    BY <1>1, <1>11 DEF ErrorUpdateRejected, brokerVars
  <2>3. ~Lost(t)'
    BY <1>1, <1>11, <2>1, <2>2
       DEF ErrorUpdateRejected, OutcomeOK, Lost, DroppedByCode
  <2>4. \A u \in Tasks : Queued(u) => Queued(u)'
    BY <2>2 DEF Queued, InQueue
  <2> QED
    BY <1>2, <1>11, <2>1, <2>2, <2>3, <2>4 DEF ErrorUpdateRejected
<1>12. CASE MarkCompleted(w)
  BY <1>1, <1>3, <1>12 DEF MarkCompleted, brokerVars, TaskStatus
<1>13. CASE PublishOutcome(w)
  <2>1. PICK t : t = wtask[w]
    OBVIOUS
  <2>2. UNCHANGED <<db, queue>> /\ wtask[w] # NoTask
    BY <1>1, <1>13 DEF PublishOutcome
  <2>3. ~Lost(t)'
    BY <1>1, <1>13, <2>1, <2>2 DEF PublishOutcome, WorkerOK, Lost, Orphan
  <2>4. \A u \in Tasks : Queued(u) => Queued(u)'
    BY <2>2 DEF Queued, InQueue
  <2> QED
    BY <1>2, <1>13, <2>1, <2>2, <2>3, <2>4 DEF PublishOutcome
<1> QED
  BY <1>4, <1>5, <1>6, <1>7, <1>8, <1>9, <1>10, <1>11, <1>12, <1>13
     DEF RunWorker, WorkerStep

\* A call of consume that fails, or in which the worker dies, loses no task
\* but the one it had, or the one whose BLPOP lost its reply.
LEMMA WorkerInterruptedLosesOne ==
  ASSUME ErrorColumn' = ErrorColumn,
         IInv, NEW w \in Workers, WorkerInterrupted(w),
         UNCHANGED <<spc, cur>>
  PROVE  LosesOne
<1> USE DEF IInv
<1>1. /\ DropTask(w) /\ WorkerOK(w) /\ wattempts[w] \in Nat
      /\ wtask[w] \in Tasks \cup {NoTask}
      /\ wpc[w] = "blpop" <=> wtask[w] = NoTask
  BY DEF WorkerInterrupted, PlaceInvariant, WorkersOK, WorkerOK, StateOK
<1>2. ASSUME \A u \in Tasks : u # wtask[w] =>
               db'[u] = db[u] /\ (Queued(u) => Queued(u)')
      PROVE  LosesOne
  <2>1. \A u \in Tasks : u # wtask[w] => Kept(u)
    BY <1>1, <1>2, DroppingKeepsOthers
  <2> QED
    BY <2>1, KeptIsNotLost DEF LosesOne
<1>3. CASE UNCHANGED <<db, brokerVars>>
  BY <1>2, <1>3 DEF brokerVars, Queued, InQueue
<1>4. CASE /\ wpc[w] = "blpop"
           /\ \E t \in Tasks : LPop("opencode", t)
           /\ UNCHANGED <<executions, db, subscribed, inbox>>
  <2>1. PICK t \in Tasks : LPop("opencode", t)
    BY <1>4
  <2>2. \A u \in Tasks : u # t /\ Queued(u) => Queued(u)'
    BY <2>1, PopKeepsQueued, ProvidersAssumption
  <2>3. UNCHANGED wtask
    BY <1>1, <1>4 DEF DropTask, StateOK
  <2>4. \A u \in Tasks : u # t => Kept(u)
    BY <1>4, <2>2, <2>3 DEF Kept, Held, Dispatching
  <2> QED
    BY <2>4, KeptIsNotLost DEF LosesOne
<1>5. ASSUME NEW st \in TaskStatus, NEW n \in Nat, NEW e \in BOOLEAN,
             UpdateStatus(wtask[w], st, n, e), wpc[w] # "blpop",
             UNCHANGED brokerVars
      PROVE  LosesOne
  <2>1. \A u \in Tasks : u # wtask[w] => db'[u] = db[u]
    BY <1>1, <1>5, UpdateStatusEffect DEF StateOK
  <2> QED
    BY <1>2, <1>5, <2>1 DEF brokerVars, Queued, InQueue
<1>6. CASE /\ wpc[w] = "running"
           /\ UpdateStatus(wtask[w], "RUNNING", db[wtask[w]].attempts, FALSE)
           /\ UNCHANGED <<executions, brokerVars>>
  <2>1. db[wtask[w]].attempts \in Nat
    BY <1>1, <1>6 DEF StateOK, Row
  <2> QED
    BY <1>5, <1>6, <2>1 DEF TaskStatus
<1>7. CASE /\ wpc[w] \in {"retrying", "failed"}
           /\ UpdateStatus(wtask[w],
                           IF wpc[w] = "failed" THEN "FAILED" ELSE "RETRYING",
                           wattempts[w], TRUE)
           /\ UNCHANGED <<executions, brokerVars>>
  <2>1. (IF wpc[w] = "failed" THEN "FAILED" ELSE "RETRYING") \in TaskStatus
    BY DEF TaskStatus
  <2> QED
    BY <1>1, <1>5, <1>7, <2>1
<1>8. CASE /\ wpc[w] = "requeue"
           /\ LPush("opencode", wtask[w])
           /\ UNCHANGED <<executions, db, subscribed, inbox>>
  <2>1. \A u \in Tasks : Queued(u) => Queued(u)'
    BY <1>1, <1>8, PushKeepsQueued, ProvidersAssumption
  <2> QED
    BY <1>2, <1>8, <2>1
<1>9. CASE /\ wpc[w] = "completed"
           /\ UpdateStatus(wtask[w], "COMPLETED", 0, FALSE)
           /\ UNCHANGED <<executions, brokerVars>>
  BY <1>5, <1>9 DEF TaskStatus
<1> QED
  BY <1>3, <1>4, <1>6, <1>7, <1>8, <1>9
     DEF WorkerInterrupted, brokerVars, Queued, InQueue

\* A step of poll_pg, or one that fails or in which the scheduler dies: only
\* the task it dispatches is in question, and a step that does not fail has
\* it in `cur` after Mark and in a list after Push.
LEMMA SchedulerLoses ==
  ASSUME ErrorColumn' = ErrorColumn,
         IInv, NEW s \in Schedulers, UNCHANGED wtask
  PROVE  /\ RunScheduler(s) => LosesNone
         /\ SchedulerInterrupted(s) => LosesOne
<1> USE DEF IInv
<1>1. /\ SchedulerOK(s) /\ batch[s] \subseteq Tasks
      /\ cur[s] \in Tasks \cup {NoTask}
  BY DEF PlaceInvariant, SchedulersOK, StateOK
<1>2. ASSUME NEW t \in batch[s], UpdateStatus(t, "SCHEDULED", 1, FALSE),
             spc[s] = "mark", UNCHANGED queue
      PROVE  \A u \in Tasks : u # t => Kept(u)
  <2>1. \A u \in Tasks : u # t => db'[u] = db[u]
    BY <1>1, <1>2, UpdateStatusEffect DEF StateOK, TaskStatus
  <2>2. \A u \in Tasks : Queued(u) => Queued(u)'
    BY <1>2 DEF Queued, InQueue
  <2> QED
    BY <1>2, <2>1, <2>2, SchedulerKeeps
<1>3. ASSUME spc[s] = "push", UNCHANGED db, LPush(ProviderOf(cur[s]), cur[s])
      PROVE  /\ \A u \in Tasks : u # cur[s] => Kept(u)
             /\ \A t : t = cur[s] => ~Lost(t)'
  <2>1. PICK t \in Tasks : t = cur[s]
    BY <1>1, <1>3 DEF SchedulerOK
  <2>2. PICK p \in Providers : p = ProviderOf(t)
    BY ProvidersAssumption DEF ProviderOf, StateOK, Row, RowProviders
  <2>3. LPush(p, t)
    BY <1>3, <2>1, <2>2
  <2>4. Queued(t)' /\ \A u \in Tasks : Queued(u) => Queued(u)'
    BY <2>3, PushKeepsQueued
  <2>5. \A u \in Tasks : u # t => Kept(u)
    BY <1>3, <2>1, <2>4, SchedulerKeeps
  <2>6. ~Lost(t)'
    BY <2>4 DEF Lost, Orphan
  <2> QED
    BY <2>1, <2>5, <2>6
<1>4. ASSUME spc[s] # "push", UNCHANGED <<db, queue>>
      PROVE  LosesNone
  <2>1. \A u \in Tasks : Queued(u) => Queued(u)'
    BY <1>4 DEF Queued, InQueue
  <2>2. \A u \in Tasks : u # NoTask => Kept(u)
    BY <1>4, <2>1, SchedulerKeeps
  <2> QED
    BY <2>2, TasksAssumption, KeptIsNotLost DEF LosesNone
<1>5. ASSUME RunScheduler(s) PROVE LosesNone
  <2>1. CASE Fetch(s) \/ PublishScheduled(s)
    BY <1>4, <2>1 DEF Fetch, PublishScheduled, brokerVars
  <2>2. CASE Mark(s)
    <3>1. PICK t \in batch[s] : /\ UpdateStatus(t, "SCHEDULED", 1, FALSE)
                                /\ cur' = [cur EXCEPT ![s] = t]
      BY <2>2 DEF Mark
    <3>2. \A u \in Tasks : u # t => Kept(u)
      BY <1>2, <2>2, <3>1 DEF Mark, brokerVars
    <3>3. cur'[s] = t /\ spc'[s] = "push"
      BY <2>2, <3>1 DEF Mark, StateOK
    <3>4. ~Lost(t)'
      BY <3>3 DEF Lost, Orphan, Dispatching
    <3> QED
      BY <3>2, <3>4, KeptIsNotLost DEF LosesNone
  <2>3. CASE Push(s)
    <3>1. PICK t : t = cur[s]
      OBVIOUS
    <3>2. (\A u \in Tasks : u # t => Kept(u)) /\ ~Lost(t)'
      BY <1>3, <2>3, <3>1 DEF Push
    <3> QED
      BY <3>2, KeptIsNotLost DEF LosesNone
  <2> QED
    BY <1>5, <2>1, <2>2, <2>3 DEF RunScheduler, SchedulerStep
<1>6. ASSUME SchedulerInterrupted(s) PROVE LosesOne
  <2>1. ASSUME NEW x, \A u \in Tasks : u # x => Kept(u) PROVE LosesOne
    BY <2>1, KeptIsNotLost DEF LosesOne
  <2>2. CASE UNCHANGED <<db, queue>>
    <3>1. \A u \in Tasks : Queued(u) => Queued(u)'
      BY <2>2 DEF Queued, InQueue
    <3>2. \A u \in Tasks : u # cur[s] => Kept(u)
      BY <2>2, <3>1, SchedulerKeeps
    <3> QED
      BY <2>1, <3>2
  <2>3. CASE /\ spc[s] = "mark"
             /\ \E t \in batch[s] : UpdateStatus(t, "SCHEDULED", 1, FALSE)
             /\ UNCHANGED queue
    BY <1>2, <2>1, <2>3
  <2>4. CASE /\ spc[s] = "push"
             /\ LPush(ProviderOf(cur[s]), cur[s])
             /\ UNCHANGED db
    BY <1>3, <2>1, <2>4
  <2> QED
    BY <1>6, <2>2, <2>3, <2>4 DEF SchedulerInterrupted, brokerVars
<1> QED
  BY <1>5, <1>6

\* A set of tasks that grows by at most one.
LEMMA LossCount ==
  ASSUME NEW S \in SUBSET Tasks, NEW R \in SUBSET Tasks, NEW m \in Nat,
         Cardinality(S) <= m
  PROVE  /\ R \subseteq S => Cardinality(R) <= m
         /\ \A x : R \subseteq S \cup {x} => Cardinality(R) <= m + 1
<1>1. IsFiniteSet(S) /\ Cardinality(S) \in Nat
  BY TasksAssumption, FS_Subset, FS_CardinalityType
<1>2. ASSUME R \subseteq S PROVE Cardinality(R) <= m
  <2>1. Cardinality(R) \in Nat /\ Cardinality(R) <= Cardinality(S)
    BY <1>1, <1>2, FS_Subset, FS_CardinalityType
  <2> QED
    BY <1>1, <2>1
<1>3. ASSUME NEW x, R \subseteq S \cup {x} PROVE Cardinality(R) <= m + 1
  <2>1. /\ IsFiniteSet(S \cup {x})
        /\ Cardinality(S \cup {x}) \in {Cardinality(S), Cardinality(S) + 1}
    BY <1>1, FS_AddElement
  <2>2. Cardinality(R) \in Nat /\ Cardinality(R) <= Cardinality(S \cup {x})
    BY <1>3, <2>1, FS_Subset, FS_CardinalityType
  <2> QED
    BY <1>1, <2>1, <2>2
<1> QED
  BY <1>2, <1>3

\* A step without a fault loses nothing, a fault loses one task at most.
LEMMA NextLoses ==
  ASSUME IInv, OutcomeInvariant, [Next]_vars
  PROVE  \/ LosesNone /\ UNCHANGED faults
         \/ LosesOne /\ faults' = faults + 1
<1>0. ErrorColumn' = ErrorColumn
  BY DeploymentIsFixed DEF ErrorColumn
<1>1. ASSUME NEW t \in Tasks, NEW sub \in Submissions, Submit(t, sub)
      PROVE  LosesNone /\ UNCHANGED faults
  <2>1. /\ UNCHANGED <<queue, spc, cur, wtask, faults>>
        /\ db'[t].status = "PENDING"
        /\ \A u \in Tasks \ {t} : db'[u] = db[u]
    BY <1>1 DEF Submit, Create, brokerVars, schedulerVars, workerVars, IInv,
                StateOK
  <2>2. \A u \in Tasks \ {t} : Kept(u)
    BY <2>1 DEF Kept, Queued, InQueue, Held, Dispatching
  <2>3. ~Lost(t)'
    BY <2>1 DEF Lost, Orphan
  <2> QED
    BY <1>0, <2>1, <2>2, <2>3, KeptIsNotLost DEF LosesNone
<1>2. ASSUME NEW s \in Schedulers, RunScheduler(s)
      PROVE  LosesNone /\ UNCHANGED faults
  BY <1>0, <1>2, SchedulerLoses DEF RunScheduler, workerVars
<1>3. ASSUME NEW w \in Workers, RunWorker(w)
      PROVE  LosesNone /\ UNCHANGED faults
  BY <1>0, <1>3, WorkerStepLosesNone DEF RunWorker
<1>4. ASSUME UNCHANGED <<db, queue, spc, cur, wtask>> PROVE LosesNone
  BY <1>0, <1>4 DEF LosesNone, Lost, Orphan, DroppedByCode, Queued, InQueue, Held,
              Dispatching
<1>5. LosesNone => LosesOne
  BY DEF LosesNone, LosesOne
<1>6. CASE RunEngine
  BY <1>4, <1>6 DEF RunEngine, EngineStep, Subscribe, RecordEvent,
                    schedulerVars, workerVars
<1>7. CASE Fault
  <2>1. CASE \E s \in Schedulers : SchedulerInterrupted(s)
                                   /\ UNCHANGED <<workerVars, recorded>>
    BY <1>0, <1>7, <2>1, SchedulerLoses DEF Fault, workerVars
  <2>2. CASE \E w \in Workers : WorkerInterrupted(w)
                                /\ UNCHANGED <<schedulerVars, recorded>>
    BY <1>0, <1>7, <2>2, WorkerInterruptedLosesOne DEF Fault, schedulerVars
  <2>3. CASE EngineInterrupted /\ UNCHANGED <<db, schedulerVars, workerVars>>
    BY <1>4, <1>5, <1>7, <2>3
       DEF Fault, EngineInterrupted, schedulerVars, workerVars
  <2> QED
    BY <1>7, <2>1, <2>2, <2>3 DEF Fault
<1>8. CASE UNCHANGED vars
  BY <1>4, <1>8 DEF vars, brokerVars, schedulerVars, workerVars
<1> QED
  BY <1>1, <1>2, <1>3, <1>6, <1>7, <1>8 DEF Next

\* Whatever the interleaving, each call that raises and each process that dies
\* leaves at most one task behind in an unfinished status, beside those that
\* the code drops by itself.
THEOREM FaultsLoseOneEach == Spec => []LossBoundedByFaults
<1>1. Init => OutcomeInvariant /\ LossBoundedByFaults
  <2> SUFFICES ASSUME Init PROVE OutcomeInvariant /\ LossBoundedByFaults
    OBVIOUS
  <2>1. \A t \in Tasks : db[t].status = "absent"
    BY DEF Init, NoRow
  <2>2. {t \in Tasks : Orphan(t) /\ ~DroppedByCode(t)} = {}
    BY <2>1 DEF Orphan
  <2>3. Cardinality({t \in Tasks : Orphan(t) /\ ~DroppedByCode(t)}) = 0
    BY <2>2, FS_EmptySet
  <2> QED
    BY <2>3, InitOutcome DEF Init, LossBoundedByFaults
<1>2. IInv /\ OutcomeInvariant /\ LossBoundedByFaults /\ [Next]_vars
        => LossBoundedByFaults'
  <2> SUFFICES ASSUME IInv, OutcomeInvariant, LossBoundedByFaults, [Next]_vars
               PROVE  LossBoundedByFaults'
    OBVIOUS
  <2> DEFINE S == {t \in Tasks : Lost(t)}
  <2>1. PICK A \in SUBSET Tasks, B \in SUBSET Tasks : A = S /\ B = S'
    OBVIOUS
  <2>2. faults \in Nat /\ Cardinality(A) <= faults
    BY <2>1 DEF LossBoundedByFaults, Lost, IInv, StateOK
  <2>3. CASE LosesNone /\ UNCHANGED faults
    <3>1. B \subseteq A
      BY <2>1, <2>3 DEF LosesNone
    <3> QED
      BY <2>1, <2>2, <2>3, <3>1, LossCount DEF LossBoundedByFaults, Lost
  <2>4. CASE LosesOne /\ faults' = faults + 1
    <3>1. PICK x : \A u \in Tasks : u # x => (Lost(u)' => Lost(u))
      BY <2>4 DEF LosesOne
    <3>2. B \subseteq A \cup {x}
      BY <2>1, <3>1
    <3> QED
      BY <2>1, <2>2, <2>4, <3>2, LossCount DEF LossBoundedByFaults, Lost
  <2> QED
    BY <2>3, <2>4, NextLoses
<1> QED
  BY <1>1, <1>2, InitInv, NextInv, NextOutcome, PTL DEF Spec
=============================================================================
