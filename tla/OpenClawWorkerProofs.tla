------------------------ MODULE OpenClawWorkerProofs ------------------------
(***************************************************************************)
(* Proofs about OpenClawWorker, for any number of workers, tasks, attempts *)
(* and steps. The invariant ties the call a worker awaits to what the      *)
(* store, the workspace and the events say of its task: an exception may   *)
(* end the worker at each of them.                                         *)
(***************************************************************************)
EXTENDS OpenClawWorker, SequenceTheorems, FiniteSetTheorems, TLAPS

\* No task is in the source twice, and one that is there is untouched.
SourceIsFresh ==
  /\ \A i, j \in 1..Len(source) : source[i] = source[j] => i = j
  /\ \A t \in Tasks :
       InSource(t) => last[t] = NoEvent /\ leftover[t] = 0

\* What the record of a task says whoever executes it, and after a worker
\* that executed it is dead.
TaskRecord(t) ==
  /\ last[t].kind \in {"succeeded", "failed"} =>
       [attempt |-> last[t].attempt,
        success |-> last[t].kind = "succeeded"] \in reports[t]
  /\ last[t].kind = "retry" =>
       [attempt |-> last[t].attempt, success |-> FALSE] \in reports[t]
  /\ \A a \in 1..(last[t].attempt - 1) :
       [attempt |-> a, success |-> FALSE] \in reports[t]
  /\ \A r, q \in reports[t] : r.attempt = q.attempt => r = q
  /\ returned[t] # "none" => last[t].kind = returned[t]
  /\ last[t].kind = "succeeded" =>
       written[t] = last[t].attempt /\ done[t] = payload[t].steps

\* The containers that the attempts of a task can have left behind.
Containers(w) ==
  IF ~Docker THEN 0
  ELSE IF opc[w] = "create" THEN 2 * attempt[w] - 2
  ELSE IF failed[w] THEN 2 * attempt[w]
  ELSE 2 * attempt[w] - 1

\* The last event about the task of a worker in execute.
Announced(w) ==
  IF opc[w] \in {"create", "started"}
  THEN IF attempt[w] = 1 THEN NoEvent
       ELSE [kind |-> "retry", attempt |-> attempt[w] - 1]
  ELSE [kind |-> IF opc[w] = "retry" THEN "failed" ELSE "started",
        attempt |-> attempt[w]]

\* How far a worker in execute is with its task.
Progress(w) ==
  LET t == otask[w]
      a == attempt[w]
  IN /\ a \in 1..Limit(t)
     /\ last[t] = Announced(w)
     /\ leftover[t] <= Containers(w)
     /\ opc[w] \in {"create", "started", "generate", "generated", "step"}
          => ~failed[w]
     /\ opc[w] \in {"step", "stepped"} => written[t] = a
     /\ opc[w] \in {"generate", "generated"} => done[t] = 0
     /\ opc[w] = "step" => done[t] < payload[t].steps
     /\ opc[w] = "stepped" => done[t] <= payload[t].steps
     /\ opc[w] \in {"persist", "outcome"} /\ ~failed[w] =>
          written[t] = a /\ done[t] = payload[t].steps
     /\ opc[w] = "outcome" =>
          [attempt |-> a, success |-> ~failed[w]] \in reports[t]
     /\ opc[w] = "retry" => failed[w] /\ a < Limit(t)

TaskRecords == \A t \in Tasks : TaskRecord(t)
WorkersProgress ==
  \A w \in Workers : /\ Working(w) => Progress(w)
                     /\ ~Working(w) => ~failed[w]

IInv ==
  /\ TypeOK /\ SourceIsFresh /\ ExecutedOnce
  /\ TaskRecords /\ WorkersProgress /\ LossBoundedByRaises

-----------------------------------------------------------------------------
(* The operators of the model.                                              *)

\* An attempt is allowed by every payload.
LEMMA LimitPositive ==
  ASSUME TypeOK, NEW t \in Tasks
  PROVE  /\ payload[t].steps \in Nat
         /\ payload[t].max \in Int
         /\ Limit(t) \in Nat \ {0}
<1>1. payload[t] \in [max : Int, generate : BOOLEAN, steps : Nat]
  BY OpenClawAssumption DEF TypeOK
<1>2. payload[t].max \in Int /\ payload[t].steps \in Nat
  BY <1>1
<1> QED BY <1>2 DEF Limit

\* git init and git checkout leave one container behind at most, and none
\* without Docker; a command that succeeds leaves none.
LEMMA ContainersAdded ==
  /\ \A result \in CommandResults :
       /\ Added(result) \in 0..1
       /\ ~Docker \/ Success(result) => Added(result) = 0
  /\ \A n \in InitBranch : n \in 0..1 /\ (~Docker => n = 0)
<1>1. ASSUME NEW result \in CommandResults
      PROVE  /\ Added(result) \in 0..1
             /\ ~Docker \/ Success(result) => Added(result) = 0
  BY DEF Added, LeavesContainer, Success
<1>2. ASSUME NEW n \in InitBranch
      PROVE  n \in 0..1 /\ (~Docker => n = 0)
  BY <1>1 DEF InitBranch
<1> QED BY <1>1, <1>2

\* Claiming the oldest task of a source without duplicates removes that task
\* and no other.
LEMMA ClaimRemoves ==
  ASSUME NEW s \in Seq(Tasks), s # <<>>,
         \A i, j \in 1..Len(s) : s[i] = s[j] => i = j
  PROVE  /\ Head(s) \in Tasks
         /\ Tail(s) \in Seq(Tasks)
         /\ \E i \in 1..Len(s) : s[i] = Head(s)
         /\ \A i, j \in 1..Len(Tail(s)) : Tail(s)[i] = Tail(s)[j] => i = j
         /\ \A t \in Tasks :
              (\E i \in 1..Len(Tail(s)) : Tail(s)[i] = t)
                <=> t # Head(s) /\ \E i \in 1..Len(s) : s[i] = t
<1>1. /\ Len(s) \in Nat \ {0}
      /\ Head(s) = s[1]
      /\ Head(s) \in Tasks
      /\ Tail(s) \in Seq(Tasks)
      /\ Len(Tail(s)) = Len(s) - 1
      /\ \A i \in 1..(Len(s) - 1) : Tail(s)[i] = s[i + 1]
  BY EmptySeq, HeadTailProperties
<1>2. \A i, j \in 1..Len(Tail(s)) : Tail(s)[i] = Tail(s)[j] => i = j
  <2> TAKE i, j \in 1..Len(Tail(s))
  <2>1. i + 1 \in 1..Len(s) /\ j + 1 \in 1..Len(s)
    BY <1>1
  <2>2. Tail(s)[i] = s[i + 1] /\ Tail(s)[j] = s[j + 1]
    BY <1>1
  <2> QED BY <2>1, <2>2
<1>3. ASSUME NEW t \in Tasks, NEW i \in 1..Len(Tail(s)), Tail(s)[i] = t
      PROVE  t # Head(s) /\ \E k \in 1..Len(s) : s[k] = t
  <2>1. i + 1 \in 1..Len(s) /\ s[i + 1] = t /\ 1 \in 1..Len(s) /\ i + 1 # 1
    BY <1>1, <1>3
  <2> QED BY <1>1, <2>1
<1>4. ASSUME NEW t \in Tasks, t # Head(s), NEW i \in 1..Len(s), s[i] = t
      PROVE  \E k \in 1..Len(Tail(s)) : Tail(s)[k] = t
  <2>1. i # 1
    BY <1>1, <1>4
  <2>2. i - 1 \in 1..Len(Tail(s)) /\ Tail(s)[i - 1] = s[(i - 1) + 1] /\ (i - 1) + 1 = i
    BY <1>1, <2>1
  <2> QED BY <1>4, <2>2
<1>5. \E i \in 1..Len(s) : s[i] = Head(s)
  BY <1>1
<1> QED BY <1>1, <1>2, <1>3, <1>4, <1>5

\* Losing one more task for one more raise, or none, keeps the count.
LEMMA LossStep ==
  ASSUME NEW S \in SUBSET Tasks, NEW R \in SUBSET Tasks,
         NEW m \in Nat, Cardinality(S) <= m
  PROVE  /\ R \subseteq S => Cardinality(R) <= m
         /\ \A x : R \subseteq S \cup {x} => Cardinality(R) <= m + 1
<1>1. IsFiniteSet(S) /\ Cardinality(S) \in Nat
  BY OpenClawAssumption, FS_Subset, FS_CardinalityType
<1>2. ASSUME R \subseteq S PROVE Cardinality(R) <= m
  <2>1. Cardinality(R) \in Nat /\ Cardinality(R) <= Cardinality(S)
    BY <1>1, <1>2, FS_Subset, FS_CardinalityType
  <2> QED BY <1>1, <2>1
<1>3. ASSUME NEW x, R \subseteq S \cup {x} PROVE Cardinality(R) <= m + 1
  <2>1. /\ IsFiniteSet(S \cup {x})
        /\ Cardinality(S \cup {x}) \in {Cardinality(S), Cardinality(S) + 1}
    BY <1>1, FS_AddElement
  <2>2. Cardinality(R) \in Nat /\ Cardinality(R) <= Cardinality(S \cup {x})
    BY <1>3, <2>1, FS_Subset, FS_CardinalityType
  <2> QED BY <1>1, <2>1, <2>2
<1> QED BY <1>2, <1>3

-----------------------------------------------------------------------------

LEMMA InitIInv == Init => IInv
<1> SUFFICES ASSUME Init PROVE IInv
  OBVIOUS
<1>1. TypeOK
  BY OpenClawAssumption
  DEF Init, TypeOK, WorkerPc, Working, Event, NoEvent, Report
<1>2. SourceIsFresh
  BY OpenClawAssumption DEF Init, SourceIsFresh
<1>3. ExecutedOnce
  BY OpenClawAssumption DEF Init, ExecutedOnce, Held
<1>4. TaskRecords
  BY DEF Init, TaskRecords, TaskRecord, NoEvent
<1>5. WorkersProgress
  BY DEF Init, WorkersProgress, Working
<1>6. LossBoundedByRaises
  <2>1. {t \in Tasks : Lost(t)} = {}
    BY DEF Init, Lost, InSource
  <2> QED BY <2>1, FS_EmptySet DEF Init, LossBoundedByRaises
<1> QED BY <1>1, <1>2, <1>3, <1>4, <1>5, <1>6 DEF IInv

\* A step of w that touches the worker and its task only: everything about the
\* other workers and tasks is as it was.
Local(w) ==
  /\ \A v \in Workers \ {w} :
       /\ opc'[v] = opc[v] /\ otask'[v] = otask[v]
       /\ attempt'[v] = attempt[v] /\ failed'[v] = failed[v]
  /\ \A t \in Tasks : t # otask[w] =>
       /\ done'[t] = done[t] /\ written'[t] = written[t]
       /\ leftover'[t] = leftover[t] /\ reports'[t] = reports[t]
       /\ last'[t] = last[t] /\ returned'[t] = returned[t]
  /\ payload' = payload

\* Other workers execute other tasks, so their progress is not disturbed.
LEMMA OthersProgress ==
  ASSUME IInv, NEW w \in Workers, Local(w), NEW v \in Workers, v # w
  PROVE  (Working(v)' => Progress(v)') /\ (~Working(v)' => ~failed'[v])
<1>0. Working(v)' = Working(v) /\ (~Working(v)' => ~failed'[v])
  BY DEF Local, Working, IInv, WorkersProgress
<1> SUFFICES ASSUME Working(v) PROVE Progress(v)'
  BY <1>0
<1>1. Progress(v)
  BY DEF IInv, WorkersProgress
<1>2. otask[v] \in Tasks /\ otask[v] # otask[w]
  BY DEF IInv, TypeOK, ExecutedOnce
<1>3. /\ opc'[v] = opc[v] /\ otask'[v] = otask[v]
      /\ attempt'[v] = attempt[v] /\ failed'[v] = failed[v]
      /\ done'[otask[v]] = done[otask[v]]
      /\ written'[otask[v]] = written[otask[v]]
      /\ leftover'[otask[v]] = leftover[otask[v]]
      /\ reports'[otask[v]] = reports[otask[v]]
      /\ last'[otask[v]] = last[otask[v]]
      /\ payload' = payload
  BY <1>2 DEF Local
<1>4. Announced(v)' = Announced(v) /\ Containers(v)' = Containers(v)
  BY <1>3 DEF Announced, Containers
<1>5. Limit(otask[v])' = Limit(otask[v])
  BY <1>3 DEF Limit
<1> QED BY <1>1, <1>3, <1>4, <1>5 DEF Progress

\* Nor are the records of other tasks.
LEMMA OthersRecord ==
  ASSUME IInv, NEW w \in Workers, Local(w), NEW t \in Tasks, t # otask[w]
  PROVE  TaskRecord(t)'
<1>1. TaskRecord(t)
  BY DEF IInv, TaskRecords
<1> QED BY <1>1 DEF Local, TaskRecord

\* A step within execute is right if it keeps the record of its own task and
\* the worker's own progress.
LEMMA StepWithinExecute ==
  ASSUME IInv, TypeOK', NEW w \in Workers, Local(w), Working(w),
         UNCHANGED <<source, otask, returned, raises>>,
         \A t \in Tasks : t = otask[w] => TaskRecord(t)', Progress(w)'
  PROVE  IInv'
<1>0. otask[w] \in Tasks
  BY DEF IInv, TypeOK
<1>1. SourceIsFresh'
  <2>1. ~InSource(otask[w])
    BY <1>0 DEF IInv, ExecutedOnce, Held
  <2>2. \A t \in Tasks : InSource(t)' => last'[t] = NoEvent /\ leftover'[t] = 0
    BY <2>1 DEF IInv, SourceIsFresh, InSource, Local
  <2> QED BY <2>2 DEF IInv, SourceIsFresh, NoEvent
<1>2. ExecutedOnce'
  BY DEF IInv, ExecutedOnce, InSource, Held
<1>3. TaskRecords'
  BY OthersRecord DEF TaskRecords
<1>4. WorkersProgress'
  <2>1. Working(w)'
    BY DEF IInv, TypeOK
  <2> QED BY <2>1, OthersProgress DEF WorkersProgress
<1>5. LossBoundedByRaises'
  <2>1. \A t \in Tasks : Lost(t)' <=> Lost(t)
    BY DEF Lost, InSource, Held
  <2>2. {t \in Tasks : Lost(t)}' = {t \in Tasks : Lost(t)}
    BY <2>1
  <2> QED BY <2>2 DEF IInv, LossBoundedByRaises
<1> QED BY <1>1, <1>2, <1>3, <1>4, <1>5 DEF IInv

-----------------------------------------------------------------------------
(* What a call that took effect leaves in the record of the task, whether or *)
(* not the worker survives it.                                              *)

\* What the worker's position says of its task.
LEMMA InExecute ==
  ASSUME IInv, NEW w \in Workers, Working(w)
  PROVE  /\ otask[w] \in Tasks
         /\ Progress(w) /\ TaskRecord(otask[w])
         /\ returned[otask[w]] = "none"
         /\ ~InSource(otask[w])
         /\ attempt[w] \in Nat \ {0} /\ attempt[w] <= Limit(otask[w])
         /\ Limit(otask[w]) \in Nat
         /\ payload[otask[w]].steps \in Nat
         /\ last[otask[w]] \in Event
         /\ failed[w] \in BOOLEAN
         /\ done[otask[w]] \in Nat /\ leftover[otask[w]] \in Nat
<1>1. otask[w] \in Tasks
  BY DEF IInv, TypeOK
<1>2. Progress(w) /\ TaskRecord(otask[w])
  BY <1>1 DEF IInv, WorkersProgress, TaskRecords
<1>3. returned[otask[w]] = "none" /\ ~InSource(otask[w])
  BY <1>1 DEF IInv, ExecutedOnce, Held
<1>4. Limit(otask[w]) \in Nat /\ payload[otask[w]].steps \in Nat
  BY <1>1, LimitPositive DEF IInv
<1>5. attempt[w] \in Nat \ {0} /\ attempt[w] <= Limit(otask[w])
  BY <1>2, <1>4 DEF Progress
<1>6. /\ last[otask[w]] \in Event /\ failed[w] \in BOOLEAN
      /\ done[otask[w]] \in Nat /\ leftover[otask[w]] \in Nat
  BY <1>1 DEF IInv, TypeOK
<1> QED BY <1>1, <1>2, <1>3, <1>4, <1>5, <1>6

\* TaskExecutionStarted, after the reports of the earlier attempts.
LEMMA StartedRecord ==
  ASSUME IInv, NEW w \in Workers, NEW t, t = otask[w], opc[w] = "started", Emit(w, "started"),
         UNCHANGED <<reports, returned, payload>>
  PROVE  TaskRecord(t)' /\ last' \in [Tasks -> Event]
<1> DEFINE a == attempt[w]
<1>1. Working(w)
  BY DEF Working
<1>2. t \in Tasks /\ Progress(w) /\ TaskRecord(t) /\ returned[t] = "none" /\ a \in Nat \ {0}
  BY <1>1, InExecute
<1>3. last[t] = IF a = 1 THEN NoEvent ELSE [kind |-> "retry", attempt |-> a - 1]
  BY <1>2 DEF Progress, Announced
<1>4. last'[t] = [kind |-> "started", attempt |-> a] /\ last' \in [Tasks -> Event]
  BY <1>2 DEF Emit, IInv, TypeOK, Event
<1>5. ASSUME NEW b \in 1..(a - 1)
      PROVE  [attempt |-> b, success |-> FALSE] \in reports[t]
  <2>1. last[t].kind = "retry" /\ last[t].attempt = a - 1
    BY <1>2, <1>3
  <2>2. CASE b = a - 1
    BY <1>2, <2>1, <2>2 DEF TaskRecord
  <2>3. CASE b # a - 1
    <3>1. b \in 1..(last[t].attempt - 1)
      BY <1>2, <2>1, <2>3
    <3> QED BY <1>2, <3>1 DEF TaskRecord
  <2> QED BY <2>2, <2>3
<1>6. \A r, q \in reports[t] : r.attempt = q.attempt => r = q
  BY <1>2 DEF TaskRecord
<1>7. /\ last'[t].kind = "started" /\ last'[t].attempt = a
      /\ reports' = reports /\ returned'[t] = "none"
  BY <1>2, <1>4
<1> QED BY <1>4, <1>5, <1>6, <1>7 DEF TaskRecord

\* The report of an attempt overwrites no report of another one.
LEMMA PersistedRecord ==
  ASSUME IInv, NEW w \in Workers, NEW t, t = otask[w], opc[w] = "persist", Put(w),
         UNCHANGED <<last, returned, written, done, payload>>
  PROVE  /\ TaskRecord(t)'
         /\ reports' \in [Tasks -> SUBSET Report]
         /\ [attempt |-> attempt[w], success |-> ~failed[w]] \in reports'[t]
<1> DEFINE a == attempt[w]
           new == [attempt |-> a, success |-> ~failed[w]]
<1>1. Working(w)
  BY DEF Working
<1>2. /\ t \in Tasks /\ Progress(w) /\ TaskRecord(t) /\ returned[t] = "none"
      /\ a \in Nat \ {0} /\ failed[w] \in BOOLEAN
  BY <1>1, InExecute
<1>3. last[t] = [kind |-> "started", attempt |-> a]
  BY <1>2 DEF Progress, Announced
<1>4. reports'[t] = {r \in reports[t] : r.attempt # a} \cup {new}
  BY <1>2 DEF Put, IInv, TypeOK
<1>5. reports[t] \subseteq Report /\ new \in Report
  BY <1>2 DEF IInv, TypeOK, Report
<1>6. reports' \in [Tasks -> SUBSET Report]
  <2>1. reports'[t] \subseteq Report
    BY <1>4, <1>5
  <2> QED BY <1>2, <1>4, <2>1 DEF Put, IInv, TypeOK
<1>7. ASSUME NEW b \in 1..(a - 1)
      PROVE  [attempt |-> b, success |-> FALSE] \in reports'[t]
  <2>1. [attempt |-> b, success |-> FALSE] \in reports[t] /\ b # a
    BY <1>2, <1>3 DEF TaskRecord
  <2> QED BY <1>4, <2>1
<1>8. \A r, q \in reports'[t] : r.attempt = q.attempt => r = q
  <2>1. \A r, q \in reports[t] : r.attempt = q.attempt => r = q
    BY <1>2 DEF TaskRecord
  <2>2. new.attempt = a
    OBVIOUS
  <2> QED BY <1>4, <2>1, <2>2
<1>9. last'[t].kind = "started" /\ last'[t].attempt = a /\ returned'[t] = "none"
  BY <1>2, <1>3
<1>10. new \in reports'[t]
  BY <1>4
<1> QED BY <1>6, <1>7, <1>8, <1>9, <1>10 DEF TaskRecord

\* The outcome event of an attempt says what its report says.
LEMMA OutcomeRecord ==
  ASSUME IInv, NEW w \in Workers, NEW t, t = otask[w], opc[w] = "outcome", Emit(w, Verdict(w)),
         UNCHANGED <<reports, written, done, payload>>,
         \/ returned'[t] = Verdict(w)
         \/ returned'[t] = "none"
  PROVE  TaskRecord(t)' /\ last' \in [Tasks -> Event]
<1> DEFINE a == attempt[w]
<1>1. Working(w)
  BY DEF Working
<1>2. /\ t \in Tasks /\ Progress(w) /\ TaskRecord(t) /\ a \in Nat \ {0}
      /\ failed[w] \in BOOLEAN
  BY <1>1, InExecute
<1>3. /\ last[t] = [kind |-> "started", attempt |-> a]
      /\ [attempt |-> a, success |-> ~failed[w]] \in reports[t]
      /\ ~failed[w] => written[t] = a /\ done[t] = payload[t].steps
  BY <1>2 DEF Progress, Announced
<1>4. /\ last'[t] = [kind |-> Verdict(w), attempt |-> a]
      /\ last' \in [Tasks -> Event]
  BY <1>2 DEF Emit, IInv, TypeOK, Event, Verdict
<1>5. last'[t].kind = Verdict(w) /\ last'[t].attempt = a
  BY <1>4
<1>6. Verdict(w) \in {"succeeded", "failed"} /\ (~failed[w] <=> Verdict(w) = "succeeded")
  BY DEF Verdict
<1>7. [attempt |-> last'[t].attempt, success |-> last'[t].kind = "succeeded"] \in reports[t]
  <2>1. (last'[t].kind = "succeeded") = ~failed[w]
    BY <1>2, <1>5, <1>6
  <2> QED BY <1>3, <1>5, <2>1
<1>8. \A b \in 1..(a - 1) : [attempt |-> b, success |-> FALSE] \in reports[t]
  <2>1. last[t].attempt = a
    BY <1>3
  <2> QED BY <1>2, <2>1 DEF TaskRecord
<1>9. \A r, q \in reports[t] : r.attempt = q.attempt => r = q
  BY <1>2 DEF TaskRecord
<1>10. /\ last'[t].kind # "retry"
       /\ last'[t].kind = "succeeded" =>
            written'[t] = last'[t].attempt /\ done'[t] = payload'[t].steps
  BY <1>3, <1>5, <1>6
<1>11. returned'[t] # "none" => last'[t].kind = returned'[t]
  BY <1>5
<1> QED BY <1>4, <1>5, <1>7, <1>8, <1>9, <1>10, <1>11 DEF TaskRecord

\* TaskExecutionRetry announces the next attempt after the report of this one.
LEMMA RetryRecord ==
  ASSUME IInv, NEW w \in Workers, NEW t, t = otask[w], opc[w] = "retry", Emit(w, "retry"),
         UNCHANGED <<reports, returned, payload>>
  PROVE  TaskRecord(t)' /\ last' \in [Tasks -> Event]
<1> DEFINE a == attempt[w]
<1>1. Working(w)
  BY DEF Working
<1>2. t \in Tasks /\ Progress(w) /\ TaskRecord(t) /\ returned[t] = "none" /\ a \in Nat \ {0}
  BY <1>1, InExecute
<1>3. last[t] = [kind |-> "failed", attempt |-> a]
  BY <1>2 DEF Progress, Announced
<1>4. last'[t] = [kind |-> "retry", attempt |-> a] /\ last' \in [Tasks -> Event]
  BY <1>2 DEF Emit, IInv, TypeOK, Event
<1>5. /\ [attempt |-> a, success |-> FALSE] \in reports[t]
      /\ \A b \in 1..(a - 1) : [attempt |-> b, success |-> FALSE] \in reports[t]
      /\ \A r, q \in reports[t] : r.attempt = q.attempt => r = q
  <2>1. last[t].kind = "failed" /\ last[t].attempt = a
    BY <1>3
  <2>2. [attempt |-> a, success |-> last[t].kind = "succeeded"] \in reports[t]
    BY <1>2, <2>1 DEF TaskRecord
  <2>3. (last[t].kind = "succeeded") = FALSE
    BY <2>1
  <2>4. [attempt |-> a, success |-> FALSE] \in reports[t]
    BY <2>2, <2>3
  <2> QED BY <1>2, <2>1, <2>4 DEF TaskRecord
<1>6. last'[t].kind = "retry" /\ last'[t].attempt = a /\ returned'[t] = "none"
  BY <1>2, <1>4
<1> QED BY <1>4, <1>5, <1>6 DEF TaskRecord

-----------------------------------------------------------------------------
(* One lemma per step of the worker.                                        *)

\* What claim, or a claim that raises, leaves in the source.
LEMMA SourceTail ==
  ASSUME IInv, source # <<>>, source' = Tail(source)
  PROVE  /\ Head(source) \in Tasks /\ source' \in Seq(Tasks)
         /\ InSource(Head(source))
         /\ \A i, j \in 1..Len(source') : source'[i] = source'[j] => i = j
         /\ \A u \in Tasks : InSource(u)' <=> u # Head(source) /\ InSource(u)
<1>1. source \in Seq(Tasks) /\ \A i, j \in 1..Len(source) : source[i] = source[j] => i = j
  BY DEF IInv, TypeOK, SourceIsFresh
<1>2. /\ Head(source) \in Tasks
      /\ Tail(source) \in Seq(Tasks)
      /\ \E i \in 1..Len(source) : source[i] = Head(source)
      /\ \A i, j \in 1..Len(Tail(source)) : Tail(source)[i] = Tail(source)[j] => i = j
      /\ \A t \in Tasks :
           (\E i \in 1..Len(Tail(source)) : Tail(source)[i] = t)
             <=> t # Head(source) /\ \E i \in 1..Len(source) : source[i] = t
  BY <1>1, ClaimRemoves
<1> QED BY <1>2 DEF InSource

LEMMA ClaimStep ==
  ASSUME IInv, NEW w \in Workers, Claim(w)
  PROVE  IInv'
<1>0. PICK t : t = Head(source)
  OBVIOUS
<1>1. /\ opc[w] = "claim" /\ source # <<>> /\ source' = Tail(source)
      /\ otask' = [otask EXCEPT ![w] = t]
      /\ attempt' = [attempt EXCEPT ![w] = 1]
      /\ opc' = [opc EXCEPT ![w] = "create"]
      /\ UNCHANGED <<payload, stop, failed, done, written, leftover, reports, last, returned, raises>>
  BY <1>0 DEF Claim, PopTask, Goto, taskVars
<1>2. /\ t \in Tasks /\ source' \in Seq(Tasks) /\ InSource(t)
      /\ \A i, j \in 1..Len(source') : source'[i] = source'[j] => i = j
      /\ \A u \in Tasks : InSource(u)' <=> u # t /\ InSource(u)
  BY <1>0, <1>1, SourceTail
<1>3. /\ otask[w] = NoTask /\ t # NoTask /\ NoTask \notin Tasks
      /\ \A v \in Workers : otask[v] # t
      /\ returned[t] = "none"
  BY <1>1, <1>2, OpenClawAssumption DEF IInv, TypeOK, Working, ExecutedOnce, Held
<1>4. TypeOK'
  BY <1>1, <1>2, <1>3 DEF IInv, TypeOK, WorkerPc, Working
<1>5. SourceIsFresh'
  BY <1>1, <1>2 DEF IInv, SourceIsFresh, NoEvent
<1>6. \A v \in Workers : otask'[v] = IF v = w THEN t ELSE otask[v]
  BY <1>1 DEF IInv, TypeOK
<1>7. ExecutedOnce'
  <2>1. \A u \in Tasks : Held(u)' <=> Held(u) \/ u = t
    BY <1>2, <1>3, <1>6 DEF Held
  <2>2. ASSUME NEW u \in Tasks
        PROVE  /\ \A v, x \in Workers : otask'[v] = u /\ otask'[x] = u => v = x
               /\ Held(u)' \/ returned'[u] # "none" => ~InSource(u)'
               /\ Held(u)' => returned'[u] = "none"
    BY <1>1, <1>2, <1>3, <1>6, <2>1 DEF IInv, ExecutedOnce
  <2> QED BY <2>2 DEF ExecutedOnce
<1>8. TaskRecords'
  BY <1>1 DEF IInv, TaskRecords, TaskRecord
<1>9. WorkersProgress'
  <2>1. Local(w)
    BY <1>1 DEF IInv, TypeOK, Local
  <2>2. Progress(w)'
    <3>1. opc'[w] = "create" /\ attempt'[w] = 1 /\ otask'[w] = t
      BY <1>1 DEF IInv, TypeOK
    <3>2. last'[t] = NoEvent /\ leftover'[t] = 0
      BY <1>1, <1>2 DEF IInv, SourceIsFresh
    <3>6. ~failed'[w]
      BY <1>1 DEF IInv, WorkersProgress, Working
    <3>3. Announced(w)' = NoEvent /\ Containers(w)' = 0
      BY <3>1 DEF Announced, Containers, NoEvent
    <3>4. 1 \in 1..Limit(t)
      BY <1>2, LimitPositive DEF IInv
    <3>5. Limit(t)' = Limit(t)
      BY <1>1, <1>2, <3>1 DEF Limit
    <3> QED BY <3>1, <3>2, <3>3, <3>4, <3>5, <3>6 DEF Progress
  <2>3. Working(w)'
    BY <1>1 DEF IInv, TypeOK, Working
  <2> QED BY <2>1, <2>2, <2>3, OthersProgress DEF WorkersProgress
<1>10. LossBoundedByRaises'
  <2>1. {u \in Tasks : Lost(u)}' \subseteq {u \in Tasks : Lost(u)}
    BY <1>1, <1>2, <1>3, <1>6 DEF Lost, Held
  <2> QED BY <1>1, <2>1, LossStep DEF IInv, TypeOK, LossBoundedByRaises
<1> QED BY <1>4, <1>5, <1>7, <1>8, <1>9, <1>10 DEF IInv

LEMMA ReturnStep ==
  ASSUME IInv, NEW w \in Workers, Return(w)
  PROVE  IInv'
<1>1. /\ opc[w] = "claim" /\ opc' = [opc EXCEPT ![w] = "returned"]
      /\ UNCHANGED <<payload, source, stop, otask, attempt, failed, done, written,
                     leftover, reports, last, returned, raises>>
  BY DEF Return, Goto, taskVars
<1>2. TypeOK'
  BY <1>1 DEF IInv, TypeOK, WorkerPc, Working
<1>3. SourceIsFresh' /\ ExecutedOnce' /\ TaskRecords'
  BY <1>1 DEF IInv, SourceIsFresh, ExecutedOnce, TaskRecords, TaskRecord, InSource, Held,
              NoEvent
<1>4. WorkersProgress'
  <2>1. Local(w) /\ ~Working(w)' /\ ~failed'[w]
    BY <1>1 DEF IInv, TypeOK, Local, Working, WorkersProgress
  <2> QED BY <2>1, OthersProgress DEF WorkersProgress
<1>5. LossBoundedByRaises'
  <2>1. {u \in Tasks : Lost(u)}' = {u \in Tasks : Lost(u)}
    BY <1>1 DEF Lost, InSource, Held
  <2> QED BY <1>1, <2>1 DEF IInv, LossBoundedByRaises
<1> QED BY <1>2, <1>3, <1>4, <1>5 DEF IInv

LEMMA CreateStep ==
  ASSUME IInv, NEW w \in Workers, Create(w)
  PROVE  IInv'
<1>0. PICK t : t = otask[w]
  OBVIOUS
<1>1. PICK n \in InitBranch :
        /\ t = otask[w] /\ opc[w] = "create"
        /\ opc' = [opc EXCEPT ![w] = "started"]
        /\ leftover' = [leftover EXCEPT ![t] = @ + n]
        /\ UNCHANGED <<payload, source, stop, otask, attempt, failed, done, written,
                       reports, last, returned, raises>>
  BY <1>0 DEF Create, Goto
<1>2. Working(w)
  BY <1>1 DEF Working
<1>3. /\ t \in Tasks /\ Progress(w) /\ TaskRecord(t) /\ leftover[t] \in Nat
      /\ attempt[w] \in Nat \ {0}
  BY <1>1, <1>2, InExecute
<1>4. n \in 0..1 /\ (~Docker => n = 0)
  BY ContainersAdded
<1>5. TypeOK'
  BY <1>1, <1>2, <1>3, <1>4 DEF IInv, TypeOK, WorkerPc, Working
<1>6. Local(w)
  BY <1>1, <1>3 DEF IInv, TypeOK, Local
<1>7. TaskRecord(t)'
  BY <1>1, <1>3 DEF TaskRecord
<1>8. Progress(w)'
  <2>1. opc'[w] = "started" /\ leftover'[t] = leftover[t] + n
    BY <1>1, <1>3 DEF IInv, TypeOK
  <2>2. Announced(w)' = Announced(w)
    BY <1>1, <2>1 DEF Announced
  <2>3. leftover'[t] <= Containers(w)'
    BY <1>1, <1>3, <1>4, <2>1, OpenClawAssumption DEF Containers, Progress
  <2>4. Limit(t)' = Limit(t)
    BY <1>1 DEF Limit
  <2> QED BY <1>1, <1>3, <2>1, <2>2, <2>3, <2>4 DEF Progress
<1> QED BY <1>1, <1>2, <1>5, <1>6, <1>7, <1>8, StepWithinExecute

LEMMA EmitStartedStep ==
  ASSUME IInv, NEW w \in Workers, EmitStarted(w)
  PROVE  IInv'
<1>1. PICK t :
        /\ t = otask[w] /\ opc[w] = "started"
        /\ Emit(w, "started")
        /\ done' = [done EXCEPT ![t] = 0]
        /\ \/ /\ payload[t].generate
              /\ opc' = [opc EXCEPT ![w] = "generate"]
              /\ UNCHANGED written
           \/ /\ ~payload[t].generate
              /\ written' = [written EXCEPT ![t] = attempt[w]]
              /\ opc' = [opc EXCEPT ![w] = IF payload[t].steps = 0 THEN "persist" ELSE "step"]
        /\ UNCHANGED <<payload, source, stop, otask, attempt, failed, leftover,
                       reports, returned, raises>>
  BY DEF EmitStarted, Goto, Materialize
<1>2. Working(w)
  BY <1>1 DEF Working
<1>3. /\ t \in Tasks /\ Progress(w) /\ attempt[w] \in Nat \ {0}
      /\ payload[t].steps \in Nat
  BY <1>1, <1>2, InExecute
<1>4. TaskRecord(t)' /\ last' \in [Tasks -> Event]
  BY <1>1, StartedRecord
<1>5. TypeOK'
  BY <1>1, <1>2, <1>3, <1>4 DEF IInv, TypeOK, WorkerPc, Working
<1>6. Local(w)
  BY <1>1, <1>3 DEF IInv, TypeOK, Local, Emit
<1>7. Progress(w)'
  <2>1. /\ opc'[w] \in {"generate", "persist", "step"} /\ done'[t] = 0
        /\ last'[t] = [kind |-> "started", attempt |-> attempt[w]]
        /\ opc'[w] # "generate" =>
             /\ written'[t] = attempt[w]
             /\ opc'[w] = "persist" <=> payload[t].steps = 0
    BY <1>1, <1>3 DEF IInv, TypeOK, Emit
  <2>2. ~failed[w] /\ attempt[w] \in 1..Limit(t) /\ leftover[t] <= Containers(w)
    BY <1>1, <1>3 DEF Progress
  <2>3. Announced(w)' = last'[t]
    BY <1>1, <2>1 DEF Announced
  <2>4. Containers(w)' = Containers(w)
    BY <1>1, <2>1 DEF Containers
  <2>5. Limit(t)' = Limit(t)
    BY <1>1 DEF Limit
  <2> QED BY <1>1, <1>3, <2>1, <2>2, <2>3, <2>4, <2>5 DEF Progress
<1> QED BY <1>1, <1>2, <1>4, <1>5, <1>6, <1>7, StepWithinExecute

LEMMA GenerateStep ==
  ASSUME IInv, NEW w \in Workers, Generate(w)
  PROVE  IInv'
<1>1. PICK t :
        /\ t = otask[w] /\ opc[w] = "generate"
        /\ \/ /\ opc' = [opc EXCEPT ![w] = "persist"]
              /\ failed' = [failed EXCEPT ![w] = TRUE]
           \/ opc' = [opc EXCEPT ![w] = "generated"] /\ UNCHANGED failed
        /\ UNCHANGED <<payload, source, stop, otask, attempt, done, written,
                       leftover, reports, last, returned, raises>>
  BY DEF Generate, FailGeneration, Goto, taskVars
<1>2. Working(w)
  BY <1>1 DEF Working
<1>3. t \in Tasks /\ Progress(w) /\ TaskRecord(t) /\ attempt[w] \in Nat /\ leftover[t] \in Nat
  BY <1>1, <1>2, InExecute
<1>4. TypeOK'
  BY <1>1, <1>2 DEF IInv, TypeOK, WorkerPc, Working
<1>5. Local(w)
  BY <1>1 DEF IInv, TypeOK, Local
<1>6. TaskRecord(t)'
  BY <1>1, <1>3 DEF TaskRecord
<1>7. Progress(w)'
  <2>0. ~failed[w]
    BY <1>1, <1>3 DEF Progress
  <2>1. \/ opc'[w] = "generated" /\ ~failed'[w]
        \/ opc'[w] = "persist" /\ failed'[w]
    <3>1. opc \in [Workers -> WorkerPc] /\ failed \in [Workers -> BOOLEAN]
      BY DEF IInv, TypeOK
    <3>2. CASE opc' = [opc EXCEPT ![w] = "generated"] /\ UNCHANGED failed
      <4>1. opc'[w] = "generated" /\ failed'[w] = failed[w]
        BY <3>1, <3>2
      <4> QED BY <2>0, <4>1
    <3>3. CASE /\ opc' = [opc EXCEPT ![w] = "persist"]
               /\ failed' = [failed EXCEPT ![w] = TRUE]
      BY <3>1, <3>3, Zenon
    <3> QED BY <1>1, <3>2, <3>3
  <2>2. Announced(w)' = Announced(w)
    BY <1>1, <2>1 DEF Announced
  <2>3. leftover'[t] <= Containers(w)'
    BY <1>1, <1>3, <2>1 DEF Containers, Progress
  <2>4. Limit(t)' = Limit(t)
    BY <1>1 DEF Limit
  <2> QED BY <1>1, <1>3, <2>1, <2>2, <2>3, <2>4 DEF Progress
<1> QED BY <1>1, <1>2, <1>4, <1>5, <1>6, <1>7, StepWithinExecute

LEMMA EmitGeneratedStep ==
  ASSUME IInv, NEW w \in Workers, EmitGenerated(w)
  PROVE  IInv'
<1>1. PICK t :
        /\ t = otask[w] /\ opc[w] = "generated"
        /\ written' = [written EXCEPT ![t] = attempt[w]]
        /\ opc' = [opc EXCEPT ![w] = IF payload[t].steps = 0 THEN "persist" ELSE "step"]
        /\ UNCHANGED <<payload, source, stop, otask, attempt, failed, done,
                       leftover, reports, last, returned, raises>>
  BY DEF EmitGenerated, Goto, Materialize
<1>2. Working(w)
  BY <1>1 DEF Working
<1>3. /\ t \in Tasks /\ Progress(w) /\ TaskRecord(t)
      /\ attempt[w] \in Nat /\ payload[t].steps \in Nat
  BY <1>1, <1>2, InExecute
<1>4. TypeOK'
  BY <1>1, <1>2, <1>3 DEF IInv, TypeOK, WorkerPc, Working
<1>5. Local(w)
  BY <1>1, <1>3 DEF IInv, TypeOK, Local
<1>6. /\ ~failed[w] /\ attempt[w] \in 1..Limit(t) /\ leftover[t] <= Containers(w)
      /\ done[t] = 0 /\ last[t] = [kind |-> "started", attempt |-> attempt[w]]
  BY <1>1, <1>3 DEF Progress, Announced
<1>7. TaskRecord(t)'
  BY <1>1, <1>3, <1>6 DEF TaskRecord
<1>8. Progress(w)'
  <2>1. /\ opc'[w] \in {"persist", "step"} /\ written'[t] = attempt[w]
        /\ opc'[w] = "persist" <=> payload[t].steps = 0
    BY <1>1, <1>3 DEF IInv, TypeOK
  <2>2. Announced(w)' = last'[t]
    BY <1>1, <1>6, <2>1 DEF Announced
  <2>3. Containers(w)' = Containers(w)
    BY <1>1, <2>1 DEF Containers
  <2>4. Limit(t)' = Limit(t)
    BY <1>1 DEF Limit
  <2> QED BY <1>1, <1>3, <1>6, <2>1, <2>2, <2>3, <2>4 DEF Progress
<1> QED BY <1>1, <1>2, <1>4, <1>5, <1>7, <1>8, StepWithinExecute

LEMMA RunStepStep ==
  ASSUME IInv, NEW w \in Workers, RunStep(w)
  PROVE  IInv'
<1>0. PICK t : t = otask[w]
  OBVIOUS
<1>1. PICK result \in CommandResults :
        /\ opc[w] = "step"
        /\ failed' = [failed EXCEPT ![w] = ~Success(result)]
        /\ leftover' = [leftover EXCEPT ![t] = @ + Added(result)]
        /\ done' = [done EXCEPT ![t] = @ + 1]
        /\ opc' = [opc EXCEPT ![w] = "stepped"]
        /\ UNCHANGED <<payload, source, stop, otask, attempt, written, reports,
                       last, returned, raises>>
  BY <1>0 DEF RunStep, Goto
<1>2. Working(w)
  BY <1>1 DEF Working
<1>3. /\ t \in Tasks /\ Progress(w) /\ TaskRecord(t)
      /\ attempt[w] \in Nat \ {0} /\ payload[t].steps \in Nat
      /\ done[t] \in Nat /\ leftover[t] \in Nat
  BY <1>0, <1>2, InExecute
<1>4. Added(result) \in 0..1 /\ (~Docker \/ Success(result) => Added(result) = 0)
  BY ContainersAdded
<1>5. TypeOK'
  <2>1. Success(result) \in BOOLEAN
    BY DEF Success, CommandResults
  <2>2. failed' \in [Workers -> BOOLEAN]
    BY <1>1, <2>1 DEF IInv, TypeOK
  <2>3. /\ done' \in [Tasks -> Nat] /\ leftover' \in [Tasks -> Nat]
        /\ opc' \in [Workers -> WorkerPc]
    BY <1>1, <1>3, <1>4 DEF IInv, TypeOK, WorkerPc
  <2>4. \A v \in Workers : otask'[v] # NoTask <=> Working(v)'
    BY <1>1, <1>2 DEF IInv, TypeOK, Working
  <2> QED BY <1>1, <2>2, <2>3, <2>4 DEF IInv, TypeOK
<1>6. Local(w)
  BY <1>0, <1>1, <1>3 DEF IInv, TypeOK, Local
<1>7. /\ ~failed[w] /\ attempt[w] \in 1..Limit(t) /\ leftover[t] <= Containers(w)
      /\ done[t] < payload[t].steps /\ written[t] = attempt[w]
      /\ last[t] = [kind |-> "started", attempt |-> attempt[w]]
  BY <1>0, <1>1, <1>3 DEF Progress, Announced
<1>8. TaskRecord(t)'
  BY <1>1, <1>3, <1>7 DEF TaskRecord
<1>9. Progress(w)'
  <2>1. /\ opc'[w] = "stepped" /\ failed'[w] = ~Success(result)
        /\ done'[t] = done[t] + 1 /\ leftover'[t] = leftover[t] + Added(result)
    BY <1>1, <1>3 DEF IInv, TypeOK
  <2>2. Announced(w)' = last'[t]
    BY <1>1, <1>7, <2>1 DEF Announced
  <2>3. leftover'[t] <= Containers(w)'
    <3>1. Containers(w) = IF Docker THEN 2 * attempt[w] - 1 ELSE 0
      BY <1>1, <1>7 DEF Containers
    <3>2. Containers(w)' = IF ~Docker THEN 0
                           ELSE IF Success(result) THEN 2 * attempt[w] - 1
                           ELSE 2 * attempt[w]
      BY <1>1, <2>1 DEF Containers
    <3> QED BY <1>3, <1>4, <1>7, <2>1, <3>1, <3>2, OpenClawAssumption
  <2>4. Limit(t)' = Limit(t)
    BY <1>1 DEF Limit
  <2>5. done'[t] <= payload'[t].steps
    BY <1>1, <1>3, <1>7, <2>1
  <2> QED BY <1>0, <1>1, <1>7, <2>1, <2>2, <2>3, <2>4, <2>5 DEF Progress
<1> QED BY <1>0, <1>1, <1>2, <1>5, <1>6, <1>8, <1>9, StepWithinExecute

LEMMA EmitStepStep ==
  ASSUME IInv, NEW w \in Workers, EmitStep(w)
  PROVE  IInv'
<1>1. PICK t :
        /\ t = otask[w] /\ opc[w] = "stepped"
        /\ opc' = [opc EXCEPT ![w] = IF failed[w] \/ done[t] >= payload[t].steps
                                     THEN "persist" ELSE "step"]
        /\ UNCHANGED <<payload, source, stop, otask, attempt, failed, done, written,
                       leftover, reports, last, returned, raises>>
  BY DEF EmitStep, Goto, taskVars
<1>2. Working(w)
  BY <1>1 DEF Working
<1>3. /\ t \in Tasks /\ Progress(w) /\ TaskRecord(t)
      /\ payload[t].steps \in Nat /\ done[t] \in Nat
  BY <1>1, <1>2, InExecute
<1>4. TypeOK'
  BY <1>1, <1>2 DEF IInv, TypeOK, WorkerPc, Working
<1>5. Local(w)
  BY <1>1 DEF IInv, TypeOK, Local
<1>6. TaskRecord(t)'
  BY <1>1, <1>3 DEF TaskRecord
<1>7. Progress(w)'
  <2>1. /\ opc'[w] \in {"persist", "step"}
        /\ opc'[w] = "persist" <=> failed[w] \/ done[t] >= payload[t].steps
    BY <1>1 DEF IInv, TypeOK
  <2>2. /\ attempt[w] \in 1..Limit(t) /\ leftover[t] <= Containers(w)
        /\ done[t] <= payload[t].steps /\ written[t] = attempt[w]
        /\ last[t] = [kind |-> "started", attempt |-> attempt[w]]
    BY <1>1, <1>3 DEF Progress, Announced
  <2>3. Announced(w)' = last'[t]
    BY <1>1, <2>1, <2>2 DEF Announced
  <2>4. Containers(w)' = Containers(w)
    BY <1>1, <2>1 DEF Containers
  <2>5. Limit(t)' = Limit(t)
    BY <1>1 DEF Limit
  <2>6. /\ opc'[w] = "step" => ~failed'[w] /\ done'[t] < payload'[t].steps
        /\ opc'[w] = "persist" /\ ~failed'[w] => done'[t] = payload'[t].steps
    BY <1>1, <1>3, <2>1, <2>2
  <2> QED BY <1>1, <2>1, <2>2, <2>3, <2>4, <2>5, <2>6 DEF Progress
<1> QED BY <1>1, <1>2, <1>4, <1>5, <1>6, <1>7, StepWithinExecute

LEMMA PersistStep ==
  ASSUME IInv, NEW w \in Workers, Persist(w)
  PROVE  IInv'
<1>1. PICK t :
        /\ t = otask[w] /\ opc[w] = "persist"
        /\ Put(w)
        /\ opc' = [opc EXCEPT ![w] = "outcome"]
        /\ UNCHANGED <<payload, source, stop, otask, attempt, failed, done, written,
                       leftover, last, returned, raises>>
  BY DEF Persist, Goto
<1>2. Working(w)
  BY <1>1 DEF Working
<1>3. t \in Tasks /\ Progress(w)
  BY <1>1, <1>2, InExecute
<1>4. /\ TaskRecord(t)' /\ reports' \in [Tasks -> SUBSET Report]
      /\ [attempt |-> attempt[w], success |-> ~failed[w]] \in reports'[t]
  BY <1>1, PersistedRecord
<1>5. TypeOK'
  BY <1>1, <1>2, <1>4 DEF IInv, TypeOK, WorkerPc, Working
<1>6. Local(w)
  BY <1>1, <1>3 DEF IInv, TypeOK, Local, Put
<1>7. Progress(w)'
  <2>1. opc'[w] = "outcome"
    BY <1>1 DEF IInv, TypeOK
  <2>2. Announced(w)' = Announced(w) /\ Containers(w)' = Containers(w)
    BY <1>1, <2>1 DEF Announced, Containers
  <2>3. Limit(t)' = Limit(t)
    BY <1>1 DEF Limit
  <2> QED BY <1>1, <1>3, <1>4, <2>1, <2>2, <2>3 DEF Progress
<1> QED BY <1>1, <1>2, <1>4, <1>5, <1>6, <1>7, StepWithinExecute

LEMMA EmitRetryStep ==
  ASSUME IInv, NEW w \in Workers, EmitRetry(w)
  PROVE  IInv'
<1>1. PICK t :
        /\ t = otask[w] /\ opc[w] = "retry"
        /\ Emit(w, "retry")
        /\ attempt' = [attempt EXCEPT ![w] = @ + 1]
        /\ failed' = [failed EXCEPT ![w] = FALSE]
        /\ opc' = [opc EXCEPT ![w] = "create"]
        /\ UNCHANGED <<payload, source, stop, otask, done, written, leftover,
                       reports, returned, raises>>
  BY DEF EmitRetry, Goto
<1>2. Working(w)
  BY <1>1 DEF Working
<1>3. /\ t \in Tasks /\ Progress(w) /\ attempt[w] \in Nat \ {0} /\ Limit(t) \in Nat
      /\ leftover[t] \in Nat
  BY <1>1, <1>2, InExecute
<1>4. TaskRecord(t)' /\ last' \in [Tasks -> Event]
  BY <1>1, RetryRecord
<1>5. TypeOK'
  BY <1>1, <1>2, <1>4 DEF IInv, TypeOK, WorkerPc, Working
<1>6. Local(w)
  BY <1>1, <1>3 DEF IInv, TypeOK, Local, Emit
<1>7. Progress(w)'
  <2>1. /\ opc'[w] = "create" /\ attempt'[w] = attempt[w] + 1 /\ failed'[w] = FALSE
        /\ last'[t] = [kind |-> "retry", attempt |-> attempt[w]]
    BY <1>1, <1>3 DEF IInv, TypeOK, Emit
  <2>2. failed[w] /\ attempt[w] < Limit(t) /\ leftover[t] <= Containers(w)
    BY <1>1, <1>3 DEF Progress
  <2>3. Announced(w)' = last'[t]
    BY <1>3, <2>1 DEF Announced
  <2>4. leftover'[t] <= Containers(w)'
    BY <1>1, <1>3, <2>1, <2>2 DEF Containers
  <2>5. Limit(t)' = Limit(t)
    BY <1>1 DEF Limit
  <2>6. attempt'[w] \in 1..Limit(t)
    BY <1>3, <2>1, <2>2
  <2> QED BY <1>1, <2>1, <2>3, <2>4, <2>5, <2>6 DEF Progress
<1> QED BY <1>1, <1>2, <1>4, <1>5, <1>6, <1>7, StepWithinExecute

\* A failed attempt with another one left stays in execute.
LEMMA AttemptFailsStep ==
  ASSUME IInv, NEW w \in Workers, EmitOutcome(w),
         failed[w], attempt[w] < Limit(otask[w])
  PROVE  IInv'
<1>1. PICK t :
        /\ t = otask[w] /\ opc[w] = "outcome"
        /\ Emit(w, Verdict(w)) /\ Verdict(w) = "failed"
        /\ opc' = [opc EXCEPT ![w] = "retry"]
        /\ UNCHANGED <<payload, source, stop, otask, attempt, failed, done, written,
                       leftover, reports, returned, raises>>
  BY DEF EmitOutcome, Goto, Verdict
<1>2. Working(w)
  BY <1>1 DEF Working
<1>3. t \in Tasks /\ Progress(w) /\ returned[t] = "none"
  BY <1>1, <1>2, InExecute
<1>4. TaskRecord(t)' /\ last' \in [Tasks -> Event]
  BY <1>1, <1>3, OutcomeRecord
<1>5. TypeOK'
  BY <1>1, <1>2, <1>4 DEF IInv, TypeOK, WorkerPc, Working
<1>6. Local(w)
  BY <1>1, <1>3 DEF IInv, TypeOK, Local, Emit
<1>7. Progress(w)'
  <2>1. /\ opc'[w] = "retry"
        /\ last'[t] = [kind |-> "failed", attempt |-> attempt[w]]
    BY <1>1, <1>3 DEF IInv, TypeOK, Emit
  <2>2. Announced(w)' = last'[t] /\ Containers(w)' = Containers(w)
    BY <1>1, <2>1 DEF Announced, Containers
  <2>3. Limit(t)' = Limit(t)
    BY <1>1 DEF Limit
  <2> QED BY <1>1, <1>3, <2>1, <2>2, <2>3 DEF Progress
<1> QED BY <1>1, <1>2, <1>4, <1>5, <1>6, <1>7, StepWithinExecute

\* Execute is left, by a return or by an exception that may have come after
\* the effect of the awaited call.
LEMMA ExecuteIsLeft ==
  ASSUME IInv, NEW w \in Workers, Local(w),
         NEW pc \in {"claim", "dead"}, opc' = [opc EXCEPT ![w] = pc],
         otask' = [otask EXCEPT ![w] = NoTask],
         attempt' = [attempt EXCEPT ![w] = 0],
         failed' = [failed EXCEPT ![w] = FALSE],
         UNCHANGED <<payload, stop, done, written, leftover>>,
         last' \in [Tasks -> Event],
         reports' \in [Tasks -> SUBSET Report],
         returned' \in [Tasks -> {"none", "succeeded", "failed"}],
         raises' \in Nat, source' \in Seq(Tasks),
         \A i, j \in 1..Len(source') : source'[i] = source'[j] => i = j,
         \A u \in Tasks : InSource(u)' => InSource(u),
         \A t \in Tasks : t = otask[w] => TaskRecord(t)'
  PROVE  TypeOK' /\ SourceIsFresh' /\ ExecutedOnce' /\ TaskRecords' /\ WorkersProgress'
<1>1. TypeOK'
  BY DEF IInv, TypeOK, WorkerPc, Working
<1>2. \A u \in Tasks : InSource(u) => u # otask[w]
  BY DEF IInv, ExecutedOnce, Held
<1>3. SourceIsFresh'
  <2>1. ASSUME NEW u \in Tasks, InSource(u)'
        PROVE  last'[u] = NoEvent /\ leftover'[u] = 0
    BY <1>2, <2>1 DEF IInv, SourceIsFresh, Local
  <2> QED BY <2>1 DEF SourceIsFresh, NoEvent
<1>4. \A v \in Workers : otask'[v] = IF v = w THEN NoTask ELSE otask[v]
  BY DEF IInv, TypeOK
<1>5. ExecutedOnce'
  <2>1. ASSUME NEW u \in Tasks
        PROVE  /\ \A v, x \in Workers : otask'[v] = u /\ otask'[x] = u => v = x
               /\ Held(u)' => Held(u) /\ u # otask[w]
    BY <1>4, OpenClawAssumption DEF IInv, ExecutedOnce, Held
  <2>2. ASSUME NEW u \in Tasks
        PROVE  /\ Held(u)' \/ returned'[u] # "none" => ~InSource(u)'
               /\ Held(u)' => returned'[u] = "none"
    <3>1. CASE u = otask[w]
      BY <1>2, <2>1, <3>1
    <3>2. CASE u # otask[w]
      <4>1. returned'[u] = returned[u]
        BY <3>2 DEF Local
      <4> QED BY <2>1, <4>1 DEF IInv, ExecutedOnce
    <3> QED BY <3>1, <3>2
  <2> QED BY <2>1, <2>2 DEF ExecutedOnce
<1>6. TaskRecords'
  BY OthersRecord DEF TaskRecords
<1>7. WorkersProgress'
  <2>1. ~Working(w)' /\ ~failed'[w]
    BY DEF IInv, TypeOK, Working
  <2> QED BY <2>1, OthersProgress DEF WorkersProgress
<1> QED BY <1>1, <1>3, <1>5, <1>6, <1>7

\* The last attempt: execute returns its verdict.
LEMMA VerdictStep ==
  ASSUME IInv, NEW w \in Workers, EmitOutcome(w),
         ~(failed[w] /\ attempt[w] < Limit(otask[w]))
  PROVE  IInv'
<1>1. PICK t :
        /\ t = otask[w] /\ opc[w] = "outcome"
        /\ Emit(w, Verdict(w)) /\ Verdict(w) \in {"failed", "succeeded"}
        /\ opc' = [opc EXCEPT ![w] = "claim"]
        /\ returned' = [returned EXCEPT ![t] = Verdict(w)]
        /\ otask' = [otask EXCEPT ![w] = NoTask]
        /\ attempt' = [attempt EXCEPT ![w] = 0]
        /\ failed' = [failed EXCEPT ![w] = FALSE]
        /\ UNCHANGED <<payload, source, stop, done, written, leftover, reports, raises>>
  BY DEF EmitOutcome, Finish, Goto, Verdict
<1>2. Working(w)
  BY <1>1 DEF Working
<1>3. t \in Tasks
  BY <1>1, <1>2, InExecute
<1>4. /\ returned'[t] = Verdict(w)
      /\ returned' \in [Tasks -> {"none", "succeeded", "failed"}]
  BY <1>1, <1>3 DEF IInv, TypeOK
<1>5. TaskRecord(t)' /\ last' \in [Tasks -> Event]
  BY <1>1, <1>4, OutcomeRecord
<1>6. Local(w)
  BY <1>1, <1>3 DEF IInv, TypeOK, Local, Emit
<1>7. /\ source' \in Seq(Tasks) /\ raises' \in Nat
      /\ reports' \in [Tasks -> SUBSET Report]
      /\ \A i, j \in 1..Len(source') : source'[i] = source'[j] => i = j
      /\ \A u \in Tasks : InSource(u)' <=> InSource(u)
  BY <1>1 DEF IInv, TypeOK, SourceIsFresh, InSource
<1>8. TypeOK' /\ SourceIsFresh' /\ ExecutedOnce' /\ TaskRecords' /\ WorkersProgress'
  BY <1>1, <1>4, <1>5, <1>6, <1>7, ExecuteIsLeft
<1>9. LossBoundedByRaises'
  <2>1. ASSUME NEW u \in Tasks, Lost(u)'
        PROVE  Lost(u)
    <3>1. u # t /\ returned[u] = "none"
      BY <1>1, <1>3, <1>4, <2>1 DEF Lost, IInv, TypeOK
    <3>2. Held(u) => Held(u)'
      BY <1>1, <3>1 DEF Held, IInv, TypeOK
    <3> QED BY <1>7, <2>1, <3>1, <3>2 DEF Lost
  <2>2. {u \in Tasks : Lost(u)}' \subseteq {u \in Tasks : Lost(u)}
    BY <2>1
  <2> QED BY <1>1, <2>2, LossStep DEF IInv, TypeOK, LossBoundedByRaises
<1> QED BY <1>8, <1>9 DEF IInv

LEMMA RaiseStep ==
  ASSUME IInv, NEW w \in Workers, Raise(w)
  PROVE  IInv'
<1>1. PICK t : t = otask[w]
  OBVIOUS
<1>2. /\ opc[w] \notin {"returned", "dead"} /\ raises' = raises + 1
      /\ opc' = [opc EXCEPT ![w] = "dead"]
      /\ otask' = [otask EXCEPT ![w] = NoTask]
      /\ attempt' = [attempt EXCEPT ![w] = 0]
      /\ failed' = [failed EXCEPT ![w] = FALSE]
      /\ UNCHANGED <<payload, stop, done, written, leftover, returned>>
  BY DEF Raise, Goto
<1>3. /\ \A v \in Workers : otask'[v] = IF v = w THEN NoTask ELSE otask[v]
      /\ raises' \in Nat
      /\ returned' \in [Tasks -> {"none", "succeeded", "failed"}]
      /\ t \in Tasks \/ t = NoTask
  BY <1>1, <1>2 DEF IInv, TypeOK
<1>4. CASE UNCHANGED source
  <2>1. /\ source' \in Seq(Tasks)
        /\ \A i, j \in 1..Len(source') : source'[i] = source'[j] => i = j
        /\ \A u \in Tasks : InSource(u)' <=> InSource(u)
    BY <1>4 DEF IInv, TypeOK, SourceIsFresh, InSource
  <2> SUFFICES ASSUME /\ last' \in [Tasks -> Event]
                      /\ reports' \in [Tasks -> SUBSET Report]
                      /\ t \in Tasks => TaskRecord(t)'
                      /\ Local(w)
               PROVE  IInv'
    <3>1. CASE UNCHANGED <<reports, last>>
      <4>1. t \in Tasks => TaskRecord(t)'
        BY <1>2, <3>1 DEF IInv, TaskRecords, TaskRecord
      <4>2. Local(w)
        BY <1>2, <3>1 DEF IInv, TypeOK, Local
      <4> QED BY <3>1, <4>1, <4>2 DEF IInv, TypeOK
    <3>2. CASE opc[w] = "started" /\ Emit(w, "started") /\ UNCHANGED reports
      <4>1. TaskRecord(t)' /\ last' \in [Tasks -> Event]
        BY <1>1, <1>2, <3>2, StartedRecord
      <4>2. Local(w)
        BY <1>1, <1>2, <3>2 DEF IInv, TypeOK, Local, Emit
      <4> QED BY <3>2, <4>1, <4>2 DEF IInv, TypeOK
    <3>3. CASE opc[w] = "persist" /\ Put(w) /\ UNCHANGED last
      <4>1. TaskRecord(t)' /\ reports' \in [Tasks -> SUBSET Report]
        BY <1>1, <1>2, <3>3, PersistedRecord
      <4>2. Local(w)
        BY <1>1, <1>2, <3>3 DEF IInv, TypeOK, Local, Put
      <4> QED BY <3>3, <4>1, <4>2 DEF IInv, TypeOK
    <3>4. CASE opc[w] = "outcome" /\ Emit(w, Verdict(w)) /\ UNCHANGED reports
      <4>1. returned'[t] = "none"
        BY <1>1, <1>2, <3>4, InExecute DEF Working
      <4>2. TaskRecord(t)' /\ last' \in [Tasks -> Event]
        BY <1>1, <1>2, <3>4, <4>1, OutcomeRecord
      <4>3. Local(w)
        BY <1>1, <1>2, <3>4 DEF IInv, TypeOK, Local, Emit
      <4> QED BY <3>4, <4>2, <4>3 DEF IInv, TypeOK
    <3>5. CASE opc[w] = "retry" /\ Emit(w, "retry") /\ UNCHANGED reports
      <4>1. TaskRecord(t)' /\ last' \in [Tasks -> Event]
        BY <1>1, <1>2, <3>5, RetryRecord
      <4>2. Local(w)
        BY <1>1, <1>2, <3>5 DEF IInv, TypeOK, Local, Emit
      <4> QED BY <3>5, <4>1, <4>2 DEF IInv, TypeOK
    <3>6. CASE source # <<>> /\ source' = Tail(source) /\ UNCHANGED <<reports, last>>
      BY <3>1, <3>6
    <3> QED BY <3>1, <3>2, <3>3, <3>4, <3>5, <3>6 DEF Raise
  <2>2. TypeOK' /\ SourceIsFresh' /\ ExecutedOnce' /\ TaskRecords' /\ WorkersProgress'
    BY <1>1, <1>2, <1>3, <2>1, ExecuteIsLeft
  <2>3. LossBoundedByRaises'
    <3>1. ASSUME NEW u \in Tasks, Lost(u)', u # t
          PROVE  Lost(u)
      BY <1>1, <1>2, <1>3, <2>1, <3>1, OpenClawAssumption DEF Lost, Held
    <3>2. {u \in Tasks : Lost(u)}' \subseteq {u \in Tasks : Lost(u)} \cup {t}
      BY <3>1
    <3> QED BY <1>2, <3>2, LossStep DEF IInv, TypeOK, LossBoundedByRaises
  <2> QED BY <2>2, <2>3 DEF IInv
<1>5. CASE /\ opc[w] = "claim" /\ source # <<>> /\ source' = Tail(source)
           /\ UNCHANGED <<reports, last>>
  <2>1. PICK h : h = Head(source)
    OBVIOUS
  <2>2. /\ source' \in Seq(Tasks)
        /\ \A i, j \in 1..Len(source') : source'[i] = source'[j] => i = j
        /\ \A u \in Tasks : InSource(u)' <=> u # h /\ InSource(u)
    BY <1>5, <2>1, SourceTail
  <2>3. t = NoTask /\ NoTask \notin Tasks
    BY <1>1, <1>5, OpenClawAssumption DEF IInv, TypeOK, Working
  <2>4. Local(w) /\ last' \in [Tasks -> Event] /\ reports' \in [Tasks -> SUBSET Report]
    BY <1>2, <1>5 DEF IInv, TypeOK, Local
  <2>5. TypeOK' /\ SourceIsFresh' /\ ExecutedOnce' /\ TaskRecords' /\ WorkersProgress'
    <3>1. \A u \in Tasks : InSource(u)' => InSource(u)
      BY <2>2
    <3>2. \A u \in Tasks : u # otask[w]
      BY <1>1, <2>3
    <3>3. \A u \in Tasks : u = otask[w] => TaskRecord(u)'
      BY <3>2
    <3> QED BY <1>2, <1>3, <2>2, <2>4, <3>1, <3>3, ExecuteIsLeft
  <2>6. LossBoundedByRaises'
    <3>1. ASSUME NEW u \in Tasks, Lost(u)', u # h
          PROVE  Lost(u)
      BY <1>1, <1>2, <1>3, <2>2, <2>3, <3>1 DEF Lost, Held
    <3>2. {u \in Tasks : Lost(u)}' \subseteq {u \in Tasks : Lost(u)} \cup {h}
      BY <3>1
    <3> QED BY <1>2, <3>2, LossStep DEF IInv, TypeOK, LossBoundedByRaises
  <2> QED BY <2>5, <2>6 DEF IInv
<1>6. \/ UNCHANGED source
      \/ /\ opc[w] = "claim" /\ source # <<>> /\ source' = Tail(source)
         /\ UNCHANGED <<reports, last>>
  BY DEF Raise
<1> QED BY <1>4, <1>5, <1>6

LEMMA RequestStopStep == ASSUME IInv, RequestStop PROVE IInv'
<1>1. /\ stop' = TRUE
      /\ UNCHANGED <<payload, source, opc, otask, attempt, failed, done, written,
                     leftover, reports, last, returned, raises>>
  BY DEF RequestStop, taskVars
<1>2. TypeOK'
  BY <1>1 DEF IInv, TypeOK, Working
<1>3. SourceIsFresh' /\ ExecutedOnce' /\ TaskRecords'
  BY <1>1 DEF IInv, SourceIsFresh, ExecutedOnce, TaskRecords, TaskRecord, InSource, Held,
              NoEvent
<1>4. WorkersProgress'
  BY <1>1 DEF IInv, WorkersProgress, Working, Progress, Announced, Containers, Limit, NoEvent
<1>5. LossBoundedByRaises'
  BY <1>1 DEF IInv, LossBoundedByRaises, Lost, InSource, Held
<1> QED BY <1>2, <1>3, <1>4, <1>5 DEF IInv

\* A container that exits is one less in its workspace.
LEMMA ContainerExitsStep == ASSUME IInv, NEW t \in Tasks, ContainerExits(t) PROVE IInv'
<1>1. /\ leftover[t] > 0
      /\ leftover' = [leftover EXCEPT ![t] = @ - 1]
      /\ UNCHANGED <<payload, source, stop, opc, otask, attempt, failed, done, written,
                     reports, last, returned, raises>>
  BY DEF ContainerExits
<1>2. /\ leftover' \in [Tasks -> Nat]
      /\ \A u \in Tasks : leftover[u] \in Nat /\ leftover'[u] <= leftover[u]
  BY <1>1 DEF IInv, TypeOK
<1>3. TypeOK'
  BY <1>1, <1>2 DEF IInv, TypeOK, Working
<1>4. SourceIsFresh'
  <2>1. \A u \in Tasks : InSource(u)' => last'[u] = NoEvent /\ leftover'[u] = 0
    BY <1>1, <1>2 DEF IInv, SourceIsFresh, InSource
  <2> QED BY <1>1, <2>1 DEF IInv, SourceIsFresh, NoEvent
<1>5. ExecutedOnce' /\ TaskRecords'
  BY <1>1 DEF IInv, ExecutedOnce, TaskRecords, TaskRecord, InSource, Held
<1>6. WorkersProgress'
  <2>1. ASSUME NEW w \in Workers, Working(w)'
        PROVE  Progress(w)'
    <3>1. Working(w)
      BY <1>1, <2>1 DEF Working
    <3>2. /\ Progress(w) /\ otask[w] \in Tasks /\ attempt[w] \in Nat
          /\ leftover[otask[w]] \in Nat /\ leftover'[otask[w]] <= leftover[otask[w]]
          /\ leftover'[otask[w]] \in Nat
      BY <1>2, <3>1, InExecute
    <3>3. Announced(w)' = Announced(w) /\ Containers(w)' = Containers(w)
      BY <1>1 DEF Announced, Containers, NoEvent
    <3>4. Limit(otask[w])' = Limit(otask[w])
      BY <1>1 DEF Limit
    <3>5. leftover'[otask[w]] <= Containers(w)
      <4>1. Containers(w) \in Int
        BY <3>2 DEF Containers
      <4> QED BY <3>2, <4>1 DEF Progress
    <3> QED BY <1>1, <3>2, <3>3, <3>4, <3>5 DEF Progress
  <2> QED BY <1>1, <2>1 DEF IInv, WorkersProgress, Working
<1>7. LossBoundedByRaises'
  BY <1>1 DEF IInv, LossBoundedByRaises, Lost, InSource, Held
<1> QED BY <1>3, <1>4, <1>5, <1>6, <1>7 DEF IInv

LEMMA NextIInv == IInv /\ [Next]_ovars => IInv'
<1> SUFFICES ASSUME IInv, [Next]_ovars PROVE IInv'
  OBVIOUS
<1>1. ASSUME NEW w \in Workers, Step(w)
      PROVE  IInv'
  <2>1. CASE EmitOutcome(w)
    BY <2>1, AttemptFailsStep, VerdictStep
  <2> QED BY <1>1, <2>1, ClaimStep, ReturnStep, CreateStep, EmitStartedStep,
             GenerateStep, EmitGeneratedStep, RunStepStep, EmitStepStep, PersistStep,
             EmitRetryStep DEF Step
<1>2. CASE UNCHANGED ovars
  <2>1. UNCHANGED <<payload, source, stop, opc, otask, attempt, failed, done, written,
                    leftover, reports, last, returned, raises>>
    BY <1>2 DEF ovars, taskVars
  <2>2. TypeOK' /\ SourceIsFresh' /\ ExecutedOnce'
    BY <2>1 DEF IInv, TypeOK, Working, SourceIsFresh, ExecutedOnce, InSource, Held, NoEvent
  <2>4. TaskRecords'
    BY <2>1 DEF IInv, TaskRecords, TaskRecord
  <2>5. LossBoundedByRaises'
    BY <2>1 DEF IInv, LossBoundedByRaises, Lost, InSource, Held
  <2>3. WorkersProgress'
    BY <2>1 DEF IInv, WorkersProgress, Working, Progress, Announced, Containers, Limit, NoEvent
  <2> QED BY <2>2, <2>3, <2>4, <2>5 DEF IInv
<1> QED BY <1>1, <1>2, RaiseStep, RequestStopStep, ContainerExitsStep DEF Next

LEMMA Invariance == Spec => []IInv
BY InitIInv, NextIInv, PTL DEF Spec

-----------------------------------------------------------------------------

\* The types, and that a worker has a task exactly while it is in execute.
THEOREM OpenClawTypeCorrect == Spec => []TypeOK
<1>1. IInv => TypeOK
  BY DEF IInv
<1> QED BY <1>1, Invariance, PTL

\* Each awaited call that raises loses at most one task, and nothing else
\* loses any: claim, however many workers share the source, hands out the one
\* copy there is.
THEOREM LossIsBounded == Spec => []LossBoundedByRaises
<1>1. IInv => LossBoundedByRaises
  BY DEF IInv
<1> QED BY <1>1, Invariance, PTL

\* No two workers execute a task, and none executes one that has a verdict or
\* can still be claimed.
THEOREM NoTaskTwice == Spec => []ExecutedOnce
<1>1. IInv => ExecutedOnce
  BY DEF IInv
<1> QED BY <1>1, Invariance, PTL

\* Every outcome event has its report, for every limit of attempts and also
\* when an exception ends the worker between the two.
THEOREM ReportsPrecedeEvents == Spec => []ReportsMatchEvents
<1>1. IInv => ReportsMatchEvents
  BY DEF IInv, TaskRecords, TaskRecord, ReportsMatchEvents
<1> QED BY <1>1, Invariance, PTL

\* What is reported as succeeded had its patches in place and all of its steps
\* run in the very attempt that is reported.
THEOREM SuccessMeansAllSteps == Spec => []SuccessIsWhole
<1>1. IInv => SuccessIsWhole
  BY DEF IInv, TaskRecords, TaskRecord, SuccessIsWhole
<1> QED BY <1>1, Invariance, PTL

\* The containers in the workspace of a step are bounded by the attempts.
THEOREM ContainersAreBounded == Spec => []LeftoversBounded
<1>1. IInv => LeftoversBounded
  <2> SUFFICES ASSUME IInv, NEW w \in Workers, opc[w] = "step"
               PROVE  leftover[otask[w]] <= (IF Docker THEN 2 * attempt[w] - 1 ELSE 0)
    BY DEF LeftoversBounded
  <2>1. Progress(w)
    BY InExecute DEF Working
  <2>2. ~failed[w] /\ leftover[otask[w]] <= Containers(w)
    BY <2>1 DEF Progress
  <2> QED BY <2>2 DEF Containers
<1> QED BY <1>1, Invariance, PTL

-----------------------------------------------------------------------------
(* The refinement: the events about a task are a behaviour of TaskExecution. *)

\* Emitting an event moves the abstract execution of its task and no other.
LEMMA EmitMoves ==
  ASSUME TypeOK, NEW t \in Tasks, NEW n \in Nat, NEW k, NEW from, from = last[t].kind,
         last' = [last EXCEPT ![t] = [kind |-> k, attempt |-> n]],
         payload' = payload
  PROVE  Execution!Move(t, from, k, n)
<1> DEFINE event == [kind |-> k, attempt |-> n]
<1>1. \A u \in Tasks : last'[u] = IF u = t THEN event ELSE last[u]
  BY DEF TypeOK
<1>2. event.kind = k /\ event.attempt = n
  OBVIOUS
<1> HIDE DEF event
<1>3. \A u \in Tasks : /\ last'[u].kind = IF u = t THEN k ELSE last[u].kind
                       /\ last'[u].attempt = IF u = t THEN n ELSE last[u].attempt
  BY <1>1, <1>2
<1>4. [u \in Tasks |-> last[u].kind]' = [[u \in Tasks |-> last[u].kind] EXCEPT ![t] = k]
  BY <1>3
<1>5. [u \in Tasks |-> last[u].attempt]' = [[u \in Tasks |-> last[u].attempt] EXCEPT ![t] = n]
  BY <1>3
<1>6. [u \in Tasks |-> Limit(u)]' = [u \in Tasks |-> Limit(u)]
  BY DEF Limit
<1>7. [u \in Tasks |-> last[u].kind][t] = from
  OBVIOUS
<1> QED BY <1>4, <1>5, <1>6, <1>7 DEF Execution!Move

\* Without an event the abstract execution stutters.
LEMMA SilentStutters ==
  ASSUME UNCHANGED <<last, payload>>
  PROVE  UNCHANGED Execution!execVars
BY DEF Execution!execVars, Limit

\* The event a worker emits at its position is the next one of the execution,
\* whether the call returns or raises.
LEMMA EmitRefines ==
  ASSUME IInv, NEW w \in Workers, payload' = payload,
         \/ opc[w] = "started" /\ Emit(w, "started")
         \/ opc[w] = "outcome" /\ Emit(w, Verdict(w))
         \/ opc[w] = "retry" /\ Emit(w, "retry")
  PROVE  Execution!Next
<1>1. Working(w)
  BY DEF Working
<1>2. PICK t \in Tasks, a \in Nat \ {0} : t = otask[w] /\ a = attempt[w]
  BY <1>1, InExecute
<1>3. /\ [u \in Tasks |-> last[u].attempt][t] = last[t].attempt
      /\ [u \in Tasks |-> Limit(u)][t] = Limit(t)
  OBVIOUS
<1>4. Progress(w) /\ TypeOK
  BY <1>1, InExecute DEF IInv
<1>5. CASE opc[w] = "started" /\ Emit(w, "started")
  <2>1. last' = [last EXCEPT ![t] = [kind |-> "started", attempt |-> a]]
    BY <1>2, <1>5 DEF Emit
  <2>2. last[t] = IF a = 1 THEN NoEvent ELSE [kind |-> "retry", attempt |-> a - 1]
    BY <1>2, <1>4, <1>5 DEF Progress, Announced
  <2>3. CASE a = 1
    <3>1. last[t].kind = "none"
      BY <2>2, <2>3 DEF NoEvent
    <3>2. Execution!Move(t, "none", "started", 1)
      BY <1>4, <2>1, <2>3, <3>1, EmitMoves
    <3> QED BY <3>2 DEF Execution!Start, Execution!Next
  <2>4. CASE a # 1
    <3>1. last[t].kind = "retry" /\ last[t].attempt = a - 1
      BY <2>2, <2>4
    <3>2. Execution!Move(t, "retry", "started", a)
      BY <1>4, <2>1, <3>1, EmitMoves
    <3>3. [u \in Tasks |-> last[u].attempt][t] + 1 = a
      BY <1>3, <3>1
    <3>4. Execution!Restart(t)
      BY <3>2, <3>3 DEF Execution!Restart, Execution!Move
    <3> QED BY <3>4 DEF Execution!Next
  <2> QED BY <2>3, <2>4
<1>6. CASE opc[w] = "outcome" /\ Emit(w, Verdict(w))
  <2>1. last[t] = [kind |-> "started", attempt |-> a]
    BY <1>2, <1>4, <1>6 DEF Progress, Announced
  <2>2. last[t].kind = "started" /\ [u \in Tasks |-> last[u].attempt][t] = a
    BY <1>3, <2>1
  <2>3. CASE failed[w]
    <3>1. last' = [last EXCEPT ![t] = [kind |-> "failed", attempt |-> a]]
      BY <1>2, <1>6, <2>3 DEF Emit, Verdict
    <3>2. Execution!Move(t, "started", "failed", a)
      BY <1>4, <2>2, <3>1, EmitMoves
    <3>3. Execution!Fail(t)
      BY <2>2, <3>2 DEF Execution!Fail, Execution!Move
    <3> QED BY <3>3 DEF Execution!Next
  <2>4. CASE ~failed[w]
    <3>1. last' = [last EXCEPT ![t] = [kind |-> "succeeded", attempt |-> a]]
      BY <1>2, <1>6, <2>4 DEF Emit, Verdict
    <3>2. Execution!Move(t, "started", "succeeded", a)
      BY <1>4, <2>2, <3>1, EmitMoves
    <3>3. Execution!Succeed(t)
      BY <2>2, <3>2 DEF Execution!Succeed, Execution!Move
    <3> QED BY <3>3 DEF Execution!Next
  <2> QED BY <2>3, <2>4
<1>7. CASE opc[w] = "retry" /\ Emit(w, "retry")
  <2>1. last' = [last EXCEPT ![t] = [kind |-> "retry", attempt |-> a]]
    BY <1>2, <1>7 DEF Emit
  <2>2. last[t] = [kind |-> "failed", attempt |-> a] /\ a < Limit(t)
    BY <1>2, <1>4, <1>7 DEF Progress, Announced
  <2>3. last[t].kind = "failed" /\ [u \in Tasks |-> last[u].attempt][t] = a
    BY <1>3, <2>2
  <2>4. Execution!Move(t, "failed", "retry", a)
    BY <1>4, <2>1, <2>3, EmitMoves
  <2>5. Execution!Retry(t)
    BY <1>3, <2>2, <2>3, <2>4 DEF Execution!Retry, Execution!Move
  <2> QED BY <2>5 DEF Execution!Next
<1> QED BY <1>5, <1>6, <1>7

LEMMA InitRefines == Init => Execution!Init
<1> SUFFICES ASSUME Init PROVE Execution!Init
  OBVIOUS
<1>1. \A t \in Tasks : last[t].kind = "none" /\ last[t].attempt = 0
  BY DEF Init, NoEvent
<1>2. \A t \in Tasks : Limit(t) \in Nat \ {0}
  BY InitIInv, LimitPositive DEF IInv
<1> QED BY <1>1, <1>2 DEF Execution!Init

LEMMA NextRefines ==
  IInv /\ [Next]_ovars => [Execution!Next]_(Execution!execVars)
<1> SUFFICES ASSUME IInv, [Next]_ovars
             PROVE  Execution!Next \/ UNCHANGED Execution!execVars
  OBVIOUS
<1>1. UNCHANGED payload
  BY DEF Next, Step, Claim, Return, Create, EmitStarted, Generate, EmitGenerated,
         RunStep, EmitStep, Persist, EmitOutcome, EmitRetry, Raise, RequestStop,
         ContainerExits, ovars
<1>2. ASSUME NEW w \in Workers, Step(w) \/ Raise(w)
      PROVE  \/ UNCHANGED last
             \/ opc[w] = "started" /\ Emit(w, "started")
             \/ opc[w] = "outcome" /\ Emit(w, Verdict(w))
             \/ opc[w] = "retry" /\ Emit(w, "retry")
  BY <1>2 DEF Step, Claim, Return, Create, EmitStarted, Generate, EmitGenerated,
              RunStep, EmitStep, Persist, EmitOutcome, EmitRetry, Raise, taskVars
<1>3. \/ UNCHANGED last
      \/ \E w \in Workers :
           \/ opc[w] = "started" /\ Emit(w, "started")
           \/ opc[w] = "outcome" /\ Emit(w, Verdict(w))
           \/ opc[w] = "retry" /\ Emit(w, "retry")
  BY <1>2 DEF Next, RequestStop, ContainerExits, ovars, taskVars
<1> QED BY <1>1, <1>3, SilentStutters, EmitRefines

\* What workers announce about a task is one bounded sequence of attempts: the
\* next attempt follows the retry of a failed one, none follows a success, and
\* no event names an attempt beyond max(1, max_attempts).
THEOREM EventsAreAnExecution == Spec => ImplementsExecution
<1>1. Init => Execution!Init
  BY InitRefines
<1>2. IInv /\ [Next]_ovars => [Execution!Next]_(Execution!execVars)
  BY NextRefines
<1> QED BY <1>1, <1>2, Invariance, PTL DEF Spec, ImplementsExecution, Execution!Spec
=============================================================================
