--------------------------- MODULE OpenClawWorker ---------------------------
(***************************************************************************)
(* OpenClawWorker.run_forever of workers/openclaw.py: several workers      *)
(* claim tasks from one source and execute each with bounded retries. Each *)
(* awaited call is a step; what follows it up to the next await is part of *)
(* the same step.                                                          *)
(*                                                                         *)
(* A generator, an artifact store and an event bus are configured. Of the  *)
(* events those that carry the execution's outcome are kept, as the last   *)
(* one of each task.                                                       *)
(***************************************************************************)
EXTENDS Integers, Sequences, FiniteSets

CONSTANTS
  Tasks,
  Workers,
  Source,     \* the tasks of the TaskSource, oldest first
  Payloads,   \* what tasks ask for: max_attempts, generation, steps
  Docker,     \* is the runner a DockerCommandRunner?
  MaxRaises,  \* bound on awaited calls that raise
  NoTask

ASSUME OpenClawAssumption ==
  /\ IsFiniteSet(Tasks) /\ IsFiniteSet(Workers)
  /\ Payloads \subseteq [max : Int, generate : BOOLEAN, steps : Nat]
  /\ Docker \in BOOLEAN
  /\ MaxRaises \in Nat
  /\ NoTask \notin Tasks
  /\ Source \in Seq(Tasks)
  /\ \A i, j \in 1..Len(Source) : Source[i] = Source[j] => i = j

VARIABLES
  payload,   \* payload[t], never changed
  source,    \* tasks nobody has claimed
  stop,      \* does stop() return True?
  opc,       \* the call the worker awaits next
  otask,     \* the task it executes
  attempt,   \* the loop variable of execute
  failed,    \* failed_step is set
  done,      \* done[t]: steps of the current attempt that were run
  written,   \* written[t]: the last attempt whose patches are all in place
  leftover,  \* leftover[t]: containers that outlived their docker command
  reports,   \* reports[t]: report-attempt-N.json artifacts
  last,      \* last[t]: the last started/succeeded/failed/retry event
  returned,  \* returned[t]: what execute returned
  raises     \* awaited calls that raised so far

taskVars == <<done, written, leftover, reports, last, returned>>
ovars == <<payload, source, stop, opc, otask, attempt, failed, taskVars, raises>>

WorkerPc == {"claim", "create", "started", "generate", "generated", "step",
             "stepped", "persist", "outcome", "retry", "returned", "dead"}

Report == [attempt : Nat, success : BOOLEAN]
Event == [kind : {"none", "started", "succeeded", "failed", "retry"},
          attempt : Nat]
NoEvent == [kind |-> "none", attempt |-> 0]

\* What LocalCommandRunner.run translates into a CommandResult: the command
\* cannot be started, exceeds its timeout and is killed, or exits.
CommandResults == {[exit |-> 127, timed_out |-> FALSE],
                   [exit |-> 124, timed_out |-> TRUE],
                   [exit |-> 1, timed_out |-> FALSE],
                   [exit |-> 0, timed_out |-> FALSE]}

Success(result) == result.exit = 0 /\ ~result.timed_out

\* A process that is killed at its timeout is gone; the one of a
\* DockerCommandRunner is the docker command, and the container it started
\* goes on in the bind-mounted workspace.
LeavesContainer(result) == Docker /\ result.timed_out

\* The answer of a provider, and what _parse of codegen.py makes of it: the
\* entries of "files" with a path and a content, degraded if there is none.
Answers == [object : BOOLEAN, list : BOOLEAN, entries : 0..1]

ParseFiles(answer) ==
  LET patches == IF answer.object /\ answer.list THEN answer.entries ELSE 0
  IN [patches |-> patches, degraded |-> patches = 0]

\* max(1, task.max_attempts)
Limit(t) == IF payload[t].max < 1 THEN 1 ELSE payload[t].max

Init ==
  /\ payload \in [Tasks -> Payloads]
  /\ source = Source
  /\ stop = FALSE
  /\ opc = [w \in Workers |-> "claim"]
  /\ otask = [w \in Workers |-> NoTask]
  /\ attempt = [w \in Workers |-> 0]
  /\ failed = [w \in Workers |-> FALSE]
  /\ done = [t \in Tasks |-> 0]
  /\ written = [t \in Tasks |-> 0]
  /\ leftover = [t \in Tasks |-> 0]
  /\ reports = [t \in Tasks |-> {}]
  /\ last = [t \in Tasks |-> NoEvent]
  /\ returned = [t \in Tasks |-> "none"]
  /\ raises = 0

Goto(w, pc) == opc' = [opc EXCEPT ![w] = pc]

Emit(w, kind) ==
  last' = [last EXCEPT ![otask[w]] = [kind |-> kind, attempt |-> attempt[w]]]

\* Mutant of PopTask: the task is read and not removed.
PeekTask(w) ==
  /\ source # <<>>
  /\ otask' = [otask EXCEPT ![w] = Head(source)]
  /\ UNCHANGED source

\* InMemoryTaskSource.claim pops the oldest task.
PopTask(w) ==
  /\ source # <<>>
  /\ source' = Tail(source)
  /\ otask' = [otask EXCEPT ![w] = Head(source)]

\* consume_once
Claim(w) ==
  /\ opc[w] = "claim" /\ ~stop
  /\ PopTask(w)
  /\ attempt' = [attempt EXCEPT ![w] = 1]
  /\ Goto(w, "create")
  /\ UNCHANGED <<payload, stop, failed, taskVars, raises>>

\* Mutant of Return: one task per call.
ReturnAtOnce(w) ==
  /\ opc[w] = "claim"
  /\ Goto(w, "returned")
  /\ UNCHANGED <<payload, source, stop, otask, attempt, failed, taskVars, raises>>

\* run_forever returns: it was told to stop, or claim returned None.
Return(w) ==
  /\ opc[w] = "claim" /\ (stop \/ source = <<>>)
  /\ Goto(w, "returned")
  /\ UNCHANGED <<payload, source, stop, otask, attempt, failed, taskVars, raises>>

\* What a command adds to the containers left behind.
Added(result) == IF LeavesContainer(result) THEN 1 ELSE 0

\* _init_branch: what git init and, if it succeeds, git checkout leave behind.
InitBranch ==
  {IF Success(init) THEN Added(checkout) ELSE Added(init) :
     init, checkout \in CommandResults}

\* WorkspaceManager.create, with the worker's runner: the directory may exist
\* already, with whatever earlier attempts left in it; git is best-effort.
Create(w) ==
  /\ opc[w] = "create"
  /\ \E n \in InitBranch : leftover' = [leftover EXCEPT ![otask[w]] = @ + n]
  /\ Goto(w, "started")
  /\ UNCHANGED <<payload, source, stop, otask, attempt, failed, done, written,
                 reports, last, returned, raises>>

\* write_patches, and on to the first step.
Materialize(w) ==
  /\ written' = [written EXCEPT ![otask[w]] = attempt[w]]
  /\ Goto(w, IF payload[otask[w]].steps = 0 THEN "persist" ELSE "step")

EmitStarted(w) ==
  /\ opc[w] = "started"
  /\ Emit(w, "started")
  /\ done' = [done EXCEPT ![otask[w]] = 0]
  /\ IF payload[otask[w]].generate
     THEN Goto(w, "generate") /\ UNCHANGED written
     ELSE Materialize(w)
  /\ UNCHANGED <<payload, source, stop, otask, attempt, failed, leftover,
                 reports, returned, raises>>

\* Mutant of Generate: a failed generation does not fail the attempt.
GenerateLeniently(w) ==
  /\ opc[w] = "generate"
  /\ \/ Goto(w, "generated")
     \/ Goto(w, IF payload[otask[w]].steps = 0 THEN "persist" ELSE "step")
  /\ UNCHANGED <<payload, source, stop, otask, attempt, failed, taskVars, raises>>

\* _failed_gen_step: the attempt fails without running a step.
FailGeneration(w) ==
  Goto(w, "persist") /\ failed' = [failed EXCEPT ![w] = TRUE]

\* _generate: NoProviderAvailable, or an answer to parse.
Generate(w) ==
  /\ opc[w] = "generate"
  /\ \/ FailGeneration(w)
     \/ \E answer \in Answers :
          IF ParseFiles(answer).degraded
          THEN FailGeneration(w)
          ELSE Goto(w, "generated") /\ UNCHANGED failed
  /\ UNCHANGED <<payload, source, stop, otask, attempt, taskVars, raises>>

\* TaskCodeGenerated and the TaskStepCompleted of the generation.
EmitGenerated(w) ==
  /\ opc[w] = "generated"
  /\ Materialize(w)
  /\ UNCHANGED <<payload, source, stop, otask, attempt, failed, done, leftover,
                 reports, last, returned, raises>>

RunStep(w) ==
  /\ opc[w] = "step"
  /\ \E result \in CommandResults :
       /\ failed' = [failed EXCEPT ![w] = ~Success(result)]
       /\ leftover' = [leftover EXCEPT ![otask[w]] = @ + Added(result)]
  /\ done' = [done EXCEPT ![otask[w]] = @ + 1]
  /\ Goto(w, "stepped")
  /\ UNCHANGED <<payload, source, stop, otask, attempt, written, reports, last,
                 returned, raises>>

\* Mutant of EmitStep: the loop goes on after a failed step.
EmitStepAndGoOn(w) ==
  /\ opc[w] = "stepped"
  /\ Goto(w, IF done[otask[w]] >= payload[otask[w]].steps
             THEN "persist" ELSE "step")
  /\ UNCHANGED <<payload, source, stop, otask, attempt, failed, taskVars, raises>>

EmitStep(w) ==
  /\ opc[w] = "stepped"
  /\ Goto(w, IF failed[w] \/ done[otask[w]] >= payload[otask[w]].steps
             THEN "persist" ELSE "step")
  /\ UNCHANGED <<payload, source, stop, otask, attempt, failed, taskVars, raises>>

\* Mutant of Put: one file per task.
PutOneFile(w) ==
  reports' = [reports EXCEPT ![otask[w]] =
                {[attempt |-> attempt[w], success |-> ~failed[w]]}]

\* put of an artifact store: the file of an attempt is overwritten.
Put(w) ==
  reports' = [reports EXCEPT ![otask[w]] =
                {r \in @ : r.attempt # attempt[w]}
                  \cup {[attempt |-> attempt[w], success |-> ~failed[w]]}]

Persist(w) ==
  /\ opc[w] = "persist"
  /\ Put(w)
  /\ Goto(w, "outcome")
  /\ UNCHANGED <<payload, source, stop, otask, attempt, failed, done, written,
                 leftover, last, returned, raises>>

\* execute returns the report to run_forever.
Finish(w, verdict) ==
  /\ returned' = [returned EXCEPT ![otask[w]] = verdict]
  /\ otask' = [otask EXCEPT ![w] = NoTask]
  /\ attempt' = [attempt EXCEPT ![w] = 0]
  /\ failed' = [failed EXCEPT ![w] = FALSE]

\* TaskExecutionFailed or TaskExecutionSucceeded, by the bool `success`.
Verdict(w) == IF failed[w] THEN "failed" ELSE "succeeded"

\* Mutant of EmitOutcome: attempt <= max_attempts.
EmitOutcomeInclusive(w) ==
  /\ opc[w] = "outcome"
  /\ Emit(w, Verdict(w))
  /\ IF failed[w] /\ attempt[w] <= Limit(otask[w])
     THEN /\ Goto(w, "retry")
          /\ UNCHANGED <<otask, attempt, failed, returned>>
     ELSE Goto(w, "claim") /\ Finish(w, Verdict(w))
  /\ UNCHANGED <<payload, source, stop, done, written, leftover, reports, raises>>

\* TaskExecutionSucceeded or TaskExecutionFailed, for every attempt.
EmitOutcome(w) ==
  /\ opc[w] = "outcome"
  /\ Emit(w, Verdict(w))
  /\ IF failed[w] /\ attempt[w] < Limit(otask[w])
     THEN /\ Goto(w, "retry")
          /\ UNCHANGED <<otask, attempt, failed, returned>>
     ELSE Goto(w, "claim") /\ Finish(w, Verdict(w))
  /\ UNCHANGED <<payload, source, stop, done, written, leftover, reports, raises>>

\* Mutant of EmitRetry: the retry is left to whoever reads the event.
EmitRetryAndLeave(w) ==
  /\ opc[w] = "retry"
  /\ Emit(w, "retry")
  /\ Goto(w, "claim")
  /\ otask' = [otask EXCEPT ![w] = NoTask]
  /\ UNCHANGED <<payload, source, stop, attempt, failed, done, written, leftover,
                 reports, returned, raises>>

EmitRetry(w) ==
  /\ opc[w] = "retry"
  /\ Emit(w, "retry")
  /\ attempt' = [attempt EXCEPT ![w] = @ + 1]
  /\ failed' = [failed EXCEPT ![w] = FALSE]
  /\ Goto(w, "create")
  /\ UNCHANGED <<payload, source, stop, otask, done, written, leftover, reports,
                 returned, raises>>

Step(w) ==
  \/ Claim(w) \/ Return(w) \/ Create(w) \/ EmitStarted(w) \/ Generate(w)
  \/ EmitGenerated(w) \/ RunStep(w) \/ EmitStep(w) \/ Persist(w)
  \/ EmitOutcome(w) \/ EmitRetry(w)

\* The awaited call raises, having taken effect or not, or a patch path is
\* refused, or the payload is malformed: nothing catches it, run_forever ends
\* and with it the worker. The task is in no list any more.
Raise(w) ==
  /\ opc[w] \notin {"returned", "dead"} /\ raises < MaxRaises
  /\ raises' = raises + 1
  /\ Goto(w, "dead")
  /\ otask' = [otask EXCEPT ![w] = NoTask]
  /\ attempt' = [attempt EXCEPT ![w] = 0]
  /\ failed' = [failed EXCEPT ![w] = FALSE]
  /\ \/ UNCHANGED <<source, reports, last>>
     \/ /\ opc[w] = "claim" /\ source # <<>>
        /\ source' = Tail(source)
        /\ UNCHANGED <<reports, last>>
     \/ /\ opc[w] = "started" /\ Emit(w, "started")
        /\ UNCHANGED <<source, reports>>
     \/ opc[w] = "persist" /\ Put(w) /\ UNCHANGED <<source, last>>
     \/ /\ opc[w] = "outcome" /\ Emit(w, Verdict(w))
        /\ UNCHANGED <<source, reports>>
     \/ /\ opc[w] = "retry" /\ Emit(w, "retry")
        /\ UNCHANGED <<source, reports>>
  /\ UNCHANGED <<payload, stop, done, written, leftover, returned>>

\* The environment: stop() turns True, a container that was left exits.
RequestStop ==
  /\ ~stop /\ stop' = TRUE
  /\ UNCHANGED <<payload, source, opc, otask, attempt, failed, taskVars, raises>>

ContainerExits(t) ==
  /\ leftover[t] > 0
  /\ leftover' = [leftover EXCEPT ![t] = @ - 1]
  /\ UNCHANGED <<payload, source, stop, opc, otask, attempt, failed, done,
                 written, reports, last, returned, raises>>

Next ==
  \/ \E w \in Workers : Step(w) \/ Raise(w)
  \/ RequestStop
  \/ \E t \in Tasks : ContainerExits(t)

\* The event loop runs every worker whose awaited call has ended; every call
\* ends: commands have a timeout, calls of providers end (CallsEnd).
Spec == Init /\ [][Next]_ovars /\ \A w \in Workers : WF_ovars(Step(w))

-----------------------------------------------------------------------------

\* The worker is in execute.
Working(w) == opc[w] \notin {"claim", "returned", "dead"}

\* The types, and that a worker has a task exactly while it is in execute.
TypeOK ==
  /\ payload \in [Tasks -> Payloads]
  /\ source \in Seq(Tasks)
  /\ stop \in BOOLEAN
  /\ opc \in [Workers -> WorkerPc]
  /\ otask \in [Workers -> Tasks \cup {NoTask}]
  /\ \A w \in Workers : otask[w] # NoTask <=> Working(w)
  /\ attempt \in [Workers -> Nat]
  /\ failed \in [Workers -> BOOLEAN]
  /\ done \in [Tasks -> Nat]
  /\ written \in [Tasks -> Nat]
  /\ leftover \in [Tasks -> Nat]
  /\ reports \in [Tasks -> SUBSET Report]
  /\ last \in [Tasks -> Event]
  /\ returned \in [Tasks -> {"none", "succeeded", "failed"}]
  /\ raises \in Nat

InSource(t) == \E i \in 1..Len(source) : source[i] = t
Held(t) == \E w \in Workers : otask[w] = t

\* A task of the source that nobody has, with no verdict.
Lost(t) == (\E i \in 1..Len(Source) : Source[i] = t)
           /\ ~InSource(t) /\ ~Held(t) /\ returned[t] = "none"

\* claim has removed the only copy of a task, and nothing puts it back: each
\* awaited call that raises loses at most one, and nothing else loses any.
LossBoundedByRaises == Cardinality({t \in Tasks : Lost(t)}) <= raises

\* No task is executed by two workers, or executed while it can be claimed:
\* its workspace and its report files are its alone.
ExecutedOnce ==
  \A t \in Tasks :
    /\ \A w, v \in Workers : otask[w] = t /\ otask[v] = t => w = v
    /\ Held(t) \/ returned[t] # "none" => ~InSource(t)
    /\ Held(t) => returned[t] = "none"

\* The outcome event of an attempt finds its report in the store, with the
\* same verdict; an attempt is started only when the reports of all earlier
\* ones, failures, are there; and execute returns the verdict of the last.
ReportsMatchEvents ==
  \A t \in Tasks :
    /\ last[t].kind \in {"succeeded", "failed"} =>
         [attempt |-> last[t].attempt,
          success |-> last[t].kind = "succeeded"] \in reports[t]
    /\ \A a \in 1..(last[t].attempt - 1) :
         [attempt |-> a, success |-> FALSE] \in reports[t]
    /\ \A r, q \in reports[t] : r.attempt = q.attempt => r = q
    /\ returned[t] # "none" => last[t].kind = returned[t]

\* A task is reported as succeeded only if, in that attempt, all of its
\* patches were in place and every one of its steps was run.
SuccessIsWhole ==
  \A t \in Tasks :
    last[t].kind = "succeeded" =>
      written[t] = last[t].attempt /\ done[t] = payload[t].steps

\* A step shares the workspace with at most one container per call of create so
\* far and one per failed attempt, and with none if commands run locally.
LeftoversBounded ==
  \A w \in Workers :
    opc[w] = "step" =>
      leftover[otask[w]] <= (IF Docker THEN 2 * attempt[w] - 1 ELSE 0)

Execution == INSTANCE TaskExecution WITH
  phase   <- [t \in Tasks |-> last[t].kind],
  attempt <- [t \in Tasks |-> last[t].attempt],
  limit   <- [t \in Tasks |-> Limit(t)]

\* The events about a task are those of one bounded sequence of attempts, also
\* when a worker dies between two of them.
ImplementsExecution == Execution!Spec

\* Unless it is told to stop, or every worker was killed by an exception, the
\* source is drained and every task that is not lost has a verdict.
SourceDrained ==
  <>(\/ stop
     \/ \A w \in Workers : opc[w] = "dead"
     \/ source = <<>> /\ \A t \in Tasks : ~Held(t))
=============================================================================
