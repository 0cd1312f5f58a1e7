---------------------------- MODULE SelfHealing -----------------------------
(***************************************************************************)
(* SelfHealingRuntime.handle_failure, called concurrently: the count of    *)
(* repair attempts is read before the event FailureAnalyzed is awaited and *)
(* used after it, while other handlers of the same signature go on.        *)
(***************************************************************************)
EXTENDS FailureAnalysis, FiniteSets

CONSTANTS
  Handlers,              \* calls of handle_failure that may overlap
  MaxRepairAttempts,     \* RepairPolicy.max_repair_attempts
  DeterministicFirst,    \* RepairPolicy.deterministic_first
  RollbackAfterRepeats,  \* RepairPolicy.rollback_after_repeats
  MaxFailures            \* bound on the failures of one signature

ASSUME HandlersAssumption == IsFiniteSet(Handlers)
ASSUME PolicyAssumption ==
  /\ MaxRepairAttempts \in Nat
  /\ DeterministicFirst \in BOOLEAN
  /\ RollbackAfterRepeats \in Nat
  /\ MaxFailures \in Nat

VARIABLES
  occurrences,  \* FailureMemory: failures seen of each signature
  attempts,     \* RepairHistory: repairs counted for each signature
  log,          \* log[k][a]: entries (k, a) of RepairHistory.log
  hpc,          \* the call a handler awaits, "idle" outside handle_failure
  hsig,         \* its signature
  hocc,         \* its `occurrences`
  hprior,       \* its `prior_attempts`
  haction       \* its `action`

callVars == <<hpc, hsig, hocc, hprior, haction>>
vars == <<occurrences, attempts, log, callVars>>

RepairAction ==
  {"retry", "deterministic_fix", "llm_repair", "rollback", "escalate"}

\* The actions RepairHistory.record counts as attempts.
Repairs == {"retry", "deterministic_fix", "llm_repair"}

NoSignature == [category |-> "", exc |-> "", location |-> "", text |-> ""]
NoAction == "none"

Init ==
  /\ occurrences = [k \in Signatures |-> 0]
  /\ attempts = [k \in Signatures |-> 0]
  /\ log = [k \in Signatures |-> [a \in RepairAction |-> 0]]
  /\ hpc = [h \in Handlers |-> "idle"]
  /\ hsig = [h \in Handlers |-> NoSignature]
  /\ hocc = [h \in Handlers |-> 0]
  /\ hprior = [h \in Handlers |-> 0]
  /\ haction = [h \in Handlers |-> NoAction]

\* _decide, below the limit.
RepairFor(k, prior, occ) ==
  IF k.category = "timeout" /\ prior = 0 THEN "retry"
  ELSE IF k.category \in Deterministic /\ DeterministicFirst
         THEN "deterministic_fix"
  ELSE IF occ >= RollbackAfterRepeats THEN "rollback"
  ELSE "llm_repair"

\* Mutant of ActionFor: failures are compared with the limit instead of
\* attempts.
ActionForByOccurrences(k, prior, occ) ==
  IF occ >= MaxRepairAttempts THEN "escalate" ELSE RepairFor(k, prior, occ)

\* _decide
ActionFor(k, prior, occ) ==
  IF prior >= MaxRepairAttempts THEN "escalate" ELSE RepairFor(k, prior, occ)

\* Mutant of Analyze: the occurrences are read before this failure is counted.
AnalyzeBeforeCounting(h, o) ==
  LET k == SignatureOf(o) IN
  /\ hpc[h] = "idle"
  /\ occurrences[k] < MaxFailures
  /\ occurrences' = [occurrences EXCEPT ![k] = @ + 1]
  /\ hsig' = [hsig EXCEPT ![h] = k]
  /\ hocc' = [hocc EXCEPT ![h] = occurrences[k]]
  /\ hprior' = [hprior EXCEPT ![h] = attempts[k]]
  /\ hpc' = [hpc EXCEPT ![h] = "analyzed"]
  /\ UNCHANGED <<attempts, log, haction>>

\* The failure is counted and the attempts are read; FailureAnalyzed is sent.
Analyze(h, o) ==
  LET k == SignatureOf(o) IN
  /\ hpc[h] = "idle"
  /\ occurrences[k] < MaxFailures
  /\ occurrences' = [occurrences EXCEPT ![k] = @ + 1]
  /\ hsig' = [hsig EXCEPT ![h] = k]
  /\ hocc' = [hocc EXCEPT ![h] = occurrences[k] + 1]
  /\ hprior' = [hprior EXCEPT ![h] = attempts[k]]
  /\ hpc' = [hpc EXCEPT ![h] = "analyzed"]
  /\ UNCHANGED <<attempts, log, haction>>

\* The decision, with the values read before the await; RepairDecisionMade is
\* sent.
Decide(h) ==
  LET k == hsig[h]
      a == ActionFor(k, hprior[h], hocc[h]) IN
  /\ hpc[h] = "analyzed"
  /\ attempts' = [attempts EXCEPT ![k] = IF a \in Repairs THEN @ + 1 ELSE @]
  /\ log' = [log EXCEPT ![k][a] = @ + 1]
  /\ haction' = [haction EXCEPT ![h] = a]
  /\ hpc' = [hpc EXCEPT ![h] = "decided"]
  /\ UNCHANGED <<occurrences, hsig, hocc, hprior>>

\* handle_failure returns, after the rollback callback and the last event; or
\* any of the awaited calls raises, and the exception goes to the caller.
Leave(h) ==
  /\ hpc[h] # "idle"
  /\ hpc' = [hpc EXCEPT ![h] = "idle"]
  /\ hsig' = [hsig EXCEPT ![h] = NoSignature]
  /\ hocc' = [hocc EXCEPT ![h] = 0]
  /\ hprior' = [hprior EXCEPT ![h] = 0]
  /\ haction' = [haction EXCEPT ![h] = NoAction]
  /\ UNCHANGED <<occurrences, attempts, log>>

Next ==
  \E h \in Handlers :
    \/ \E o \in Outputs : Analyze(h, o)
    \/ Decide(h)
    \/ Leave(h)

Spec == Init /\ [][Next]_vars

-----------------------------------------------------------------------------

TypeOK ==
  /\ occurrences \in [Signatures -> Nat]
  /\ attempts \in [Signatures -> Nat]
  /\ log \in [Signatures -> [RepairAction -> Nat]]
  /\ hpc \in [Handlers -> {"idle", "analyzed", "decided"}]
  /\ hsig \in [Handlers -> Signatures \cup {NoSignature}]
  /\ \A h \in Handlers : hpc[h] # "idle" => hsig[h] \in Signatures
  /\ hocc \in [Handlers -> Nat]
  /\ hprior \in [Handlers -> Nat]
  /\ haction \in [Handlers -> RepairAction \cup {NoAction}]

\* orchestration/self_healing.py: "a signature can be repaired at most
\* max_repair_attempts times before it escalates".
RepairsWithinLimit == \A k \in Signatures : attempts[k] <= MaxRepairAttempts

\* What handle_failure gives instead: a signature is repaired at most
\* max_repair_attempts - 1 + (number of handlers) times: the stale count each
\* of them decides by lets every overlapping handler through once.
RepairsBounded ==
  \A k \in Signatures :
    attempts[k] > 0
      => attempts[k] < MaxRepairAttempts + Cardinality(Handlers)

\* A signature is given to a model at most rollback_after_repeats - 1 times,
\* however handlers overlap: each failure is counted before the await, so no
\* two of them decide by the same number.
LlmRepairsBounded ==
  \A k \in Signatures :
    log[k]["llm_repair"] > 0
      => log[k]["llm_repair"] < RollbackAfterRepeats

\* A timeout is retried without repair at most once per overlapping handler.
RetriesBounded ==
  \A k \in Signatures : log[k]["retry"] <= Cardinality(Handlers)

\* Although the count a handler escalates by is old, the attempts really are
\* exhausted when it escalates, and they stay so.
EscalationJustified ==
  \A k \in Signatures :
    log[k]["escalate"] > 0 => attempts[k] >= MaxRepairAttempts
=============================================================================
