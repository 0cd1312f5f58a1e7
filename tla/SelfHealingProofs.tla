------------------------- MODULE SelfHealingProofs --------------------------
(***************************************************************************)
(* The bounds of SelfHealing for any number of overlapping handlers, any   *)
(* outputs and any policy.                                                 *)
(***************************************************************************)
EXTENDS SelfHealing, FiniteSetTheorems, TLAPS

-----------------------------------------------------------------------------
(* The inductive invariant: what the handlers between their read and their  *)
(* decision may still add to the counts.                                    *)

Undecided(k) == {h \in Handlers : hpc[h] = "analyzed" /\ hsig[h] = k}

\* Handlers that will not escalate, will not roll back, and will retry if
\* they can.
Passed(k) == {h \in Undecided(k) : hprior[h] < MaxRepairAttempts}
Early(k) == {h \in Undecided(k) : hocc[h] < RollbackAfterRepeats}
Fresh(k) == {h \in Undecided(k) : hprior[h] = 0}

RepairBudget(k) ==
  attempts[k] > 0 \/ Passed(k) # {}
    => attempts[k] + Cardinality(Passed(k))
         < MaxRepairAttempts + Cardinality(Handlers)

LlmBudget(k) ==
  /\ log[k]["llm_repair"] + Cardinality(Early(k)) <= occurrences[k]
  /\ log[k]["llm_repair"] > 0 \/ Early(k) # {}
       => log[k]["llm_repair"] + Cardinality(Early(k)) < RollbackAfterRepeats

RetryBudget(k) ==
  /\ log[k]["retry"] <= attempts[k]
  /\ log[k]["retry"] + Cardinality(Fresh(k)) <= Cardinality(Handlers)

\* What a handler has read is old, never ahead.
OldReads == \A h \in Handlers : hpc[h] = "analyzed" => hprior[h] <= attempts[hsig[h]]

IInv ==
  /\ TypeOK
  /\ OldReads
  /\ EscalationJustified
  /\ \A k \in Signatures : RepairBudget(k) /\ LlmBudget(k) /\ RetryBudget(k)

-----------------------------------------------------------------------------

\* The handlers that wait to decide are finitely many.
LEMMA WaitingFinite ==
  ASSUME NEW k
  PROVE  /\ IsFiniteSet(Passed(k)) /\ Cardinality(Passed(k)) \in Nat
         /\ IsFiniteSet(Early(k)) /\ Cardinality(Early(k)) \in Nat
         /\ IsFiniteSet(Fresh(k)) /\ Cardinality(Fresh(k)) \in Nat
         /\ Cardinality(Handlers) \in Nat
<1>1. Passed(k) \subseteq Handlers /\ Early(k) \subseteq Handlers
      /\ Fresh(k) \subseteq Handlers
  BY DEF Passed, Early, Fresh, Undecided
<1> QED
  BY <1>1, HandlersAssumption, FS_Subset, FS_CardinalityType

\* Adding a handler to a set of handlers that lacks it counts one more, and
\* never exceeds their number.
LEMMA OneMore ==
  ASSUME NEW S \in SUBSET Handlers, NEW h \in Handlers, h \notin S
  PROVE  /\ Cardinality(S \cup {h}) = Cardinality(S) + 1
         /\ Cardinality(S) + 1 <= Cardinality(Handlers)
<1>1. IsFiniteSet(S)
  BY HandlersAssumption, FS_Subset
<1>2. Cardinality(S \cup {h}) = Cardinality(S) + 1
  BY <1>1, FS_AddElement
<1>3. S \cup {h} \in SUBSET Handlers
  OBVIOUS
<1>4. Cardinality(S \cup {h}) <= Cardinality(Handlers)
  BY <1>3, HandlersAssumption, FS_Subset
<1> QED
  BY <1>2, <1>4

\* Removing a handler from a set counts one less if it was there.
LEMMA OneLess ==
  ASSUME NEW S \in SUBSET Handlers, NEW h
  PROVE  /\ Cardinality(S \ {h}) \in Nat /\ Cardinality(S) \in Nat
         /\ h \in S => Cardinality(S \ {h}) = Cardinality(S) - 1
         /\ h \notin S => Cardinality(S \ {h}) = Cardinality(S)
<1>1. IsFiniteSet(S)
  BY HandlersAssumption, FS_Subset
<1>2. /\ IsFiniteSet(S \ {h})
      /\ Cardinality(S \ {h}) = IF h \in S THEN Cardinality(S) - 1
                                           ELSE Cardinality(S)
  BY <1>1, FS_RemoveElement
<1> QED
  BY <1>1, <1>2, FS_CardinalityType

\* The signature of an output is one the counts are kept for.
LEMMA SignatureType == \A o \in Outputs : SignatureOf(o) \in Signatures
BY DEF Signatures

\* _decide answers with a repair action.
LEMMA ActionForType ==
  \A k, prior, occ : ActionFor(k, prior, occ) \in RepairAction
BY DEF ActionFor, RepairFor, RepairAction

\* No handler waits before the first failure.
LEMMA InitInv == Init => IInv
<1> SUFFICES ASSUME Init PROVE IInv
  OBVIOUS
<1>1. TypeOK
  BY DEF Init, TypeOK, RepairAction, NoAction
<1>2. OldReads
  BY DEF Init, OldReads
<1>3. EscalationJustified
  BY DEF Init, EscalationJustified, RepairAction
<1>4. ASSUME NEW k \in Signatures
      PROVE  RepairBudget(k) /\ LlmBudget(k) /\ RetryBudget(k)
  <2>1. Passed(k) = {} /\ Early(k) = {} /\ Fresh(k) = {}
    BY DEF Init, Passed, Early, Fresh, Undecided
  <2>2. attempts[k] = 0 /\ occurrences[k] = 0
        /\ log[k]["llm_repair"] = 0 /\ log[k]["retry"] = 0
    BY DEF Init, RepairAction
  <2> QED
    BY <2>1, <2>2, FS_EmptySet, WaitingFinite
       DEF RepairBudget, LlmBudget, RetryBudget
<1> QED
  BY <1>1, <1>2, <1>3, <1>4 DEF IInv

\* A failure is counted and read: one more handler waits to decide.
LEMMA AnalyzeInv ==
  ASSUME IInv, NEW h \in Handlers, NEW o \in Outputs, Analyze(h, o)
  PROVE  IInv'
<1> USE DEF IInv
<1>0. PICK s \in Signatures : s = SignatureOf(o)
  BY SignatureType
<1>1. /\ hpc[h] = "idle"
      /\ occurrences' = [occurrences EXCEPT ![s] = @ + 1]
      /\ hsig' = [hsig EXCEPT ![h] = s]
      /\ hocc' = [hocc EXCEPT ![h] = occurrences[s] + 1]
      /\ hprior' = [hprior EXCEPT ![h] = attempts[s]]
      /\ hpc' = [hpc EXCEPT ![h] = "analyzed"]
      /\ UNCHANGED <<attempts, log, haction>>
  BY <1>0 DEF Analyze
<1>2. TypeOK'
  BY <1>1 DEF TypeOK
<1>3. OldReads'
  BY <1>1 DEF OldReads, TypeOK
<1>4. EscalationJustified'
  BY <1>1 DEF EscalationJustified
<1>5. ASSUME NEW k \in Signatures
      PROVE  (RepairBudget(k) /\ LlmBudget(k) /\ RetryBudget(k))'
  <2> DEFINE P == Passed(k)
             E == Early(k)
             F == Fresh(k)
  <2>1. P \in SUBSET Handlers /\ E \in SUBSET Handlers /\ F \in SUBSET Handlers
        /\ h \notin P /\ h \notin E /\ h \notin F
    BY <1>1 DEF Passed, Early, Fresh, Undecided
  <2>2. /\ Passed(k)' = IF k = s /\ attempts[s] < MaxRepairAttempts
                        THEN P \cup {h} ELSE P
        /\ Early(k)' = IF k = s /\ occurrences[s] + 1 < RollbackAfterRepeats
                       THEN E \cup {h} ELSE E
        /\ Fresh(k)' = IF k = s /\ attempts[s] = 0 THEN F \cup {h} ELSE F
    BY <1>1 DEF Passed, Early, Fresh, Undecided, TypeOK
  <2>3. /\ attempts[k] \in Nat /\ occurrences[k] \in Nat
        /\ log[k]["llm_repair"] \in Nat /\ log[k]["retry"] \in Nat
        /\ Cardinality(P) \in Nat /\ Cardinality(E) \in Nat
        /\ Cardinality(F) \in Nat /\ Cardinality(Handlers) \in Nat
    BY WaitingFinite DEF TypeOK, RepairAction
  <2>4. /\ Cardinality(P \cup {h}) = Cardinality(P) + 1
        /\ Cardinality(P) + 1 <= Cardinality(Handlers)
        /\ Cardinality(E \cup {h}) = Cardinality(E) + 1
        /\ Cardinality(F \cup {h}) = Cardinality(F) + 1
        /\ Cardinality(F) + 1 <= Cardinality(Handlers)
    BY <2>1, OneMore
  <2>5. RepairBudget(k) /\ LlmBudget(k) /\ RetryBudget(k)
    OBVIOUS
  <2>6. occurrences'[k] = IF k = s THEN occurrences[k] + 1 ELSE occurrences[k]
    BY <1>1 DEF TypeOK
  <2>7. UNCHANGED <<attempts, log>>
    BY <1>1
  <2> HIDE DEF P, E, F
  <2>8. RepairBudget(k)'
    <3>1. CASE k = s /\ attempts[s] < MaxRepairAttempts
      <4>1. Passed(k)' = P \cup {h}
        BY <2>2, <3>1
      <4> QED
        BY <2>3, <2>4, <2>7, <3>1, <4>1, PolicyAssumption DEF RepairBudget
    <3>2. CASE ~(k = s /\ attempts[s] < MaxRepairAttempts)
      <4>1. Passed(k)' = P
        BY <2>2, <3>2
      <4> QED
        BY <2>5, <2>7, <4>1 DEF RepairBudget, P
    <3> QED
      BY <3>1, <3>2
  <2>9. LlmBudget(k)'
    <3>1. CASE k = s /\ occurrences[s] + 1 < RollbackAfterRepeats
      <4>1. Early(k)' = E \cup {h}
        BY <2>2, <3>1
      <4>2. log[k]["llm_repair"] + Cardinality(E) <= occurrences[k]
        BY <2>5 DEF LlmBudget, E
      <4> QED
        BY <2>3, <2>4, <2>6, <2>7, <3>1, <4>1, <4>2, PolicyAssumption
           DEF LlmBudget
    <3>2. CASE ~(k = s /\ occurrences[s] + 1 < RollbackAfterRepeats)
      <4>1. Early(k)' = E
        BY <2>2, <3>2
      <4> QED
        BY <2>3, <2>5, <2>6, <2>7, <4>1 DEF LlmBudget, E
    <3> QED
      BY <3>1, <3>2
  <2>10. RetryBudget(k)'
    <3>1. CASE k = s /\ attempts[s] = 0
      <4>1. Fresh(k)' = F \cup {h}
        BY <2>2, <3>1
      <4>2. log[k]["retry"] = 0
        BY <2>3, <2>5, <3>1 DEF RetryBudget
      <4> QED
        BY <2>3, <2>4, <2>7, <3>1, <4>1, <4>2 DEF RetryBudget
    <3>2. CASE ~(k = s /\ attempts[s] = 0)
      <4>1. Fresh(k)' = F
        BY <2>2, <3>2
      <4> QED
        BY <2>5, <2>7, <4>1 DEF RetryBudget, F
    <3> QED
      BY <3>1, <3>2
  <2> QED
    BY <2>8, <2>9, <2>10
<1> QED
  BY <1>2, <1>3, <1>4, <1>5
\* A handler that decides or leaves no longer waits, and nobody else moves.
LEMMA NoLongerWaiting ==
  ASSUME NEW h \in Handlers, TypeOK,
         hpc' \in {[hpc EXCEPT ![h] = "decided"], [hpc EXCEPT ![h] = "idle"]},
         \A g \in Handlers \ {h} : /\ hsig'[g] = hsig[g]
                                   /\ hocc'[g] = hocc[g]
                                   /\ hprior'[g] = hprior[g],
         NEW k
  PROVE  /\ Passed(k)' = Passed(k) \ {h}
         /\ Early(k)' = Early(k) \ {h}
         /\ Fresh(k)' = Fresh(k) \ {h}
<1>1. /\ hpc'[h] # "analyzed"
      /\ \A g \in Handlers \ {h} : hpc'[g] = hpc[g]
  BY DEF TypeOK
<1> QED
  BY <1>1 DEF Passed, Early, Fresh, Undecided

\* The decision: what the handler reserved by waiting becomes a count.
LEMMA DecideInv ==
  ASSUME IInv, NEW h \in Handlers, Decide(h)
  PROVE  IInv'
<1> USE DEF IInv
<1>0. PICK s \in Signatures : s = hsig[h]
  BY DEF Decide, TypeOK
<1>1. PICK a \in RepairAction : a = ActionFor(s, hprior[h], hocc[h])
  BY ActionForType
<1>2. /\ hpc[h] = "analyzed"
      /\ attempts' = [attempts EXCEPT ![s] = IF a \in Repairs THEN @ + 1 ELSE @]
      /\ log' = [log EXCEPT ![s][a] = @ + 1]
      /\ haction' = [haction EXCEPT ![h] = a]
      /\ hpc' = [hpc EXCEPT ![h] = "decided"]
      /\ UNCHANGED <<occurrences, hsig, hocc, hprior>>
  BY <1>0, <1>1 DEF Decide
<1>3. /\ attempts' \in [Signatures -> Nat]
      /\ attempts'[s] = IF a \in Repairs THEN attempts[s] + 1 ELSE attempts[s]
      /\ \A k \in Signatures \ {s} : attempts'[k] = attempts[k]
  BY <1>2 DEF TypeOK
<1>4. /\ log' \in [Signatures -> [RepairAction -> Nat]]
      /\ log'[s][a] = log[s][a] + 1
      /\ \A b \in RepairAction \ {a} : log'[s][b] = log[s][b]
      /\ \A k \in Signatures \ {s} : log'[k] = log[k]
  BY <1>2 DEF TypeOK
<1>5. TypeOK'
  BY <1>2, <1>3, <1>4 DEF TypeOK
<1>6. \A k \in Signatures : attempts[k] \in Nat /\ attempts'[k] >= attempts[k]
  BY <1>3 DEF TypeOK
<1>7. OldReads'
  <2> SUFFICES ASSUME NEW g \in Handlers, hpc'[g] = "analyzed"
               PROVE  hprior'[g] <= attempts'[hsig'[g]]
    BY DEF OldReads
  <2>1. hpc[g] = "analyzed" /\ hprior[g] \in Nat /\ hsig[g] \in Signatures
    BY <1>2 DEF TypeOK
  <2>2. hprior[g] <= attempts[hsig[g]]
    BY <2>1 DEF OldReads
  <2>3. attempts[hsig[g]] \in Nat /\ attempts'[hsig[g]] \in Nat
        /\ attempts'[hsig[g]] >= attempts[hsig[g]]
    BY <1>3, <1>6, <2>1
  <2> QED
    BY <1>2, <2>1, <2>2, <2>3
<1>8. a = "escalate" => hprior[h] >= MaxRepairAttempts
  BY <1>1 DEF ActionFor, RepairFor
<1>9. EscalationJustified'
  <2> SUFFICES ASSUME NEW k \in Signatures, log'[k]["escalate"] > 0
               PROVE  attempts'[k] >= MaxRepairAttempts
    BY DEF EscalationJustified
  <2>1. attempts[k] \in Nat /\ attempts'[k] \in Nat
        /\ attempts'[k] >= attempts[k] /\ "escalate" \in RepairAction
    BY <1>3, <1>6 DEF RepairAction
  <2>2. CASE k = s /\ a = "escalate"
    <3>1. hprior[h] <= attempts[s] /\ hprior[h] \in Nat
      BY <1>0, <1>2 DEF OldReads, TypeOK
    <3> QED
      BY <1>8, <2>1, <2>2, <3>1, PolicyAssumption
  <2>3. CASE ~(k = s /\ a = "escalate")
    <3>1. log'[k]["escalate"] = log[k]["escalate"]
      BY <1>4, <2>1, <2>3
    <3> QED
      BY <2>1, <3>1, PolicyAssumption DEF EscalationJustified
  <2> QED
    BY <2>2, <2>3
<1>10. ASSUME NEW k \in Signatures
       PROVE  (RepairBudget(k) /\ LlmBudget(k) /\ RetryBudget(k))'
  <2> DEFINE P == Passed(k)
             E == Early(k)
             F == Fresh(k)
  <2>1. P \in SUBSET Handlers /\ E \in SUBSET Handlers /\ F \in SUBSET Handlers
    BY DEF Passed, Early, Fresh, Undecided
  <2>2. Passed(k)' = P \ {h} /\ Early(k)' = E \ {h} /\ Fresh(k)' = F \ {h}
    BY <1>2, NoLongerWaiting
  <2>3. /\ attempts[k] \in Nat /\ occurrences[k] \in Nat
        /\ attempts'[k] \in Nat
        /\ log[k]["llm_repair"] \in Nat /\ log[k]["retry"] \in Nat
        /\ Cardinality(Handlers) \in Nat
        /\ "llm_repair" \in RepairAction /\ "retry" \in RepairAction
    BY <1>3, WaitingFinite DEF TypeOK, RepairAction
  <2>4. RepairBudget(k) /\ LlmBudget(k) /\ RetryBudget(k)
    OBVIOUS
  <2>5. hprior[h] \in Nat /\ hocc[h] \in Nat
    BY DEF TypeOK
  <2>6. /\ a \in Repairs => hprior[h] < MaxRepairAttempts
        /\ a = "llm_repair" => hocc[h] < RollbackAfterRepeats
        /\ a = "retry" => hprior[h] = 0
    BY <1>1, <2>5, PolicyAssumption DEF ActionFor, RepairFor, Repairs
  <2>7. k = s => /\ a \in Repairs => h \in P
                 /\ a = "llm_repair" => h \in E
                 /\ a = "retry" => h \in F
    BY <1>0, <1>2, <2>6 DEF Passed, Early, Fresh, Undecided
  <2>8. /\ Cardinality(P \ {h}) \in Nat /\ Cardinality(P) \in Nat
        /\ h \in P => Cardinality(P \ {h}) = Cardinality(P) - 1
        /\ h \notin P => Cardinality(P \ {h}) = Cardinality(P)
    BY <2>1, OneLess
  <2>9. /\ Cardinality(E \ {h}) \in Nat /\ Cardinality(E) \in Nat
        /\ h \in E => Cardinality(E \ {h}) = Cardinality(E) - 1
        /\ h \notin E => Cardinality(E \ {h}) = Cardinality(E)
    BY <2>1, OneLess
  <2>10. /\ Cardinality(F \ {h}) \in Nat /\ Cardinality(F) \in Nat
         /\ h \in F => Cardinality(F \ {h}) = Cardinality(F) - 1
         /\ h \notin F => Cardinality(F \ {h}) = Cardinality(F)
    BY <2>1, OneLess
  <2> HIDE DEF P, E, F
  <2>11. RepairBudget(k)'
    <3>1. attempts[k] > 0 \/ P # {}
            => attempts[k] + Cardinality(P)
                 < MaxRepairAttempts + Cardinality(Handlers)
      BY <2>4 DEF RepairBudget, P
    <3>2. CASE k = s /\ a \in Repairs
      <4>1. attempts'[k] = attempts[k] + 1 /\ h \in P
        BY <1>3, <2>7, <3>2
      <4> QED
        BY <2>2, <2>3, <2>8, <3>1, <4>1, PolicyAssumption DEF RepairBudget
    <3>3. CASE ~(k = s /\ a \in Repairs)
      <4>1. attempts'[k] = attempts[k]
        BY <1>3, <3>3
      <4> QED
        BY <2>2, <2>3, <2>8, <3>1, <4>1, PolicyAssumption DEF RepairBudget
    <3> QED
      BY <3>2, <3>3
  <2>12. LlmBudget(k)'
    <3>1. /\ log[k]["llm_repair"] + Cardinality(E) <= occurrences[k]
          /\ log[k]["llm_repair"] > 0 \/ E # {}
               => log[k]["llm_repair"] + Cardinality(E) < RollbackAfterRepeats
      BY <2>4 DEF LlmBudget, E
    <3>2. CASE k = s /\ a = "llm_repair"
      <4>1. log'[k]["llm_repair"] = log[k]["llm_repair"] + 1 /\ h \in E
        BY <1>4, <2>7, <3>2
      <4> QED
        BY <1>2, <2>2, <2>3, <2>9, <3>1, <4>1, PolicyAssumption DEF LlmBudget
    <3>3. CASE ~(k = s /\ a = "llm_repair")
      <4>1. log'[k]["llm_repair"] = log[k]["llm_repair"]
        BY <1>4, <2>3, <3>3
      <4> QED
        BY <1>2, <2>2, <2>3, <2>9, <3>1, <4>1, PolicyAssumption DEF LlmBudget
    <3> QED
      BY <3>2, <3>3
  <2>13. RetryBudget(k)'
    <3>1. /\ log[k]["retry"] <= attempts[k]
          /\ log[k]["retry"] + Cardinality(F) <= Cardinality(Handlers)
      BY <2>4 DEF RetryBudget, F
    <3>2. CASE k = s /\ a = "retry"
      <4>1. log'[k]["retry"] = log[k]["retry"] + 1 /\ h \in F
            /\ attempts'[k] = attempts[k] + 1
        BY <1>3, <1>4, <2>7, <3>2 DEF Repairs
      <4> QED
        BY <2>2, <2>3, <2>10, <3>1, <4>1 DEF RetryBudget
    <3>3. CASE ~(k = s /\ a = "retry")
      <4>1. log'[k]["retry"] = log[k]["retry"] /\ attempts'[k] >= attempts[k]
        BY <1>4, <1>6, <2>3, <3>3
      <4> QED
        BY <2>2, <2>3, <2>10, <3>1, <4>1 DEF RetryBudget
    <3> QED
      BY <3>2, <3>3
  <2> QED
    BY <2>11, <2>12, <2>13
<1> QED
  BY <1>5, <1>7, <1>9, <1>10

\* A handler that returns, or that an exception takes out before its decision,
\* only gives up what it reserved.
LEMMA LeaveInv ==
  ASSUME IInv, NEW h \in Handlers, Leave(h)
  PROVE  IInv'
<1> USE DEF IInv
<1>1. /\ hpc' = [hpc EXCEPT ![h] = "idle"]
      /\ hsig' = [hsig EXCEPT ![h] = NoSignature]
      /\ hocc' = [hocc EXCEPT ![h] = 0]
      /\ hprior' = [hprior EXCEPT ![h] = 0]
      /\ haction' = [haction EXCEPT ![h] = NoAction]
      /\ UNCHANGED <<occurrences, attempts, log>>
  BY DEF Leave
<1>2. TypeOK'
  BY <1>1 DEF TypeOK
<1>3. OldReads' /\ EscalationJustified'
  BY <1>1 DEF OldReads, EscalationJustified, TypeOK
<1>4. ASSUME NEW k \in Signatures
      PROVE  (RepairBudget(k) /\ LlmBudget(k) /\ RetryBudget(k))'
  <2> DEFINE P == Passed(k)
             E == Early(k)
             F == Fresh(k)
  <2>1. P \in SUBSET Handlers /\ E \in SUBSET Handlers /\ F \in SUBSET Handlers
    BY DEF Passed, Early, Fresh, Undecided
  <2>2. \A g \in Handlers \ {h} : /\ hsig'[g] = hsig[g]
                                  /\ hocc'[g] = hocc[g]
                                  /\ hprior'[g] = hprior[g]
    BY <1>1 DEF TypeOK
  <2>3. Passed(k)' = P \ {h} /\ Early(k)' = E \ {h} /\ Fresh(k)' = F \ {h}
    BY <1>1, <2>2, NoLongerWaiting
  <2>4. /\ attempts[k] \in Nat /\ occurrences[k] \in Nat
        /\ log[k]["llm_repair"] \in Nat /\ log[k]["retry"] \in Nat
        /\ Cardinality(Handlers) \in Nat
    BY WaitingFinite DEF TypeOK, RepairAction
  <2>5. ASSUME NEW S \in SUBSET Handlers
        PROVE  /\ Cardinality(S \ {h}) \in Nat /\ Cardinality(S) \in Nat
               /\ Cardinality(S \ {h}) <= Cardinality(S)
    <3>1. CASE h \in S
      BY <3>1, OneLess
    <3>2. CASE h \notin S
      BY <3>2, OneLess
    <3> QED
      BY <3>1, <3>2
  <2>6. RepairBudget(k) /\ LlmBudget(k) /\ RetryBudget(k)
    OBVIOUS
  <2>7. RepairBudget(k)'
    BY <1>1, <2>1, <2>3, <2>4, <2>5, <2>6, PolicyAssumption DEF RepairBudget
  <2>8. LlmBudget(k)'
    BY <1>1, <2>1, <2>3, <2>4, <2>5, <2>6, PolicyAssumption DEF LlmBudget
  <2>9. RetryBudget(k)'
    BY <1>1, <2>1, <2>3, <2>4, <2>5, <2>6 DEF RetryBudget
  <2> QED
    BY <2>7, <2>8, <2>9
<1> QED
  BY <1>2, <1>3, <1>4

\* Every step preserves the invariant.
LEMMA NextInv == IInv /\ [Next]_vars => IInv'
<1> SUFFICES ASSUME IInv, [Next]_vars PROVE IInv'
  OBVIOUS
<1>1. ASSUME NEW h \in Handlers, NEW o \in Outputs, Analyze(h, o) PROVE IInv'
  BY <1>1, AnalyzeInv
<1>2. ASSUME NEW h \in Handlers, Decide(h) PROVE IInv'
  BY <1>2, DecideInv
<1>3. ASSUME NEW h \in Handlers, Leave(h) PROVE IInv'
  BY <1>3, LeaveInv
<1>4. CASE UNCHANGED vars
  BY <1>4 DEF vars, callVars, IInv, TypeOK, OldReads, EscalationJustified,
              RepairBudget, LlmBudget, RetryBudget, Passed, Early, Fresh,
              Undecided
<1> QED
  BY <1>1, <1>2, <1>3, <1>4 DEF Next

\* However many calls of handle_failure overlap, a signature is repaired fewer
\* than max_repair_attempts plus their number times; with one call at a time
\* that is the documented bound.
THEOREM RepairsAreBounded == Spec => [](TypeOK /\ RepairsBounded)
<1>1. IInv => RepairsBounded
  <2> SUFFICES ASSUME IInv, NEW k \in Signatures, attempts[k] > 0
               PROVE  attempts[k] < MaxRepairAttempts + Cardinality(Handlers)
    BY DEF RepairsBounded
  <2>1. attempts[k] + Cardinality(Passed(k))
          < MaxRepairAttempts + Cardinality(Handlers)
    BY DEF IInv, RepairBudget
  <2> QED
    BY <2>1, WaitingFinite, PolicyAssumption DEF IInv, TypeOK
<1>2. IInv => TypeOK
  BY DEF IInv
<1> QED
  BY <1>1, <1>2, InitInv, NextInv, PTL DEF Spec

\* Overlap does not weaken the other limit: a model repairs a signature fewer
\* than rollback_after_repeats times.
THEOREM LlmRepairsAreBounded == Spec => []LlmRepairsBounded
<1>1. IInv => LlmRepairsBounded
  <2> SUFFICES ASSUME IInv, NEW k \in Signatures, log[k]["llm_repair"] > 0
               PROVE  log[k]["llm_repair"] < RollbackAfterRepeats
    BY DEF LlmRepairsBounded
  <2>1. log[k]["llm_repair"] + Cardinality(Early(k)) < RollbackAfterRepeats
    BY DEF IInv, LlmBudget
  <2> QED
    BY <2>1, WaitingFinite, PolicyAssumption DEF IInv, TypeOK, RepairAction
<1> QED
  BY <1>1, InitInv, NextInv, PTL DEF Spec

\* A timeout is retried at most once per overlapping call.
THEOREM RetriesAreBounded == Spec => []RetriesBounded
<1>1. IInv => RetriesBounded
  <2> SUFFICES ASSUME IInv, NEW k \in Signatures
               PROVE  log[k]["retry"] <= Cardinality(Handlers)
    BY DEF RetriesBounded
  <2>1. log[k]["retry"] + Cardinality(Fresh(k)) <= Cardinality(Handlers)
    BY DEF IInv, RetryBudget
  <2> QED
    BY <2>1, WaitingFinite DEF IInv, TypeOK, RepairAction
<1> QED
  BY <1>1, InitInv, NextInv, PTL DEF Spec

\* A handler escalates by an old count, and is right.
THEOREM EscalationIsJustified == Spec => []EscalationJustified
<1>1. IInv => EscalationJustified
  BY DEF IInv
<1> QED
  BY <1>1, InitInv, NextInv, PTL DEF Spec
=============================================================================
