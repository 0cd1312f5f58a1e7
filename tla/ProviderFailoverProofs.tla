----------------------- MODULE ProviderFailoverProofs -----------------------
(***************************************************************************)
(* For any providers, budgets, orders and number of overlapping calls: the *)
(* health of a provider stays consistent, its budget is overrun by at most *)
(* one response per call, and its cooldown is honoured.                    *)
(***************************************************************************)
EXTENDS ProviderFailover, FiniteSetTheorems, TLAPS

\* The calls that may still spend the budget of p, and the tokens they can
\* spend at most: what makes the bound inductive.
Listed(p) == {c \in Callers : p \in ctodo[c]}

OverrunInvariant ==
  /\ \A c \in Callers :
       cpc[c] \in {"selected", "invoking"} => cprov[c] \in ctodo[c]
  /\ \A p \in Budgeted :
       Listed(p) # {} \/ health[p].tokens > 0
         => health[p].tokens + Cardinality(Listed(p)) * MaxTokens
              < Budget[p] + Cardinality(Callers) * MaxTokens

-----------------------------------------------------------------------------
(* What the operations of ProviderHealth preserve.                          *)

\* refresh, _record_success, _record_failure and the passing of time keep the
\* fields of a health well typed and in agreement.
LEMMA NewHealthGood == NewHealth \in Health /\ Consistent(NewHealth)
  BY ProfileAssumption DEF NewHealth, Health, ProviderStatus, Consistent

LEMMA RefreshGood ==
  ASSUME NEW h \in Health, Consistent(h)
  PROVE  /\ Refresh(h) \in Health
         /\ Consistent(Refresh(h))
         /\ Refresh(h).tokens = h.tokens
         /\ h.cooldown # 0 \/ h.status = "FAILED" => Refresh(h).status = h.status
<1>1. CASE h.status \in Recovering /\ h.cooldown = 0
  <2>1. Refresh(h) = [status |-> "AVAILABLE", failures |-> 0,
                      cooldown |-> NoCooldown, tokens |-> h.tokens]
    BY <1>1 DEF Refresh, Health
  <2>2. h.status # "FAILED"
    BY <1>1 DEF Recovering
  <2> QED
    BY <1>1, <2>1, <2>2, ProfileAssumption
    DEF Health, ProviderStatus, Consistent
<1>2. CASE ~(h.status \in Recovering /\ h.cooldown = 0)
  BY <1>2 DEF Refresh
<1> QED
  BY <1>1, <1>2

LEMMA RecordSuccessGood ==
  ASSUME NEW h \in Health, NEW p \in Providers, NEW used \in Nat
  PROVE  /\ RecordSuccess(p, h, used) \in Health
         /\ Consistent(RecordSuccess(p, h, used))
         /\ p \in Budgeted => RecordSuccess(p, h, used).tokens = h.tokens + used
  BY ProfileAssumption
  DEF RecordSuccess, Health, ProviderStatus, Consistent

\* What the adapters raise is recorded as one of three kinds of error.
LEMMA ErrorKinds == Errors \subseteq {"rate_limited", "credit_exhausted", "error"}
<1>1. Raised \subseteq {"ProviderCreditExhausted", "ProviderRateLimited",
                       "ProviderTimeout", "ProviderError"}
  BY DEF Raised, MapError
<1> QED
  BY <1>1 DEF Errors, Kind

LEMMA RecordFailureGood ==
  ASSUME NEW h \in Health, Consistent(h), NEW error \in Errors
  PROVE  /\ RecordFailure(h, error) \in Health
         /\ Consistent(RecordFailure(h, error))
         /\ RecordFailure(h, error).tokens = h.tokens
         /\ h.status # "AVAILABLE"
              => RecordFailure(h, error).status # "AVAILABLE"
<1> USE ProfileAssumption DEF Health, ProviderStatus, Consistent
<1>1. CASE error = "rate_limited"
  <2>1. RecordFailure(h, error) =
          [status |-> "RATE_LIMITED", failures |-> h.failures,
           cooldown |-> CooldownTime, tokens |-> h.tokens]
    BY <1>1 DEF RecordFailure
  <2> QED
    BY <2>1
<1>2. CASE error = "credit_exhausted"
  <2>1. RecordFailure(h, error) =
          [status |-> "OFFLINE", failures |-> h.failures,
           cooldown |-> CreditCooldownTime, tokens |-> h.tokens]
    BY <1>2 DEF RecordFailure
  <2> QED
    BY <2>1
<1>3. CASE error = "error" /\ h.failures + 1 >= MaxConsecutiveFailures
  <2>1. RecordFailure(h, error) =
          [status |-> "FAILED", failures |-> h.failures + 1,
           cooldown |-> CooldownTime, tokens |-> h.tokens]
    BY <1>3 DEF RecordFailure
  <2> QED
    BY <1>3, <2>1
<1>4. CASE error = "error" /\ ~(h.failures + 1 >= MaxConsecutiveFailures)
  <2>1. RecordFailure(h, error) =
          [status |-> h.status, failures |-> h.failures + 1,
           cooldown |-> h.cooldown, tokens |-> h.tokens]
    BY <1>4 DEF RecordFailure
  <2>2. h.status # "FAILED"
    BY <1>4
  <2> QED
    BY <1>4, <2>1, <2>2
<1> QED
  BY <1>1, <1>2, <1>3, <1>4, ErrorKinds

LEMMA ElapseGood ==
  ASSUME NEW h \in Health, Consistent(h)
  PROVE  /\ Elapse(h) \in Health
         /\ Consistent(Elapse(h))
         /\ Elapse(h).tokens = h.tokens
         /\ Elapse(h).status = h.status
<1>1. CASE h.cooldown \in Nat \ {0}
  <2>1. Elapse(h) = [status |-> h.status, failures |-> h.failures,
                     cooldown |-> h.cooldown - 1, tokens |-> h.tokens]
    BY <1>1 DEF Elapse, Health
  <2>2. h.cooldown - 1 \in Nat /\ h.cooldown - 1 # NoCooldown
    BY <1>1, ProfileAssumption
  <2>3. h.cooldown # NoCooldown
    BY <1>1, ProfileAssumption
  <2> QED
    BY <2>1, <2>2, <2>3 DEF Health, Consistent
<1>2. CASE h.cooldown \notin Nat \ {0}
  BY <1>2 DEF Elapse
<1> QED
  BY <1>1, <1>2

-----------------------------------------------------------------------------
(* Types and health, action by action.                                      *)

HealthInv == TypeOK /\ HealthConsistent

\* A call that returns or raises leaves well-typed bookkeeping behind.
LEMMA LeaveType ==
  ASSUME TypeOK, NEW c \in Callers, Leave(c)
  PROVE  /\ cpc' \in [Callers -> CallerPc]
         /\ ctodo' \in [Callers -> SUBSET Providers]
         /\ crank' \in [Callers -> [Providers -> Nat]]
         /\ cprov' \in [Callers -> Providers \cup {NoProvider}]
         /\ \A d \in Callers : cpc'[d] # "idle" => cprov'[d] \in Providers
         /\ csnap' \in [Callers -> ProviderStatus \cup {NotSaved}]
         /\ \A d \in Callers : ctodo'[d] \subseteq ctodo[d]
         /\ \A d \in Callers : cpc'[d] \in {"selected", "invoking"}
              => cpc[d] = cpc'[d] /\ cprov[d] = cprov'[d] /\ ctodo[d] = ctodo'[d]
<1> USE DEF TypeOK, Leave
<1>1. NoRank \in [Providers -> Nat]
  BY DEF NoRank
<1>2. /\ cpc' \in [Callers -> CallerPc]
      /\ crank' \in [Callers -> [Providers -> Nat]]
      /\ csnap' \in [Callers -> ProviderStatus \cup {NotSaved}]
  BY <1>1 DEF CallerPc
<1>3. /\ ctodo' \in [Callers -> SUBSET Providers]
      /\ cprov' \in [Callers -> Providers \cup {NoProvider}]
  OBVIOUS
<1>4. \A d \in Callers : cpc'[d] # "idle" => cprov'[d] \in Providers
  OBVIOUS
<1>5. \A d \in Callers : ctodo'[d] \subseteq ctodo[d]
  OBVIOUS
<1>6. \A d \in Callers : cpc'[d] \in {"selected", "invoking"}
        => cpc[d] = cpc'[d] /\ cprov[d] = cprov'[d] /\ ctodo[d] = ctodo'[d]
  OBVIOUS
<1> QED
  BY <1>2, <1>3, <1>4, <1>5, <1>6

\* candidates refreshes health and lists providers.
LEMMA BeginHealth ==
  ASSUME HealthInv, NEW c \in Callers, NEW r \in Requests, Begin(c, r)
  PROVE  HealthInv'
<1> USE DEF HealthInv
<1>1. \A p \in Providers : /\ health'[p] \in {health[p], Refresh(health[p])}
                           /\ health'[p] \in Health
                           /\ Consistent(health'[p])
  BY RefreshGood DEF Begin, TypeOK, HealthConsistent
<1>2. health' \in [Providers -> Health]
  BY <1>1 DEF Begin
<1>3. r.eligible \subseteq Providers /\ r.rank \in [Providers -> Nat]
  BY RequestsAssumption
<1>4. CASE UNCHANGED callVars
  BY <1>1, <1>2, <1>4 DEF Begin, TypeOK, HealthConsistent, callVars
<1>5. ASSUME NEW S \in SUBSET Providers, NEW p \in S,
             cpc' = [cpc EXCEPT ![c] = "selected"],
             ctodo' = [ctodo EXCEPT ![c] = S],
             crank' = [crank EXCEPT ![c] = r.rank],
             cprov' = [cprov EXCEPT ![c] = p],
             UNCHANGED csnap
      PROVE  TypeOK'
  <2>1. cpc' \in [Callers -> CallerPc]
    BY <1>5 DEF TypeOK, CallerPc
  <2>2. /\ ctodo' \in [Callers -> SUBSET Providers]
        /\ crank' \in [Callers -> [Providers -> Nat]]
        /\ cprov' \in [Callers -> Providers \cup {NoProvider}]
        /\ \A d \in Callers : cpc'[d] # "idle" => cprov'[d] \in Providers
    BY <1>3, <1>5 DEF TypeOK
  <2> QED
    BY <1>2, <1>5, <2>1, <2>2 DEF TypeOK, Begin
<1>6. ASSUME ~(UNCHANGED callVars) PROVE TypeOK'
  <2> DEFINE refreshed == [p \in Providers |->
                             IF p \in r.eligible THEN Refresh(health[p])
                                                 ELSE health[p]]
             S == {p \in r.eligible : refreshed[p].status = "AVAILABLE"
                                      /\ HasBudget(p, refreshed[p])}
  <2>1. PICK p \in S : /\ cpc' = [cpc EXCEPT ![c] = "selected"]
                       /\ ctodo' = [ctodo EXCEPT ![c] = S]
                       /\ crank' = [crank EXCEPT ![c] = r.rank]
                       /\ cprov' = [cprov EXCEPT ![c] = p]
                       /\ UNCHANGED csnap
    BY <1>6 DEF Begin
  <2>2. S \in SUBSET Providers
    BY <1>3
  <2> HIDE DEF S
  <2> QED
    BY <1>5, <2>1, <2>2
<1> QED
  BY <1>1, <1>4, <1>6 DEF HealthConsistent

\* One provider's health changes, for a good one.
LEMMA OneHealthChanges ==
  ASSUME HealthInv, NEW p \in Providers, NEW h \in Health, Consistent(h),
         health' = [health EXCEPT ![p] = h]
  PROVE  health' \in [Providers -> Health] /\ HealthConsistent'
  BY DEF HealthInv, TypeOK, HealthConsistent

LEMMA InvokeHealth ==
  ASSUME HealthInv, NEW c \in Callers, Invoke(c)
  PROVE  HealthInv'
<1> DEFINE p == cprov[c]
           h == Refresh(health[p])
<1>1. p \in Providers /\ cpc[c] = "selected"
  BY DEF Invoke, HealthInv, TypeOK
<1>2. h \in Health /\ Consistent(h)
  BY <1>1, RefreshGood DEF HealthInv, TypeOK, HealthConsistent
<1>3. health' \in [Providers -> Health] /\ HealthConsistent'
  BY <1>1, <1>2, OneHealthChanges DEF Invoke
<1>4. h.status \in ProviderStatus
  BY <1>2 DEF Health
<1>5. /\ cpc' \in [Callers -> CallerPc]
      /\ \A d \in Callers : cpc'[d] # "idle" => cprov'[d] \in Providers
  BY <1>1 DEF Invoke, HealthInv, TypeOK, CallerPc
<1>6. /\ ctodo' \in [Callers -> SUBSET Providers]
      /\ csnap' \in [Callers -> ProviderStatus \cup {NotSaved}]
  BY <1>4 DEF Invoke, HealthInv, TypeOK
<1> QED
  BY <1>3, <1>5, <1>6 DEF Invoke, HealthInv, TypeOK

LEMMA ReplyHealth ==
  ASSUME HealthInv, NEW c \in Callers, Reply(c)
  PROVE  HealthInv'
<1> DEFINE p == cprov[c]
<1>1. p \in Providers /\ cpc[c] = "invoking"
  BY DEF Reply, HealthInv, TypeOK
<1>2. PICK used \in 0..MaxTokens :
        health' = [health EXCEPT ![p] = RecordSuccess(p, health[p], used)]
  BY DEF Reply
<1>3. used \in Nat
  BY BoundsAssumption
<1>4. /\ RecordSuccess(p, health[p], used) \in Health
      /\ Consistent(RecordSuccess(p, health[p], used))
  BY <1>1, <1>3, RecordSuccessGood DEF HealthInv, TypeOK
<1>5. health' \in [Providers -> Health] /\ HealthConsistent'
  BY <1>1, <1>2, <1>4, OneHealthChanges
<1>6. /\ cpc' \in [Callers -> CallerPc]
      /\ \A d \in Callers : cpc'[d] # "idle" => cprov'[d] \in Providers
  BY <1>1 DEF Reply, HealthInv, TypeOK, CallerPc
<1>7. /\ ctodo' \in [Callers -> SUBSET Providers]
      /\ csnap' \in [Callers -> ProviderStatus \cup {NotSaved}]
  BY DEF Reply, HealthInv, TypeOK, ProviderStatus
<1> QED
  BY <1>5, <1>6, <1>7 DEF Reply, HealthInv, TypeOK

LEMMA InvokeFailsHealth ==
  ASSUME HealthInv, NEW c \in Callers, NEW error \in Errors,
         InvokeFails(c, error)
  PROVE  HealthInv'
<1> DEFINE p == cprov[c]
           h == RecordFailure(health[p], error)
<1>1. p \in Providers /\ cpc[c] = "invoking"
  BY DEF InvokeFails, HealthInv, TypeOK
<1>2. h \in Health /\ Consistent(h)
  BY <1>1, RecordFailureGood DEF HealthInv, TypeOK, HealthConsistent
<1>3. health' \in [Providers -> Health] /\ HealthConsistent'
  BY <1>1, <1>2, OneHealthChanges DEF InvokeFails
<1>4. h.status \in ProviderStatus
  BY <1>2 DEF Health
<1>5. /\ cpc' \in [Callers -> CallerPc]
      /\ \A d \in Callers : cpc'[d] # "idle" => cprov'[d] \in Providers
  BY <1>1 DEF InvokeFails, HealthInv, TypeOK, CallerPc
<1>6. /\ ctodo' \in [Callers -> SUBSET Providers]
      /\ csnap' \in [Callers -> ProviderStatus \cup {NotSaved}]
  BY <1>4 DEF InvokeFails, HealthInv, TypeOK
<1> QED
  BY <1>3, <1>5, <1>6 DEF InvokeFails, HealthInv, TypeOK

LEMMA SaveHealth ==
  ASSUME HealthInv, NEW c \in Callers, Save(c)
  PROVE  HealthInv'
<1> USE DEF HealthInv
<1>1. cprov[c] \in Providers
  BY DEF Save, TypeOK
<1>2. stored' \in [Providers -> ProviderStatus \cup {NotSaved}]
  BY <1>1 DEF Save, TypeOK
<1>3. HealthConsistent'
  BY DEF Save, HealthConsistent
<1>4. CASE Leave(c)
  BY <1>2, <1>3, <1>4, LeaveType DEF Save, TypeOK
<1>5. CASE /\ cpc[c] = "saving_failure"
           /\ cpc' = [cpc EXCEPT ![c] = "failed_over"]
           /\ csnap' = [csnap EXCEPT ![c] = NotSaved]
           /\ UNCHANGED <<ctodo, crank, cprov>>
  <2>1. /\ cpc' \in [Callers -> CallerPc]
        /\ \A d \in Callers : cpc'[d] # "idle" => cprov'[d] \in Providers
    BY <1>1, <1>5 DEF TypeOK, CallerPc
  <2>2. csnap' \in [Callers -> ProviderStatus \cup {NotSaved}]
    BY <1>5 DEF TypeOK
  <2> QED
    BY <1>2, <1>3, <1>5, <2>1, <2>2 DEF Save, TypeOK
<1> QED
  BY <1>4, <1>5 DEF Save

LEMMA FailOverHealth ==
  ASSUME HealthInv, NEW c \in Callers, FailOver(c)
  PROVE  HealthInv'
<1> USE DEF HealthInv
<1>1. HealthConsistent'
  BY DEF FailOver, HealthConsistent
<1>2. CASE Leave(c)
  BY <1>1, <1>2, LeaveType DEF FailOver, TypeOK
<1>3. ASSUME NEW p \in ctodo[c],
             cprov' = [cprov EXCEPT ![c] = p],
             cpc' = [cpc EXCEPT ![c] = "selected"],
             UNCHANGED <<ctodo, crank, csnap>>
      PROVE  TypeOK'
  <2>1. p \in Providers
    BY DEF TypeOK
  <2>2. /\ cpc' \in [Callers -> CallerPc]
        /\ cprov' \in [Callers -> Providers \cup {NoProvider}]
        /\ \A d \in Callers : cpc'[d] # "idle" => cprov'[d] \in Providers
    BY <1>3, <2>1 DEF TypeOK, CallerPc
  <2> QED
    BY <1>3, <2>2 DEF FailOver, TypeOK
<1> QED
  BY <1>1, <1>2, <1>3 DEF FailOver

LEMMA TickHealth ==
  ASSUME HealthInv, Tick
  PROVE  HealthInv'
<1>1. \A p \in Providers : /\ health'[p] = Elapse(health[p])
                           /\ Elapse(health[p]) \in Health
                           /\ Consistent(Elapse(health[p]))
  BY ElapseGood DEF Tick, HealthInv, TypeOK, HealthConsistent
<1>2. health' \in [Providers -> Health]
  BY <1>1 DEF Tick
<1> QED
  BY <1>1, <1>2 DEF Tick, HealthInv, TypeOK, HealthConsistent, callVars

LEMMA RestartHealth ==
  ASSUME HealthInv, Restart
  PROVE  HealthInv'
<1>1. health' \in [Providers -> Health] /\ HealthConsistent'
  BY NewHealthGood DEF Restart, HealthConsistent
<1>2. /\ cpc' \in [Callers -> CallerPc]
      /\ crank' \in [Callers -> [Providers -> Nat]]
      /\ csnap' \in [Callers -> ProviderStatus \cup {NotSaved}]
  BY DEF Restart, CallerPc, NoRank
<1>3. /\ ctodo' \in [Callers -> SUBSET Providers]
      /\ cprov' \in [Callers -> Providers \cup {NoProvider}]
      /\ \A d \in Callers : cpc'[d] # "idle" => cprov'[d] \in Providers
  BY DEF Restart
<1>4. /\ stored' \in [Providers -> ProviderStatus \cup {NotSaved}]
      /\ restarts' \in Nat
  BY DEF Restart, HealthInv, TypeOK
<1> QED
  BY <1>1, <1>2, <1>3, <1>4 DEF HealthInv, TypeOK

LEMMA InitHealth == Init => HealthInv
<1> SUFFICES ASSUME Init PROVE HealthInv
  OBVIOUS
<1>1. health \in [Providers -> Health] /\ HealthConsistent
  BY NewHealthGood DEF Init, HealthConsistent
<1>2. /\ cpc \in [Callers -> CallerPc]
      /\ crank \in [Callers -> [Providers -> Nat]]
      /\ csnap \in [Callers -> ProviderStatus \cup {NotSaved}]
      /\ stored \in [Providers -> ProviderStatus \cup {NotSaved}]
      /\ restarts \in Nat
  BY DEF Init, CallerPc, NoRank
<1>3. /\ ctodo \in [Callers -> SUBSET Providers]
      /\ cprov \in [Callers -> Providers \cup {NoProvider}]
      /\ \A d \in Callers : cpc[d] # "idle" => cprov[d] \in Providers
  BY DEF Init
<1> QED
  BY <1>1, <1>2, <1>3 DEF HealthInv, TypeOK

\* Every step of every call keeps types and health in order.
LEMMA StepHealth == HealthInv /\ [Next]_vars => HealthInv'
<1> SUFFICES ASSUME HealthInv, [Next]_vars PROVE HealthInv'
  OBVIOUS
<1>1. ASSUME NEW c \in Callers, NEW r \in Requests, Begin(c, r)
      PROVE  HealthInv'
  BY <1>1, BeginHealth
<1>2. ASSUME NEW c \in Callers, Proceed(c)
      PROVE  HealthInv'
  BY <1>2, InvokeHealth, ReplyHealth, SaveHealth, FailOverHealth,
     InvokeFailsHealth DEF Proceed
<1>3. ASSUME NEW c \in Callers, Abandon(c)
      PROVE  HealthInv'
  BY <1>3, LeaveType DEF Abandon, HealthInv, TypeOK, HealthConsistent
<1>4. CASE UNCHANGED vars
  BY <1>4 DEF vars, callVars, HealthInv, TypeOK, HealthConsistent
<1> QED
  BY <1>1, <1>2, <1>3, <1>4, TickHealth, RestartHealth DEF Next

\* The health of a provider is well typed and its fields agree in every
\* reachable state, whatever late outcomes of overlapping calls
\* _record_success and _record_failure put on top of each other.
THEOREM HealthIsConsistent == Spec => [](TypeOK /\ HealthConsistent)
<1>1. Spec => []HealthInv
  BY InitHealth, StepHealth, PTL DEF Spec
<1> QED
  BY <1>1, PTL DEF HealthInv

-----------------------------------------------------------------------------
(* The budget.                                                              *)

\* Products of a count and the size of a response.
LEMMA ProductMonotone ==
  ASSUME NEW m \in Nat, NEW a \in Nat, NEW b \in Nat, a <= b
  PROVE  a * m <= b * m /\ a * m \in Nat /\ b * m \in Nat
  OBVIOUS

LEMMA ProductSuccessor ==
  ASSUME NEW m \in Nat, NEW a \in Nat
  PROVE  (a + 1) * m = a * m + m
  OBVIOUS

\* At most all callers are listed for a provider.
LEMMA ListedCount ==
  ASSUME NEW p
  PROVE  /\ IsFiniteSet(Listed(p))
         /\ Cardinality(Listed(p)) \in Nat
         /\ Cardinality(Callers) \in Nat
         /\ Cardinality(Listed(p)) <= Cardinality(Callers)
  BY CallersAssumption, FS_Subset, FS_CardinalityType DEF Listed

\* Lists only shrink and no tokens are spent: the bound is kept.
LEMMA OverrunShrinks ==
  ASSUME TypeOK, NEW p \in Budgeted,
         health'[p].tokens = health[p].tokens,
         Listed(p)' \subseteq Listed(p),
         OverrunInvariant
  PROVE  Listed(p)' # {} \/ health'[p].tokens > 0
           => health'[p].tokens + Cardinality(Listed(p)') * MaxTokens
                < Budget[p] + Cardinality(Callers) * MaxTokens
<1> SUFFICES ASSUME Listed(p)' # {} \/ health[p].tokens > 0
             PROVE  health[p].tokens + Cardinality(Listed(p)') * MaxTokens
                      < Budget[p] + Cardinality(Callers) * MaxTokens
  OBVIOUS
<1>1. health[p].tokens + Cardinality(Listed(p)) * MaxTokens
        < Budget[p] + Cardinality(Callers) * MaxTokens
  BY DEF OverrunInvariant
<1>2. /\ Cardinality(Listed(p)') \in Nat /\ Cardinality(Listed(p)) \in Nat
      /\ Cardinality(Listed(p)') <= Cardinality(Listed(p))
  BY ListedCount, FS_Subset, FS_CardinalityType
<1>3. /\ Cardinality(Listed(p)') * MaxTokens <= Cardinality(Listed(p)) * MaxTokens
      /\ Cardinality(Listed(p)') * MaxTokens \in Nat
      /\ Cardinality(Listed(p)) * MaxTokens \in Nat
  BY <1>2, ProductMonotone, BoundsAssumption
<1>4. Cardinality(Callers) * MaxTokens \in Nat
  BY ListedCount, ProductMonotone, BoundsAssumption
<1>5. health[p].tokens \in Nat /\ Budget[p] \in Nat
  BY BudgetAssumption DEF TypeOK, Health
<1> HIDE DEF Listed
<1> QED
  BY <1>1, <1>3, <1>4, <1>5

\* has_budget held when the call listed the provider.
LEMMA BeginOverrun ==
  ASSUME HealthInv, OverrunInvariant,
         NEW c \in Callers, NEW r \in Requests, Begin(c, r)
  PROVE  OverrunInvariant'
<1> DEFINE refreshed == [p \in Providers |->
                           IF p \in r.eligible THEN Refresh(health[p])
                                               ELSE health[p]]
           S == {p \in r.eligible : refreshed[p].status = "AVAILABLE"
                                    /\ HasBudget(p, refreshed[p])}
<1>1. \A p \in Providers : health'[p].tokens = health[p].tokens
  BY RefreshGood DEF Begin, HealthInv, TypeOK, HealthConsistent
<1>2. CASE UNCHANGED callVars
  <2>1. \A p \in Budgeted : Listed(p)' = Listed(p)
    BY <1>2 DEF Listed, callVars
  <2>2. \A c2 \in Callers :
          cpc'[c2] \in {"selected", "invoking"} => cprov'[c2] \in ctodo'[c2]
    BY <1>2 DEF callVars, OverrunInvariant
  <2> QED
    BY <1>1, <2>1, <2>2, OverrunShrinks, BudgetAssumption
    DEF OverrunInvariant, HealthInv
<1>3. ASSUME ~(UNCHANGED callVars) PROVE OverrunInvariant'
  <2>1. PICK q \in S : /\ cpc' = [cpc EXCEPT ![c] = "selected"]
                       /\ ctodo' = [ctodo EXCEPT ![c] = S]
                       /\ cprov' = [cprov EXCEPT ![c] = q]
    BY <1>3 DEF Begin
  <2>2. \A d \in Callers :
          cpc'[d] \in {"selected", "invoking"} => cprov'[d] \in ctodo'[d]
    BY <2>1 DEF HealthInv, TypeOK, OverrunInvariant
  <2>3. ASSUME NEW p \in Budgeted, p \in S
        PROVE  health'[p].tokens + Cardinality(Listed(p)') * MaxTokens
                 < Budget[p] + Cardinality(Callers) * MaxTokens
    <3>1. p \in Providers /\ health'[p] = refreshed[p]
      BY BudgetAssumption DEF Begin
    <3>2. health'[p].tokens < Budget[p]
      BY <2>3, <3>1 DEF HasBudget
    <3>3. health'[p].tokens \in Nat /\ Budget[p] \in Nat
      BY <1>1, <3>1, BudgetAssumption DEF HealthInv, TypeOK, Health
    <3>4. Listed(p)' \subseteq Callers
      BY DEF Listed
    <3>5. /\ Cardinality(Listed(p)') \in Nat /\ Cardinality(Callers) \in Nat
          /\ Cardinality(Listed(p)') <= Cardinality(Callers)
      BY <3>4, CallersAssumption, FS_Subset, FS_CardinalityType
    <3>6. /\ Cardinality(Listed(p)') * MaxTokens <= Cardinality(Callers) * MaxTokens
          /\ Cardinality(Listed(p)') * MaxTokens \in Nat
          /\ Cardinality(Callers) * MaxTokens \in Nat
      BY <3>5, ProductMonotone, BoundsAssumption
    <3> HIDE DEF S
    <3> QED
      BY <3>2, <3>3, <3>6
  <2>4. ASSUME NEW p \in Budgeted, p \notin S
        PROVE  Listed(p)' \subseteq Listed(p)
    BY <2>1, <2>4 DEF Listed, HealthInv, TypeOK
  <2>5. \A p \in Budgeted : p \in Providers
    BY BudgetAssumption
  <2> HIDE DEF S
  <2> QED
    BY <1>1, <2>2, <2>3, <2>4, <2>5, OverrunShrinks
    DEF OverrunInvariant, HealthInv
<1> QED
  BY <1>2, <1>3

\* Tokens are spent by a call that was listed, and no longer is.
LEMMA ReplyOverrun ==
  ASSUME HealthInv, OverrunInvariant, NEW c \in Callers, Reply(c)
  PROVE  OverrunInvariant'
<1>1. PICK q \in Providers :
        cprov[c] = q /\ cpc[c] = "invoking" /\ q \in ctodo[c]
  BY DEF Reply, HealthInv, TypeOK, OverrunInvariant
<1>2. PICK used \in 0..MaxTokens :
        health' = [health EXCEPT ![q] = RecordSuccess(q, health[q], used)]
  BY <1>1 DEF Reply
<1>3. \A d \in Callers :
        cpc'[d] \in {"selected", "invoking"} => cprov'[d] \in ctodo'[d]
  BY DEF Reply, HealthInv, TypeOK, OverrunInvariant
<1>4. ASSUME NEW p \in Budgeted, p # q
      PROVE  health'[p].tokens = health[p].tokens /\ Listed(p)' \subseteq Listed(p)
  BY <1>1, <1>2, <1>4, BudgetAssumption DEF Reply, Listed, HealthInv, TypeOK
<1>5. ASSUME q \in Budgeted
      PROVE  health'[q].tokens + Cardinality(Listed(q)') * MaxTokens
               < Budget[q] + Cardinality(Callers) * MaxTokens
  <2>1. health'[q].tokens = health[q].tokens + used
    BY <1>1, <1>2, <1>5, RecordSuccessGood, BoundsAssumption
    DEF HealthInv, TypeOK
  <2>2. c \in Listed(q) /\ Listed(q)' = Listed(q) \ {c}
    BY <1>1 DEF Reply, Listed, HealthInv, TypeOK
  <2>3. /\ Cardinality(Listed(q)') \in Nat
        /\ Cardinality(Listed(q)) = Cardinality(Listed(q)') + 1
    <3>1. IsFiniteSet(Listed(q)) /\ Cardinality(Listed(q)) \in Nat
      BY ListedCount
    <3>2. /\ IsFiniteSet(Listed(q) \ {c})
          /\ Cardinality(Listed(q) \ {c}) = Cardinality(Listed(q)) - 1
      BY <2>2, <3>1, FS_RemoveElement
    <3>3. Cardinality(Listed(q) \ {c}) \in Nat
      BY <3>2, FS_CardinalityType
    <3> QED
      BY <2>2, <3>1, <3>2, <3>3
  <2>4. Cardinality(Listed(q)) * MaxTokens
          = Cardinality(Listed(q)') * MaxTokens + MaxTokens
    BY <2>3, ProductSuccessor, BoundsAssumption
  <2>5. health[q].tokens + Cardinality(Listed(q)) * MaxTokens
          < Budget[q] + Cardinality(Callers) * MaxTokens
    BY <1>5, <2>2 DEF OverrunInvariant
  <2>6. health[q].tokens \in Nat /\ Budget[q] \in Nat
    BY <1>1, <1>5, BudgetAssumption DEF HealthInv, TypeOK, Health
  <2>7. /\ Cardinality(Listed(q)') * MaxTokens \in Nat
        /\ Cardinality(Callers) * MaxTokens \in Nat
    BY <2>3, ListedCount, ProductMonotone, BoundsAssumption
  <2>8. used \in Nat /\ MaxTokens \in Nat /\ used <= MaxTokens
    BY BoundsAssumption
  <2> QED
    BY <2>1, <2>4, <2>5, <2>6, <2>7, <2>8
<1> QED
  BY <1>3, <1>4, <1>5, OverrunShrinks
  DEF OverrunInvariant, HealthInv

\* The other steps of a call spend nothing and list nothing.
LEMMA QuietOverrun ==
  ASSUME HealthInv, OverrunInvariant,
         \A p \in Budgeted : health'[p].tokens = health[p].tokens,
         \A d \in Callers : ctodo'[d] \subseteq ctodo[d],
         \A d \in Callers :
           cpc'[d] \in {"selected", "invoking"} => cprov'[d] \in ctodo'[d]
  PROVE  OverrunInvariant'
<1>1. \A p \in Budgeted : Listed(p)' \subseteq Listed(p)
  BY DEF Listed
<1> QED
  BY <1>1, OverrunShrinks DEF OverrunInvariant, HealthInv

LEMMA StepOverrun ==
  HealthInv /\ OverrunInvariant /\ [Next]_vars => OverrunInvariant'
<1> SUFFICES ASSUME HealthInv, OverrunInvariant, [Next]_vars
             PROVE  OverrunInvariant'
  OBVIOUS
<1> USE DEF HealthInv
<1>0. Budgeted \subseteq Providers
  BY BudgetAssumption
<1>1. ASSUME NEW c \in Callers, Invoke(c)
      PROVE  OverrunInvariant'
  <2>1. \A p \in Budgeted : health'[p].tokens = health[p].tokens
    <3>1. cprov[c] \in Providers
      BY <1>1 DEF Invoke, TypeOK
    <3>2. Refresh(health[cprov[c]]).tokens = health[cprov[c]].tokens
      BY <3>1, RefreshGood DEF TypeOK, HealthConsistent
    <3> QED
      BY <1>0, <1>1, <3>1, <3>2 DEF Invoke, TypeOK
  <2>2. /\ \A d \in Callers : ctodo'[d] \subseteq ctodo[d]
        /\ \A d \in Callers :
             cpc'[d] \in {"selected", "invoking"} => cprov'[d] \in ctodo'[d]
    BY <1>1 DEF Invoke, TypeOK, OverrunInvariant
  <2> QED
    BY <2>1, <2>2, QuietOverrun
<1>2. ASSUME NEW c \in Callers, NEW error \in Errors, InvokeFails(c, error)
      PROVE  OverrunInvariant'
  <2>1. \A p \in Budgeted : health'[p].tokens = health[p].tokens
    <3>1. cprov[c] \in Providers
      BY <1>2 DEF InvokeFails, TypeOK
    <3>2. RecordFailure(health[cprov[c]], error).tokens
            = health[cprov[c]].tokens
      BY <3>1, RecordFailureGood DEF TypeOK, HealthConsistent
    <3> QED
      BY <1>0, <1>2, <3>1, <3>2 DEF InvokeFails, TypeOK
  <2>2. /\ \A d \in Callers : ctodo'[d] \subseteq ctodo[d]
        /\ \A d \in Callers :
             cpc'[d] \in {"selected", "invoking"} => cprov'[d] \in ctodo'[d]
    BY <1>2 DEF InvokeFails, TypeOK, OverrunInvariant
  <2> QED
    BY <2>1, <2>2, QuietOverrun
<1>3. ASSUME NEW c \in Callers, Leave(c), UNCHANGED health
      PROVE  OverrunInvariant'
  <2>1. /\ \A d \in Callers : ctodo'[d] \subseteq ctodo[d]
        /\ \A d \in Callers :
             cpc'[d] \in {"selected", "invoking"} => cprov'[d] \in ctodo'[d]
    BY <1>3, LeaveType DEF OverrunInvariant
  <2> QED
    BY <1>3, <2>1, QuietOverrun
<1>4. ASSUME NEW c \in Callers, Save(c)
      PROVE  OverrunInvariant'
  <2>1. CASE Leave(c)
    BY <1>3, <1>4, <2>1 DEF Save
  <2>2. CASE ~Leave(c)
    <3>1. /\ \A d \in Callers : ctodo'[d] \subseteq ctodo[d]
          /\ \A d \in Callers :
               cpc'[d] \in {"selected", "invoking"} => cprov'[d] \in ctodo'[d]
      BY <1>4, <2>2 DEF Save, TypeOK, OverrunInvariant
    <3> QED
      BY <1>4, <3>1, QuietOverrun DEF Save
  <2> QED
    BY <2>1, <2>2
<1>5. ASSUME NEW c \in Callers, FailOver(c)
      PROVE  OverrunInvariant'
  <2>1. CASE Leave(c)
    BY <1>3, <1>5, <2>1 DEF FailOver
  <2>2. CASE ~Leave(c)
    <3>1. /\ \A d \in Callers : ctodo'[d] \subseteq ctodo[d]
          /\ \A d \in Callers :
               cpc'[d] \in {"selected", "invoking"} => cprov'[d] \in ctodo'[d]
      BY <1>5, <2>2 DEF FailOver, TypeOK, OverrunInvariant
    <3> QED
      BY <1>5, <3>1, QuietOverrun DEF FailOver
  <2> QED
    BY <2>1, <2>2
<1>6. CASE Tick
  <2>1. \A p \in Budgeted : health'[p].tokens = health[p].tokens
    BY <1>0, <1>6, ElapseGood DEF Tick, TypeOK, HealthConsistent
  <2> QED
    BY <1>6, <2>1, QuietOverrun DEF Tick, callVars, OverrunInvariant
<1>7. CASE Restart
  <2>1. \A p \in Budgeted : Listed(p)' = {} /\ health'[p].tokens = 0
    BY <1>0, <1>7 DEF Restart, Listed, NewHealth
  <2>2. \A d \in Callers :
          cpc'[d] \in {"selected", "invoking"} => cprov'[d] \in ctodo'[d]
    BY <1>7 DEF Restart
  <2> QED
    BY <2>1, <2>2 DEF OverrunInvariant
<1>8. CASE UNCHANGED vars
  BY <1>8, QuietOverrun DEF vars, callVars, OverrunInvariant
<1> QED
  BY <1>1, <1>2, <1>3, <1>4, <1>5, <1>6, <1>7, <1>8, BeginOverrun, ReplyOverrun
  DEF Next, Proceed, Abandon

\* A daily_token_budget, checked by candidates and spent after the awaited
\* invocation, is overrun by at most one response per overlapping call.
THEOREM OverrunIsBounded == Spec => []OverrunBounded
<1>1. Init => OverrunInvariant
  <2> SUFFICES ASSUME Init PROVE OverrunInvariant
    OBVIOUS
  <2>1. \A p \in Budgeted : Listed(p) = {} /\ health[p].tokens = 0
    BY BudgetAssumption DEF Init, Listed, NewHealth
  <2> QED
    BY <2>1 DEF OverrunInvariant, Init
<1>2. HealthInv /\ OverrunInvariant => OverrunBounded
  <2> SUFFICES ASSUME HealthInv, OverrunInvariant,
                      NEW p \in Budgeted, health[p].tokens > 0
               PROVE  health[p].tokens
                        < Budget[p] + Cardinality(Callers) * MaxTokens
    BY DEF OverrunBounded
  <2>1. health[p].tokens + Cardinality(Listed(p)) * MaxTokens
          < Budget[p] + Cardinality(Callers) * MaxTokens
    BY DEF OverrunInvariant
  <2>2. /\ Cardinality(Listed(p)) * MaxTokens \in Nat
        /\ Cardinality(Callers) * MaxTokens \in Nat
    BY ListedCount, ProductMonotone, BoundsAssumption
  <2>3. health[p].tokens \in Nat /\ Budget[p] \in Nat
    BY BudgetAssumption DEF HealthInv, TypeOK, Health
  <2> QED
    BY <2>1, <2>2, <2>3
<1> QED
  BY <1>1, <1>2, InitHealth, StepHealth, StepOverrun, PTL DEF Spec

-----------------------------------------------------------------------------
(* The cooldown.                                                            *)

\* What a step may do while p cools down.
HonoursCooldown(p) ==
  /\ Invoking(p)' \subseteq Invoking(p)
  /\ \A c \in Callers : p \in ctodo'[c] => p \in ctodo[c]
  /\ health'[p].status = "AVAILABLE"
       => \E c \in Invoking(p) : cpc'[c] = "saving_success"

CooldownHonouredStep ==
  \A p \in Providers :
    /\ restarts' = restarts
    /\ health[p].status # "AVAILABLE"
    /\ health[p].cooldown # 0
    => HonoursCooldown(p)

\* While a provider cools down no call lists it or begins to invoke it, and
\* only the answer of an invocation already under way makes it AVAILABLE early:
\* complete asks is_available again before _invoke, and refresh, called by
\* candidates and by complete, never lets a provider in before its time.
THEOREM CooldownIsHonoured == Spec => CooldownHonoured
<1>1. HealthInv /\ [Next]_vars => CooldownHonouredStep
  <2> SUFFICES ASSUME HealthInv, [Next]_vars, NEW p \in Providers,
                      restarts' = restarts, health[p].status # "AVAILABLE",
                      health[p].cooldown # 0
               PROVE  HonoursCooldown(p)
    BY DEF CooldownHonouredStep
  <2>1. /\ Refresh(health[p]).status = health[p].status
        /\ Elapse(health[p]).status = health[p].status
    BY RefreshGood, ElapseGood DEF HealthInv, TypeOK, HealthConsistent
  <2>2. ASSUME NEW c \in Callers, NEW r \in Requests, Begin(c, r)
        PROVE  HonoursCooldown(p)
    <3>1. health'[p].status # "AVAILABLE"
      BY <2>1, <2>2 DEF Begin
    <3>2. ASSUME NEW d \in Callers, p \in ctodo'[d] PROVE p \in ctodo[d]
      <4> DEFINE refreshed == [q \in Providers |->
                                IF q \in r.eligible THEN Refresh(health[q])
                                                    ELSE health[q]]
                 candidates == {q \in r.eligible :
                                  /\ refreshed[q].status = "AVAILABLE"
                                  /\ HasBudget(q, refreshed[q])}
      <4>1. p \notin candidates
        BY <2>1
      <4>2. \/ ctodo' = ctodo
            \/ ctodo' = [ctodo EXCEPT ![c] = candidates]
        BY <2>2 DEF Begin, callVars
      <4> HIDE DEF candidates
      <4> QED
        BY <3>2, <4>1, <4>2 DEF HealthInv, TypeOK
    <3>3. Invoking(p)' \subseteq Invoking(p)
      BY <2>2 DEF Begin, callVars, Invoking, HealthInv, TypeOK
    <3> QED
      BY <3>1, <3>2, <3>3 DEF HonoursCooldown
  <2>3. ASSUME NEW c \in Callers, Invoke(c)
        PROVE  HonoursCooldown(p)
    <3>1. health'[p].status # "AVAILABLE"
      BY <2>1, <2>3 DEF Invoke, HealthInv, TypeOK
    <3>2. \A d \in Callers : p \in ctodo'[d] => p \in ctodo[d]
      BY <2>3 DEF Invoke, HealthInv, TypeOK
    <3>3. ASSUME NEW d \in Callers, cpc'[d] = "invoking", cprov'[d] = p
          PROVE  cpc[d] = "invoking" /\ cprov[d] = p
      <4>1. CASE d = c
        BY <2>1, <2>3, <3>3, <4>1 DEF Invoke, HealthInv, TypeOK
      <4>2. CASE d # c
        BY <2>3, <3>3, <4>2 DEF Invoke, HealthInv, TypeOK
      <4> QED
        BY <4>1, <4>2
    <3> QED
      BY <3>1, <3>2, <3>3 DEF HonoursCooldown, Invoking
  <2>4. ASSUME NEW c \in Callers,
               Reply(c) \/ \E error \in Errors : InvokeFails(c, error)
        PROVE  HonoursCooldown(p)
    <3>1. cpc[c] = "invoking"
      BY <2>4 DEF Reply, InvokeFails
    <3>2. \A d \in Callers : p \in ctodo'[d] => p \in ctodo[d]
      BY <2>4 DEF Reply, InvokeFails, HealthInv, TypeOK
    <3>3. Invoking(p)' \subseteq Invoking(p)
      BY <2>4 DEF Reply, InvokeFails, Invoking, HealthInv, TypeOK
    <3>4. CASE cprov[c] # p
      <4>1. health'[p] = health[p]
        BY <2>4, <3>4 DEF Reply, InvokeFails, HealthInv, TypeOK
      <4> QED
        BY <3>2, <3>3, <4>1 DEF HonoursCooldown
    <3>5. CASE cprov[c] = p /\ Reply(c)
      <4>1. c \in Invoking(p) /\ cpc'[c] = "saving_success"
        BY <3>1, <3>5 DEF Reply, Invoking, HealthInv, TypeOK
      <4> QED
        BY <3>2, <3>3, <4>1 DEF HonoursCooldown
    <3>6. ASSUME NEW error \in Errors, cprov[c] = p, InvokeFails(c, error)
          PROVE  HonoursCooldown(p)
      <4>1. health'[p] = RecordFailure(health[p], error)
        BY <3>6 DEF InvokeFails, HealthInv, TypeOK
      <4>2. RecordFailure(health[p], error).status # "AVAILABLE"
        BY RecordFailureGood DEF HealthInv, TypeOK, HealthConsistent
      <4> QED
        BY <3>2, <3>3, <4>1, <4>2 DEF HonoursCooldown
    <3> QED
      BY <2>4, <3>4, <3>5, <3>6
  <2>5. ASSUME NEW c \in Callers, Save(c) \/ FailOver(c) \/ Abandon(c)
        PROVE  HonoursCooldown(p)
    <3>1. health' = health
      BY <2>5 DEF Save, FailOver, Abandon
    <3>2. \A d \in Callers : p \in ctodo'[d] => p \in ctodo[d]
      BY <2>5 DEF Save, FailOver, Abandon, Leave, HealthInv, TypeOK
    <3>3. ASSUME NEW d \in Callers, cpc'[d] = "invoking"
          PROVE  cpc[d] = "invoking" /\ cprov'[d] = cprov[d]
      BY <2>5, <3>3 DEF Save, FailOver, Abandon, Leave, HealthInv, TypeOK
    <3> QED
      BY <3>1, <3>2, <3>3 DEF HonoursCooldown, Invoking
  <2>6. CASE Tick
    BY <2>1, <2>6 DEF Tick, callVars, HonoursCooldown, Invoking
  <2>7. ~Restart
    BY DEF Restart, HealthInv, TypeOK
  <2>8. CASE UNCHANGED vars
    BY <2>8 DEF vars, callVars, HonoursCooldown, Invoking
  <2> QED
    BY <2>2, <2>3, <2>4, <2>5, <2>6, <2>7, <2>8 DEF Next, Proceed
<1>2. CooldownHonouredStep
        => \A p \in Providers :
             /\ restarts' = restarts
             /\ health[p].status # "AVAILABLE"
             /\ health[p].cooldown # 0
             => /\ Invoking(p)' \subseteq Invoking(p)
                /\ \A c \in Callers : p \in ctodo'[c] => p \in ctodo[c]
                /\ health'[p].status = "AVAILABLE"
                     => \E c \in Invoking(p) : cpc'[c] = "saving_success"
  BY DEF CooldownHonouredStep, HonoursCooldown
<1> QED
  BY <1>1, <1>2, InitHealth, StepHealth, PTL DEF Spec, CooldownHonoured

-----------------------------------------------------------------------------
(* The budget is not reset.                                                 *)

ExhaustedStaysOutStep ==
  \A p \in Budgeted :
    health[p].tokens >= Budget[p] /\ restarts' = restarts
    => /\ health'[p].tokens >= Budget[p]
       /\ \A c \in Callers : p \in ctodo'[c] => p \in ctodo[c]

\* Once tokens_used has reached the daily_token_budget, candidates does not
\* list the provider again until the runtime is restarted.
THEOREM ExhaustedStaysOutForGood == Spec => ExhaustedStaysOut
<1>1. HealthInv /\ [Next]_vars => ExhaustedStaysOutStep
  <2> SUFFICES ASSUME HealthInv, [Next]_vars, NEW p \in Budgeted,
                      health[p].tokens >= Budget[p], restarts' = restarts
               PROVE  /\ health'[p].tokens >= Budget[p]
                      /\ \A c \in Callers : p \in ctodo'[c] => p \in ctodo[c]
    BY DEF ExhaustedStaysOutStep
  <2> USE DEF HealthInv
  <2>0. /\ p \in Providers /\ Budget[p] \in Nat
        /\ health[p] \in Health /\ Consistent(health[p])
        /\ health[p].tokens \in Nat
    BY BudgetAssumption DEF TypeOK, HealthConsistent, Health
  <2>1. /\ Refresh(health[p]).tokens = health[p].tokens
        /\ Elapse(health[p]).tokens = health[p].tokens
    BY <2>0, RefreshGood, ElapseGood
  <2>2. ASSUME NEW c \in Callers, NEW r \in Requests, Begin(c, r)
        PROVE  /\ health'[p].tokens >= Budget[p]
               /\ \A d \in Callers : p \in ctodo'[d] => p \in ctodo[d]
    <3> DEFINE refreshed == [q \in Providers |->
                               IF q \in r.eligible THEN Refresh(health[q])
                                                   ELSE health[q]]
               S == {q \in r.eligible : refreshed[q].status = "AVAILABLE"
                                        /\ HasBudget(q, refreshed[q])}
    <3>1. health' = refreshed /\ refreshed[p].tokens = health[p].tokens
      BY <2>0, <2>1, <2>2 DEF Begin
    <3>2. p \notin S
      BY <2>0, <3>1 DEF HasBudget
    <3>3. ctodo' = ctodo \/ ctodo' = [ctodo EXCEPT ![c] = S]
      BY <2>2 DEF Begin, callVars
    <3> HIDE DEF S
    <3> QED BY <3>1, <3>2, <3>3 DEF TypeOK
  <2>3. ASSUME NEW c \in Callers, Invoke(c)
        PROVE  /\ health'[p].tokens >= Budget[p]
               /\ \A d \in Callers : p \in ctodo'[d] => p \in ctodo[d]
    <3>1. health'[p].tokens = health[p].tokens
      BY <2>0, <2>1, <2>3 DEF Invoke, TypeOK
    <3> QED BY <2>3, <3>1 DEF Invoke, TypeOK
  <2>4. ASSUME NEW c \in Callers, Reply(c)
        PROVE  /\ health'[p].tokens >= Budget[p]
               /\ \A d \in Callers : p \in ctodo'[d] => p \in ctodo[d]
    <3>1. PICK used \in 0..MaxTokens :
            health' = [health EXCEPT ![cprov[c]] =
                         RecordSuccess(cprov[c], health[cprov[c]], used)]
      BY <2>4 DEF Reply
    <3>2. used \in Nat
      BY BoundsAssumption
    <3>3. RecordSuccess(p, health[p], used).tokens = health[p].tokens + used
      BY <2>0, <3>2, RecordSuccessGood
    <3>4. health'[p].tokens >= health[p].tokens
      BY <2>0, <3>1, <3>2, <3>3 DEF TypeOK
    <3>5. health'[p].tokens \in Nat
      BY <2>0, <3>1, <3>2, <3>3 DEF TypeOK
    <3>6. health'[p].tokens >= Budget[p]
      BY <2>0, <3>4, <3>5
    <3> QED BY <2>4, <3>6 DEF Reply, TypeOK
  <2>5. ASSUME NEW c \in Callers, NEW error \in Errors, InvokeFails(c, error)
        PROVE  /\ health'[p].tokens >= Budget[p]
               /\ \A d \in Callers : p \in ctodo'[d] => p \in ctodo[d]
    <3>1. RecordFailure(health[p], error).tokens = health[p].tokens
      BY <2>0, RecordFailureGood
    <3>2. health'[p].tokens = health[p].tokens
      BY <2>0, <2>5, <3>1 DEF InvokeFails, TypeOK
    <3> QED BY <2>5, <3>2 DEF InvokeFails, TypeOK
  <2>6. ASSUME NEW c \in Callers, Save(c) \/ FailOver(c) \/ Abandon(c)
        PROVE  /\ health'[p].tokens >= Budget[p]
               /\ \A d \in Callers : p \in ctodo'[d] => p \in ctodo[d]
    <3>1. CASE Leave(c)
      BY <2>6, <3>1, LeaveType DEF Save, FailOver, Abandon
    <3>2. CASE ~Leave(c)
      BY <2>6, <3>2 DEF Save, FailOver, Abandon
    <3> QED BY <3>1, <3>2
  <2>7. CASE Tick
    BY <2>0, <2>1, <2>7 DEF Tick, callVars
  <2>8. ~Restart
    BY DEF Restart, TypeOK
  <2>9. CASE UNCHANGED vars
    BY <2>9 DEF vars, callVars
  <2> QED
    BY <2>2, <2>3, <2>4, <2>5, <2>6, <2>7, <2>8, <2>9 DEF Next, Proceed
<1>2. ExhaustedStaysOutStep
        => \A p \in Budgeted :
             health[p].tokens >= Budget[p] /\ restarts' = restarts
             => /\ health'[p].tokens >= Budget[p]
                /\ \A c \in Callers : p \in ctodo'[c] => p \in ctodo[c]
  BY DEF ExhaustedStaysOutStep
<1> QED
  BY <1>1, <1>2, InitHealth, StepHealth, PTL DEF Spec, ExhaustedStaysOut

-----------------------------------------------------------------------------
(* The local fallback.                                                      *)

StubsEligible == \A r \in Requests : r.eligible \cap Stubs # {}

\* A stub is available for good, and a call that has no response yet has one
\* left to try.
StubInvariant ==
  StubsEligible =>
    /\ \A p \in Stubs : health[p].status = "AVAILABLE"
    /\ \A c \in Callers :
         cpc[c] \in {"selected", "invoking", "saving_failure", "failed_over"}
           => ctodo[c] \cap Stubs # {}

\* No step makes a stub unavailable.
LEMMA StubsStayAvailable ==
  ASSUME HealthInv, [Next]_vars, NEW p \in Stubs, health[p].status = "AVAILABLE"
  PROVE  health'[p].status = "AVAILABLE"
<1> USE DEF HealthInv
<1>1. p \in Providers
  BY StubsAssumption
<1>2. Refresh(health[p]) = health[p]
  BY DEF Refresh, Recovering
<1>3. Elapse(health[p]).status = "AVAILABLE"
  BY <1>1, ElapseGood DEF TypeOK, HealthConsistent
<1>4. ASSUME NEW c \in Callers, NEW r \in Requests, Begin(c, r)
      PROVE  health'[p].status = "AVAILABLE"
  BY <1>1, <1>2, <1>4 DEF Begin
<1>5. ASSUME NEW c \in Callers, Invoke(c)
      PROVE  health'[p].status = "AVAILABLE"
  BY <1>1, <1>2, <1>5 DEF Invoke, TypeOK
<1>6. ASSUME NEW c \in Callers, Reply(c)
      PROVE  health'[p].status = "AVAILABLE"
  BY <1>1, <1>6 DEF Reply, RecordSuccess, TypeOK
<1>7. ASSUME NEW c \in Callers, NEW error \in Errors, InvokeFails(c, error)
      PROVE  health'[p].status = "AVAILABLE"
  BY <1>1, <1>7 DEF InvokeFails, CanFail, TypeOK
<1>8. ASSUME NEW c \in Callers, Save(c) \/ FailOver(c) \/ Abandon(c)
      PROVE  health'[p].status = "AVAILABLE"
  BY <1>8 DEF Save, FailOver, Abandon
<1>9. CASE Tick
  BY <1>1, <1>3, <1>9 DEF Tick
<1>10. CASE Restart
  BY <1>1, <1>10 DEF Restart, NewHealth
<1>11. CASE UNCHANGED vars
  BY <1>11 DEF vars
<1> QED
  BY <1>4, <1>5, <1>6, <1>7, <1>8, <1>9, <1>10, <1>11 DEF Next, Proceed

LEMMA StepStub == HealthInv /\ StubInvariant /\ [Next]_vars => StubInvariant'
<1> SUFFICES ASSUME HealthInv, StubInvariant, [Next]_vars, StubsEligible
             PROVE  /\ \A p \in Stubs : health'[p].status = "AVAILABLE"
                    /\ \A c \in Callers :
                         cpc'[c] \in {"selected", "invoking", "saving_failure",
                                      "failed_over"}
                           => ctodo'[c] \cap Stubs # {}
  BY DEF StubInvariant
<1> DEFINE Trying == {"selected", "invoking", "saving_failure", "failed_over"}
           Covered == \A c \in Callers :
                        cpc'[c] \in Trying => ctodo'[c] \cap Stubs # {}
<1> USE DEF HealthInv
<1>1. \A p \in Stubs : health[p].status = "AVAILABLE" /\ health'[p].status = "AVAILABLE"
  BY StubsStayAvailable DEF StubInvariant
<1>2. \A c \in Callers : cpc[c] \in Trying => ctodo[c] \cap Stubs # {}
  BY DEF StubInvariant
<1>3. ASSUME NEW c \in Callers, NEW r \in Requests, Begin(c, r)
      PROVE  Covered
  <2> DEFINE refreshed == [q \in Providers |->
                             IF q \in r.eligible THEN Refresh(health[q])
                                                 ELSE health[q]]
             S == {q \in r.eligible : refreshed[q].status = "AVAILABLE"
                                      /\ HasBudget(q, refreshed[q])}
  <2>1. PICK s \in r.eligible : s \in Stubs
    BY DEF StubsEligible
  <2>2. health' = refreshed /\ s \in Providers /\ s \notin Budgeted
    BY <1>3, <2>1, StubsAssumption DEF Begin
  <2>3. s \in S
    BY <1>1, <2>1, <2>2 DEF HasBudget
  <2>4. \/ cpc' = cpc /\ ctodo' = ctodo
        \/ cpc' = [cpc EXCEPT ![c] = "selected"] /\ ctodo' = [ctodo EXCEPT ![c] = S]
    BY <1>3 DEF Begin, callVars
  <2> HIDE DEF S
  <2> QED BY <1>2, <2>1, <2>3, <2>4 DEF TypeOK
<1>4. ASSUME NEW c \in Callers, Invoke(c)
      PROVE  Covered
  <2>1. cprov[c] \in Providers /\ cpc[c] = "selected"
    BY <1>4 DEF Invoke, TypeOK
  <2>2. CASE /\ cpc' = [cpc EXCEPT ![c] = "invoking"]
             /\ UNCHANGED <<ctodo, csnap>>
    BY <1>2, <2>1, <2>2 DEF TypeOK
  <2>3. CASE /\ Refresh(health[cprov[c]]).status # "AVAILABLE"
             /\ cpc' = [cpc EXCEPT ![c] = "saving_failure"]
             /\ ctodo' = [ctodo EXCEPT ![c] = @ \ {cprov[c]}]
    <3>1. cprov[c] \notin Stubs
      BY <1>1, <2>3 DEF Refresh, Recovering
    <3> QED BY <1>2, <2>1, <2>3, <3>1 DEF TypeOK
  <2> QED BY <1>4, <2>2, <2>3 DEF Invoke
<1>5. ASSUME NEW c \in Callers, Reply(c)
      PROVE  Covered
  BY <1>2, <1>5 DEF Reply, TypeOK
<1>6. ASSUME NEW c \in Callers, NEW error \in Errors, InvokeFails(c, error)
      PROVE  Covered
  <2>1. /\ cpc[c] = "invoking" /\ cprov[c] \notin Stubs
        /\ cpc' = [cpc EXCEPT ![c] = "saving_failure"]
        /\ ctodo' = [ctodo EXCEPT ![c] = @ \ {cprov[c]}]
    BY <1>6 DEF InvokeFails, CanFail
  <2> QED BY <1>2, <2>1 DEF TypeOK
<1>7. ASSUME NEW c \in Callers, Leave(c)
      PROVE  Covered
  BY <1>2, <1>7 DEF Leave, TypeOK
<1>8. ASSUME NEW c \in Callers, Save(c) \/ FailOver(c) \/ Abandon(c)
      PROVE  Covered
  <2>1. CASE Leave(c)
    BY <1>7, <2>1
  <2>2. CASE ~Leave(c)
    BY <1>2, <1>8, <2>2 DEF Save, FailOver, Abandon, TypeOK
  <2> QED BY <2>1, <2>2
<1>9. CASE Tick \/ UNCHANGED vars
  BY <1>1, <1>2, <1>9 DEF Tick, vars, callVars
<1>10. CASE Restart
  BY <1>1, <1>10 DEF Restart
<1> QED
  BY <1>1, <1>3, <1>4, <1>5, <1>6, <1>8, <1>9, <1>10 DEF Next, Proceed

\* With a LocalProvider stub among the candidates of every request, complete
\* never runs out of candidates, however many calls overlap and whatever they
\* record of the other providers.
THEOREM StubAlwaysServes == Spec => []StubServes
<1>1. Init => StubInvariant
  BY StubsAssumption DEF Init, StubInvariant, NewHealth
<1>2. StubInvariant => StubServes
  BY DEF StubInvariant, StubServes, StubsEligible
<1> QED
  BY <1>1, <1>2, InitHealth, StepHealth, StepStub, PTL DEF Spec
=============================================================================
