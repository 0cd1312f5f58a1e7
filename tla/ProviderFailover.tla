-------------------------- MODULE ProviderFailover --------------------------
(***************************************************************************)
(* ProviderManager.complete, called concurrently on one registry: pick the *)
(* candidates, try them in order, record each outcome, save the health.    *)
(* Between two awaited calls the other callers run; the providers' health  *)
(* is shared by all of them.                                               *)
(***************************************************************************)
EXTENDS ProviderHealth, ProviderErrors, FiniteSets

CONSTANTS
  Callers,      \* calls of complete that may overlap
  Requests,     \* what they ask for: eligible providers and their order
  Stubs,        \* LocalProviders without an adapter
  MaxTokens,    \* bound on the tokens of one response
  MaxRestarts,  \* bound on restarts of the runtime
  NoProvider

ASSUME CallersAssumption == IsFiniteSet(Callers)
ASSUME RequestsAssumption ==
  Requests \subseteq [eligible : SUBSET Providers, rank : [Providers -> Nat]]
ASSUME StubsAssumption == Stubs \subseteq Providers \ Budgeted
ASSUME BoundsAssumption ==
  MaxTokens \in Nat /\ MaxRestarts \in Nat
ASSUME NoProviderAssumption == NoProvider \notin Providers

VARIABLES
  health,    \* health[p]
  stored,    \* stored[p]: the status in the saved snapshot, if there is one
  cpc,       \* the call a caller awaits, "idle" outside complete
  ctodo,     \* candidates it has not tried, the current one included
  crank,     \* their order
  cprov,     \* the provider it is trying
  csnap,     \* the status in the snapshot it is saving
  restarts

callVars == <<cpc, ctodo, crank, cprov, csnap>>
vars == <<health, stored, callVars, restarts>>

CallerPc == {"idle", "selected", "invoking", "saving_failure",
             "saving_success", "failed_over"}

NotSaved == "none"

NoRank == [p \in Providers |-> 0]

Init ==
  /\ health = [p \in Providers |-> NewHealth]
  /\ stored = [p \in Providers |-> NotSaved]
  /\ cpc = [c \in Callers |-> "idle"]
  /\ ctodo = [c \in Callers |-> {}]
  /\ crank = [c \in Callers |-> NoRank]
  /\ cprov = [c \in Callers |-> NoProvider]
  /\ csnap = [c \in Callers |-> NotSaved]
  /\ restarts = 0

\* complete returns or raises.
Leave(c) ==
  /\ cpc' = [cpc EXCEPT ![c] = "idle"]
  /\ ctodo' = [ctodo EXCEPT ![c] = {}]
  /\ crank' = [crank EXCEPT ![c] = NoRank]
  /\ cprov' = [cprov EXCEPT ![c] = NoProvider]
  /\ csnap' = [csnap EXCEPT ![c] = NotSaved]

\* p is the first of the providers S in the order of rank.
IsFirst(p, S, rank) == p \in S /\ \A q \in S : rank[p] <= rank[q]

\* Mutant of Begin: only the first candidate is tried.
BeginWithFirst(c, r) ==
  LET refreshed == [p \in Providers |->
                      IF p \in r.eligible THEN Refresh(health[p])
                                          ELSE health[p]]
      candidates == {p \in r.eligible : refreshed[p].status = "AVAILABLE"
                                        /\ HasBudget(p, refreshed[p])}
  IN /\ cpc[c] = "idle"
     /\ health' = refreshed
     /\ \E p \in candidates :
          /\ IsFirst(p, candidates, r.rank)
          /\ cpc' = [cpc EXCEPT ![c] = "selected"]
          /\ ctodo' = [ctodo EXCEPT ![c] = {p}]
          /\ crank' = [crank EXCEPT ![c] = r.rank]
          /\ cprov' = [cprov EXCEPT ![c] = p]
          /\ UNCHANGED csnap
     /\ UNCHANGED <<stored, restarts>>

\* candidates: every eligible provider is refreshed, those available and
\* within budget are listed. An empty list ends the call.
Begin(c, r) ==
  LET refreshed == [p \in Providers |->
                      IF p \in r.eligible THEN Refresh(health[p])
                                          ELSE health[p]]
      candidates == {p \in r.eligible : refreshed[p].status = "AVAILABLE"
                                        /\ HasBudget(p, refreshed[p])}
  IN /\ cpc[c] = "idle"
     /\ health' = refreshed
     /\ IF candidates = {} THEN UNCHANGED callVars
        ELSE \E p \in candidates :
               /\ IsFirst(p, candidates, r.rank)
               /\ cpc' = [cpc EXCEPT ![c] = "selected"]
               /\ ctodo' = [ctodo EXCEPT ![c] = candidates]
               /\ crank' = [crank EXCEPT ![c] = r.rank]
               /\ cprov' = [cprov EXCEPT ![c] = p]
               /\ UNCHANGED csnap
     /\ UNCHANGED <<stored, restarts>>

\* Mutant of Invoke: the availability found when listing is relied upon.
InvokeListed(c) ==
  /\ cpc[c] = "selected"
  /\ cpc' = [cpc EXCEPT ![c] = "invoking"]
  /\ UNCHANGED <<health, stored, ctodo, crank, cprov, csnap, restarts>>

\* BaseProvider.complete begins: the provider may have become unavailable
\* since it was listed, or its cooldown may have ended.
Invoke(c) ==
  LET p == cprov[c]
      h == Refresh(health[p])
  IN /\ cpc[c] = "selected"
     /\ health' = [health EXCEPT ![p] = h]
     /\ \/ /\ h.status = "AVAILABLE"
           /\ cpc' = [cpc EXCEPT ![c] = "invoking"]
           /\ UNCHANGED <<ctodo, csnap>>
        \/ /\ h.status # "AVAILABLE"
           /\ cpc' = [cpc EXCEPT ![c] = "saving_failure"]
           /\ ctodo' = [ctodo EXCEPT ![c] = @ \ {p}]
           /\ csnap' = [csnap EXCEPT ![c] = h.status]
     /\ UNCHANGED <<stored, crank, cprov, restarts>>

\* _invoke ends: the outcome is recorded in the health as it is now, and a
\* snapshot of it is on its way to the store.
Reply(c) ==
  LET p == cprov[c] IN
  /\ cpc[c] = "invoking"
  /\ \E used \in 0..MaxTokens :
       health' = [health EXCEPT ![p] = RecordSuccess(p, @, used)]
  /\ csnap' = [csnap EXCEPT ![c] = "AVAILABLE"]
  /\ cpc' = [cpc EXCEPT ![c] = "saving_success"]
  /\ ctodo' = [ctodo EXCEPT ![c] = @ \ {p}]
  /\ UNCHANGED <<stored, crank, cprov, restarts>>

\* The answer of a LocalProvider without an adapter is made up on the spot.
CanFail(p) == p \notin Stubs

\* Mutant of InvokeFails: the failed provider stays in the list.
InvokeFailsAgain(c, error) ==
  LET p == cprov[c]
      h == RecordFailure(health[p], error)
  IN /\ cpc[c] = "invoking" /\ CanFail(p)
     /\ health' = [health EXCEPT ![p] = h]
     /\ csnap' = [csnap EXCEPT ![c] = h.status]
     /\ cpc' = [cpc EXCEPT ![c] = "saving_failure"]
     /\ UNCHANGED <<stored, ctodo, crank, cprov, restarts>>

\* _invoke raises a ProviderError.
InvokeFails(c, error) ==
  LET p == cprov[c]
      h == RecordFailure(health[p], error)
  IN /\ cpc[c] = "invoking" /\ CanFail(p)
     /\ health' = [health EXCEPT ![p] = h]
     /\ csnap' = [csnap EXCEPT ![c] = h.status]
     /\ cpc' = [cpc EXCEPT ![c] = "saving_failure"]
     /\ ctodo' = [ctodo EXCEPT ![c] = @ \ {p}]
     /\ UNCHANGED <<stored, crank, cprov, restarts>>

\* The store has the snapshot; a success is returned once its event is sent, a
\* failure is followed by its events.
Save(c) ==
  /\ cpc[c] \in {"saving_success", "saving_failure"}
  /\ stored' = [stored EXCEPT ![cprov[c]] = csnap[c]]
  /\ \/ cpc[c] = "saving_success" /\ Leave(c)
     \/ /\ cpc[c] = "saving_failure"
        /\ cpc' = [cpc EXCEPT ![c] = "failed_over"]
        /\ csnap' = [csnap EXCEPT ![c] = NotSaved]
        /\ UNCHANGED <<ctodo, crank, cprov>>
  /\ UNCHANGED <<health, restarts>>

\* The next candidate of the list made at the start, or NoProviderAvailable.
FailOver(c) ==
  /\ cpc[c] = "failed_over"
  /\ \/ ctodo[c] = {} /\ Leave(c)
     \/ \E p \in ctodo[c] :
          /\ IsFirst(p, ctodo[c], crank[c])
          /\ cprov' = [cprov EXCEPT ![c] = p]
          /\ cpc' = [cpc EXCEPT ![c] = "selected"]
          /\ UNCHANGED <<ctodo, crank, csnap>>
  /\ UNCHANGED <<health, stored, restarts>>

\* The caller is cancelled, or an exception other than ProviderError escapes:
\* nothing is recorded.
Abandon(c) ==
  /\ cpc[c] # "idle"
  /\ Leave(c)
  /\ UNCHANGED <<health, stored, restarts>>

Tick ==
  /\ \E p \in Providers : health[p].cooldown \in Nat \ {0}
  /\ health' = [p \in Providers |-> Elapse(health[p])]
  /\ UNCHANGED <<stored, callVars, restarts>>

\* The runtime is built anew (build_runtime): new provider objects with new
\* health. Nothing calls load or load_all of the store.
Restart ==
  /\ restarts < MaxRestarts
  /\ restarts' = restarts + 1
  /\ health' = [p \in Providers |-> NewHealth]
  /\ cpc' = [c \in Callers |-> "idle"]
  /\ ctodo' = [c \in Callers |-> {}]
  /\ crank' = [c \in Callers |-> NoRank]
  /\ cprov' = [c \in Callers |-> NoProvider]
  /\ csnap' = [c \in Callers |-> NotSaved]
  /\ UNCHANGED stored

\* What the event loop runs of a call once it has begun.
Proceed(c) ==
  \/ Invoke(c) \/ Reply(c) \/ Save(c) \/ FailOver(c)
  \/ \E error \in Errors : InvokeFails(c, error)

Next ==
  \/ \E c \in Callers, r \in Requests : Begin(c, r)
  \/ \E c \in Callers : Proceed(c) \/ Abandon(c)
  \/ Tick
  \/ Restart

\* Time passes, and the event loop runs every call that can proceed.
Fairness == WF_vars(Tick) /\ \A c \in Callers : WF_vars(Proceed(c))

Spec == Init /\ [][Next]_vars /\ Fairness

-----------------------------------------------------------------------------

TypeOK ==
  /\ health \in [Providers -> Health]
  /\ stored \in [Providers -> ProviderStatus \cup {NotSaved}]
  /\ cpc \in [Callers -> CallerPc]
  /\ ctodo \in [Callers -> SUBSET Providers]
  /\ crank \in [Callers -> [Providers -> Nat]]
  /\ cprov \in [Callers -> Providers \cup {NoProvider}]
  /\ \A c \in Callers : cpc[c] # "idle" => cprov[c] \in Providers
  /\ csnap \in [Callers -> ProviderStatus \cup {NotSaved}]
  /\ restarts \in Nat

Invoking(p) == {c \in Callers : cpc[c] = "invoking" /\ cprov[c] = p}

Consistent(h) ==
  /\ h.status = "AVAILABLE" <=> h.cooldown = NoCooldown
  /\ h.status = "AVAILABLE" => h.failures < MaxConsecutiveFailures
  /\ h.status = "FAILED" => h.failures >= MaxConsecutiveFailures

\* The fields of a provider's health agree, whatever late outcomes of
\* overlapping calls were recorded on top of each other: it is AVAILABLE
\* exactly when no cooldown is set and fewer failures than the threshold are
\* counted, and FAILED only at the threshold.
HealthConsistent == \A p \in Providers : Consistent(health[p])

\* The budget is checked when the candidates are listed and spent later: it is
\* overrun by at most one response per overlapping call.
OverrunBounded ==
  \A p \in Budgeted :
    health[p].tokens > 0
      => health[p].tokens < Budget[p] + Cardinality(Callers) * MaxTokens

\* While a provider cools down, no call begins to invoke it, not even one that
\* listed it as a candidate before, and no call lists it. Only one thing ends a
\* cooldown before its time: the answer of an invocation that was already
\* under way when the overlapping one failed (_record_success looks at no
\* status).
CooldownHonoured ==
  [][\A p \in Providers :
       /\ restarts' = restarts
       /\ health[p].status # "AVAILABLE"
       /\ health[p].cooldown # 0
       => /\ Invoking(p)' \subseteq Invoking(p)
          /\ \A c \in Callers : p \in ctodo'[c] => p \in ctodo[c]
          /\ health'[p].status = "AVAILABLE"
               => \E c \in Invoking(p) : cpc'[c] = "saving_success"]_vars

\* tokens_used is never reset: once the budget is spent, only a restart makes
\* anybody list the provider again.
ExhaustedStaysOut ==
  [][\A p \in Budgeted :
       health[p].tokens >= Budget[p] /\ restarts' = restarts
       => /\ health'[p].tokens >= Budget[p]
          /\ \A c \in Callers : p \in ctodo'[c] => p \in ctodo[c]]_vars

\* "the runtime can always degrade gracefully instead of raising
\* NoProviderAvailable": if every request may use a stub, no call finds its
\* list of candidates empty, at the start or after failing over, whatever
\* the overlapping calls make of the other providers.
StubServes ==
  (\A r \in Requests : r.eligible \cap Stubs # {}) =>
    /\ \A p \in Stubs : health[p].status = "AVAILABLE"
    /\ \A c \in Callers : cpc[c] = "failed_over" => ctodo[c] # {}

\* As long as calls that may use it keep coming, a rate-limited or exhausted
\* provider is tried again some time.
Wanted(p) ==
  []<><<\E c \in Callers, r \in Requests : p \in r.eligible /\ Begin(c, r)>>_vars

LimitedRecovers ==
  \A p \in Providers :
    Wanted(p) => (health[p].status \in {"RATE_LIMITED", "OFFLINE"}
                    ~> health[p].status \notin {"RATE_LIMITED", "OFFLINE"})

\* A call ends: it is served, or it fails over until no candidate is left,
\* even if providers recover while it does.
CallsEnd == \A c \in Callers : cpc[c] # "idle" ~> cpc[c] = "idle"

-----------------------------------------------------------------------------
(* What the documentation of providers/ says.                               *)

\* providers/base.py: "other ProviderError-> failures++, and COOLDOWN once the
\* threshold is hit", and cooldowns are time-based: the provider comes back.
ThresholdCoolsDown ==
  \A p \in Providers :
    Wanted(p) => (health[p].failures >= MaxConsecutiveFailures
                    ~> health[p].status = "AVAILABLE")
=============================================================================
