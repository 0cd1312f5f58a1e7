--------------------------- MODULE ProviderHealth ---------------------------
(***************************************************************************)
(* The health of a provider, and what providers/base.py makes of it: how   *)
(* each outcome of an invocation changes it, and when it recovers.         *)
(*                                                                         *)
(* cooldown_until is kept as the time left until then. Counters nothing    *)
(* branches on (total_requests, total_failures, last_error, the tokens of  *)
(* a provider without budget) are left out.                                *)
(***************************************************************************)
EXTENDS Naturals

CONSTANTS
  Providers,               \* registered providers
  MaxConsecutiveFailures,  \* ProviderProfile.max_consecutive_failures
  CooldownTime,            \* ProviderProfile.cooldown_seconds
  CreditCooldownTime,      \* ...credit_exhausted_cooldown_seconds
  Budgeted,                \* the providers with a daily_token_budget
  Budget,                  \* and the budget of each
  NoCooldown               \* cooldown_until is None

ASSUME ProfileAssumption ==
  /\ MaxConsecutiveFailures \in Nat \ {0}
  /\ CooldownTime \in Nat
  /\ CreditCooldownTime \in Nat
  /\ NoCooldown \notin Nat

ASSUME BudgetAssumption ==
  Budgeted \subseteq Providers /\ Budget \in [Budgeted -> Nat]

ProviderStatus ==
  {"AVAILABLE", "RATE_LIMITED", "OFFLINE", "COOLDOWN", "FAILED"}

Health == [status   : ProviderStatus,
           failures : Nat,
           cooldown : Nat \cup {NoCooldown},
           tokens   : Nat]

NewHealth == [status |-> "AVAILABLE", failures |-> 0,
              cooldown |-> NoCooldown, tokens |-> 0]

\* refresh: an elapsed cooldown makes the provider available again. FAILED is
\* not among the statuses that recover.
Recovering == {"COOLDOWN", "RATE_LIMITED", "OFFLINE"}

\* Mutant of Refresh: only the status COOLDOWN, which nothing sets, recovers.
RefreshNever(h) ==
  IF h.status = "COOLDOWN" /\ h.cooldown = 0
  THEN [h EXCEPT !.status = "AVAILABLE", !.failures = 0,
                 !.cooldown = NoCooldown]
  ELSE h

Refresh(h) ==
  IF h.status \in Recovering /\ h.cooldown = 0
  THEN [h EXCEPT !.status = "AVAILABLE", !.failures = 0,
                 !.cooldown = NoCooldown]
  ELSE h

\* Mutant of HasBudget: the last response may start at the limit.
HasBudgetInclusive(p, h) == p \in Budgeted => h.tokens <= Budget[p]

\* has_budget() as candidates calls it.
HasBudget(p, h) == p \in Budgeted => h.tokens < Budget[p]

\* Mutants of RecordSuccess: the tokens are counted twice; the cooldown of an
\* earlier failure is kept.
RecordSuccessTwice(p, h, used) ==
  [status |-> "AVAILABLE", failures |-> 0, cooldown |-> NoCooldown,
   tokens |-> IF p \in Budgeted THEN h.tokens + 2 * used ELSE h.tokens]

RecordSuccessOnly(p, h, used) ==
  [h EXCEPT !.status = "AVAILABLE", !.failures = 0,
            !.tokens = IF p \in Budgeted THEN @ + used ELSE @]

\* _record_success: whatever the status has become since the call began.
RecordSuccess(p, h, used) ==
  [status |-> "AVAILABLE", failures |-> 0, cooldown |-> NoCooldown,
   tokens |-> IF p \in Budgeted THEN h.tokens + used ELSE h.tokens]

\* _record_failure
RecordFailure(h, error) ==
  CASE error = "rate_limited" ->
         [h EXCEPT !.status = "RATE_LIMITED", !.cooldown = CooldownTime]
    [] error = "credit_exhausted" ->
         [h EXCEPT !.status = "OFFLINE", !.cooldown = CreditCooldownTime]
    [] error = "error" ->
         IF h.failures + 1 >= MaxConsecutiveFailures
         THEN [h EXCEPT !.failures = @ + 1, !.status = "FAILED",
                        !.cooldown = CooldownTime]
         ELSE [h EXCEPT !.failures = @ + 1]

\* One unit of time passes.
Elapse(h) ==
  IF h.cooldown \in Nat \ {0} THEN [h EXCEPT !.cooldown = @ - 1] ELSE h
=============================================================================
