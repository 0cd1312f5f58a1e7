SPECIFICATION Spec
CONSTANTS
  Providers <- OneKey
  Stubs = {"local"}
  Budgeted = {"openrouter"}
  Budget <- SmallBudget
  MaxConsecutiveFailures = 2
  CooldownTime = 1
  CreditCooldownTime = 2
  NoCooldown = NoCooldown
  Callers = {c1, c2}
  Requests <- OneKeyRequests
  MaxTokens = 2
  MaxRestarts = 1
  NoProvider = NoProvider
INVARIANTS
  HealthConsistent
  OverrunBounded
  StubServes
PROPERTIES
  CooldownHonoured
  ExhaustedStaysOut
  CallsEnd
  LimitedRecovers
