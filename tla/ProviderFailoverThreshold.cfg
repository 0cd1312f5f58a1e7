SPECIFICATION Spec
CONSTANTS
  Providers <- BothKeys
  Stubs = {"local"}
  Budgeted = {}
  Budget <- NoBudget
  MaxConsecutiveFailures = 2
  CooldownTime = 1
  CreditCooldownTime = 2
  NoCooldown = NoCooldown
  Callers = {c1}
  Requests <- BothKeysRequests
  MaxTokens = 0
  MaxRestarts = 0
  NoProvider = NoProvider
PROPERTIES
  ThresholdCoolsDown
