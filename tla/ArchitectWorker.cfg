SPECIFICATION Spec
CONSTANTS
  Callers = {c1, c2}
  Keys <- SomeKeys
  RawScores <- EdgeScores
  Registered = {"claude", "local"}
  MaxReviews = 3
  NoKey = NoKey
INVARIANTS
  TypeOK
  DriftMatchesHistory
  EventsMatchReviews
  SilentBoundedByRaises
CHECK_DEADLOCK FALSE
