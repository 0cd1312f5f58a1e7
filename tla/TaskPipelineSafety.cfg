SPECIFICATION Spec
CONSTANTS
  Tasks = {t1, t2}
  NoTask = NoTask
  Providers = {"opencode", "claude"}
  Submissions <- AllSubmissions
  BatchLimit = 2
  Deployments <- AllDeployments
  Schedulers = {s1}
  Workers = {w1, w2}
  MaxFaults = 2
SYMMETRY Symmetry
INVARIANTS
  OneCopy
  BoundedExecutions
  LossBoundedByFaults
  RecordedEventsTrue
PROPERTIES
  ImplementsLifecycle
CHECK_DEADLOCK FALSE
