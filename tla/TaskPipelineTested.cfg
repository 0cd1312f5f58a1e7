SPECIFICATION Spec
CONSTANTS
  Tasks = {t1}
  NoTask = NoTask
  Providers = {"opencode", "claude"}
  Submissions <- FailingSubmission
  BatchLimit = 2
  Deployments <- Expected
  Schedulers = {s1}
  Workers = {w1}
  MaxFaults = 0
PROPERTY ImplementsTestedLifecycle
CHECK_DEADLOCK FALSE
