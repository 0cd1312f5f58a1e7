SPECIFICATION Spec
CONSTANTS
  Tasks = {t1, t2}
  NoTask = NoTask
  Providers = {"opencode", "claude"}
  Submissions <- AllSubmissions
  BatchLimit = 2
  Deployments <- Shipped
  Schedulers = {s1}
  Workers = {w1, w2}
  MaxFaults = 0
PROPERTY TasksFinish
CHECK_DEADLOCK FALSE
