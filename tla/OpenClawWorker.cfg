SPECIFICATION Spec
CONSTANTS
  t1 = t1
  t2 = t2
  Tasks = {t1, t2}
  Workers = {w1, w2}
  Source <- TwoTasks
  Payloads <- SomePayloads
  Docker = TRUE
  MaxRaises = 1
  NoTask = NoTask
INVARIANTS
  LossBoundedByRaises
  ExecutedOnce
  ReportsMatchEvents
  SuccessIsWhole
  LeftoversBounded
PROPERTIES
  ImplementsExecution
  SourceDrained
CHECK_DEADLOCK FALSE
