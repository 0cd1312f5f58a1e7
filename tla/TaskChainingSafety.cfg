SPECIFICATION Spec
CONSTANTS
  Tasks = {t1, t2, t3, t4}
  Heads <- StepHeads
  Continuation <- StepForever
  MaxDepth = 2
  MaxAttempts = 1
  Handlers = {h1, h2}
  MaxReports = 2
  MaxEdges = 2
  MaxRaises = 1
  NoTask = NoTask
SYMMETRY Symmetry
INVARIANTS
  Acyclic
  ChainBounded
  HeldAreRecorded
  OrphansBoundedByRaises
  ReadyAfterParent
CHECK_DEADLOCK FALSE
