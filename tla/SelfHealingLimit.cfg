SPECIFICATION Spec
CONSTANTS
  Outputs <- MixedOutputs
  Handlers = {h1, h2}
  MaxRepairAttempts = 2
  DeterministicFirst = TRUE
  RollbackAfterRepeats = 3
  MaxFailures = 4
SYMMETRY Symmetry
INVARIANT RepairsWithinLimit
CHECK_DEADLOCK FALSE
