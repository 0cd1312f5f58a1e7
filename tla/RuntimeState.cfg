SPECIFICATION Spec
CONSTANTS
  Updaters = {u1, u2}
  Prompts = {1, 2}
  Phases = {"BOOTSTRAPPING", "STABLE"}
  FirstPhase = "BOOTSTRAPPING"
  MaxUpdates = 3
  MaxCrashes = 2
  Absent = Absent
  Partial = Partial
SYMMETRY Symmetry
INVARIANTS
  ReadersSeeWholeDocuments
  CompletionsKept
CHECK_DEADLOCK FALSE
