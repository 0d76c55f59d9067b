SPECIFICATION Spec
CONSTANTS
  MaxReplicas = 2
  Templates = {"A", "B"}
  NoTemplate = "none"
  ImageOnly <- NoImage
  Specs <- CanarySpecs
  InitSpecs <- CanaryStart
  HasGate = FALSE
  RevisionHistoryLimit = 0
  CacheMayLag = TRUE
  MaxEdits = 2
  MaxFaults = 1
  MaxErrors = 1
  MaxRestarts = 0
  MaxDisturbances = 3
INVARIANTS CurrentRevisionKept
PROPERTIES CanaryIsolation
CHECK_DEADLOCK FALSE
