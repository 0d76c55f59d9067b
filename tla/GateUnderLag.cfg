SPECIFICATION Spec
CONSTANTS
  MaxReplicas = 2
  Templates = {"A", "B"}
  NoTemplate = "none"
  ImageOnly <- TwoImages
  Specs <- PatchSpecs
  InitSpecs <- PatchStart
  HasGate = TRUE
  RevisionHistoryLimit = 0
  CacheMayLag = TRUE
  MaxEdits = 1
  MaxFaults = 0
  MaxErrors = 0
  MaxRestarts = 0
  MaxDisturbances = 1
INVARIANTS GateMeansUpdated
CHECK_DEADLOCK FALSE
