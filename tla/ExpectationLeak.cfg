SPECIFICATION FairSpec
CONSTANTS
  MaxReplicas = 2
  Templates = {"A", "B"}
  NoTemplate = "none"
  ImageOnly <- TwoImages
  Specs <- PatchThenShrink
  InitSpecs <- PatchStart
  HasGate = TRUE
  RevisionHistoryLimit = 0
  CacheMayLag = FALSE
  MaxEdits = 2
  MaxFaults = 1
  MaxErrors = 0
  MaxRestarts = 0
  MaxDisturbances = 3
PROPERTIES Convergence
CHECK_DEADLOCK FALSE
