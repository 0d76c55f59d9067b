SPECIFICATION FairSpec
CONSTANTS
  MaxReplicas = 2
  Templates = {"A", "B"}
  NoTemplate = "none"
  ImageOnly <- NoImage
  Specs <- TwoStart
  InitSpecs <- TwoStart
  HasGate = FALSE
  RevisionHistoryLimit = 0
  CacheMayLag = FALSE
  MaxEdits = 0
  MaxFaults = 0
  MaxErrors = 1
  MaxRestarts = 0
  MaxDisturbances = 1
PROPERTIES RetriedUntilSuccessful
CHECK_DEADLOCK FALSE
