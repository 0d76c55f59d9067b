SPECIFICATION FairSpec
CONSTANTS
  MaxReplicas = 2
  Templates = {"A", "B"}
  NoTemplate = "none"
  ImageOnly <- TwoImages
  Specs <- ImageSpecs
  InitSpecs <- ImageStart
  HasGate = TRUE
  RevisionHistoryLimit = 0
  CacheMayLag = FALSE
  MaxEdits = 2
  MaxFaults = 1
  MaxErrors = 1
  MaxRestarts = 1
  MaxDisturbances = 2
INVARIANTS LiveRevisionsKept GateMeansUpdated
PROPERTIES NoPatchBeforeCompleted CompletionSound InPlaceOnlyNeverRecreates
           Convergence ImplementsRollout
CHECK_DEADLOCK FALSE
