SPECIFICATION FairSpec
CONSTANTS
  MaxReplicas = 3
  Templates = {"A", "B"}
  NoTemplate = "none"
  ImageOnly <- NoImage
  Specs <- ScaleSpecs
  InitSpecs <- ScaleStart
  HasGate = FALSE
  RevisionHistoryLimit = 0
  CacheMayLag = FALSE
  MaxEdits = 2
  MaxFaults = 1
  MaxErrors = 0
  MaxRestarts = 0
  MaxDisturbances = 2
INVARIANTS TypeOK CurrentRevisionKept LiveRevisionsKept
PROPERTIES ScaleUpInOrder ScaleDownInOrder UpdateBudget CompletionSound
           OnlyManualUpdates Convergence ImplementsRollout
CHECK_DEADLOCK FALSE
