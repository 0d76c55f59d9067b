SPECIFICATION FairSpec
CONSTANTS
  Groups = {"A", "B"}
  MaxGroups = 2
  Templates = {"v1", "v2"}
  Specs <- Rollout
  InitSpec <- Unknown
  NoSpec = NoSpec
  MaxEdits = 2
  MaxFaults = 1
  MaxFailures = 1
INVARIANTS TypeOK OnlyAsked
PROPERTIES EditsSurvive EventuallyRolledOut
CHECK_DEADLOCK FALSE
