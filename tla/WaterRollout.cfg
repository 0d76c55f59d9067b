SPECIFICATION FairSpec
CONSTANTS
  Coordinate <- Machines
  Lower <- LowerCase
  Specs <- Rollout
  InitSpec <- FirstRack
  NoSpec = NoSpec
  MaxEdits = 3
  MaxFaults = 1
  MaxFailures = 1
INVARIANTS TypeOK Accounted
PROPERTIES PlacesThatStay Deployed
CHECK_DEADLOCK FALSE
