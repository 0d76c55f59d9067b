SPECIFICATION FairSpec
CONSTANTS
  Coordinate <- Machines
  Lower <- LowerCase
  Specs <- OneRackUneven
  InitSpec <- OneRack
  NoSpec = NoSpec
  MaxEdits = 1
  MaxFaults = 0
  MaxFailures = 0
PROPERTY Deployed
CHECK_DEADLOCK FALSE
