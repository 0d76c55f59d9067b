SPECIFICATION FairSpec
CONSTANTS
  SetNames <- ThreeSets
  Numerals <- TwoNumerals
  TooLong <- Huge
  SetSpecs <- SomeSpecs
  InitSets <- TwoExist
  Strays <- SomeStrays
  CacheMayLag = FALSE
  MaxEdits = 2
  MaxFaults = 1
  MaxDisturbances = 2
INVARIANTS TypeOK OwnerIsParent ClaimsBeforePods
PROPERTIES NotReadopted PodsOwned
CHECK_DEADLOCK FALSE
