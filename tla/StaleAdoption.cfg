SPECIFICATION Spec
CONSTANTS
  SetNames <- OneSet
  Numerals <- TwoNumerals
  TooLong <- Huge
  SetSpecs <- SomeSpecs
  InitSets <- WebExists
  Strays <- NoStrays
  CacheMayLag = TRUE
  MaxEdits = 1
  MaxFaults = 0
  MaxDisturbances = 1
PROPERTIES NotReadopted
CHECK_DEADLOCK FALSE
