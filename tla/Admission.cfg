SPECIFICATION FairSpec
CONSTANTS
  Namespace = "dxp"
  Nodes <- FourNodes
  Rules <- ShippedRules
  Workloads = {"dep", "job", "two", "cron"}
  Template <- SomeTemplates
  Limits <- SomeLimits
  Injectors = {"i"}
  InjectorSpecs <- SomeSpecs
  Selects <- AllPods
  MaxEdits = 3
  MaxFaults = 1
  MaxParents = 2
INVARIANTS TypeOK PlacedWithinLimit ListedMachinesAdmitted
           ChildrenKeepTemplate SidecarsAroundOwn
PROPERTIES NothingUndone InjectorOwned PodsRun
CHECK_DEADLOCK FALSE
