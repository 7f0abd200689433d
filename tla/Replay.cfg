SPECIFICATION Spec
CONSTANTS
  Providers = {"Azure", "Wafer"}
  Routings <- SomeRoutings
  Histories <- SomeHistories
  MaxTurns = 2
INVARIANTS
  
  RoutingRespected
  NewestReplayed
  RetriedOnceClean
