CONSTANTS
  Mac = {"m1"}
  Rules <- MixedRules
  Events <- Discovered
  EventCap = 2
  AlertCap = 1
  StoreFails = TRUE
  MaxEvents = 3
  MaxTime = 3
SPECIFICATION FairSpec
INVARIANTS
  AckSlipsAtMostOne
  AlertsAccounted
PROPERTIES
  CooldownSpacing
  EngineReturns
CHECK_DEADLOCK FALSE
