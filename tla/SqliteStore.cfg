CONSTANTS
  Mac = {m1, m2}
  MaxCount = 3
  MaxStarts = 3
SPECIFICATION FairSpec
PROPERTIES
  TrackLostOnlyByStaleClear
  ImplementsInventory
  SettledMarkIsFlushed
CHECK_DEADLOCK FALSE
