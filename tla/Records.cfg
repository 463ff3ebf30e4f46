SPECIFICATION Spec
CONSTANTS
  Packets <- MCPackets
  Kinds <- MCKinds
  Vendor <- MCVendor
  Precision = 2
  MaxPackets = 2
  MaxClock = 2
  MaxOpens = 3
INVARIANTS
  ReadsBack
  PacketsAccounted
  AlwaysOpens
CHECK_DEADLOCK FALSE
