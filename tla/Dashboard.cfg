CONSTANTS
  MaxAlerts = 2
  Macs = {m1}
  None = None
  Replaced = Replaced
  MaxDeletes = 1
  MaxFaults = 1
SPECIFICATION FairSpec
INVARIANT StaleOnlyByOverlap
PROPERTIES
  AckHitsHighlighted
  AckStaysShown
CHECK_DEADLOCK FALSE
