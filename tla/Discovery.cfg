CONSTANTS
  Mac = {"m1", "m2"}
  Protocol = {"dhcp", "mdns", "arp"}
  Packets <- PacketSet
  Stored <- StoredSet
  EventCap = 2
  CounterMax = 2
  Threshold = 1
  MaxPackets = 3
  MaxTime = 2
  MaxScans = 1
SPECIFICATION Spec
INVARIANTS
  CountersAgree
  ReaderCatchesUp
  AnnouncedOnce
PROPERTIES
  FalseReportsOnlyByRace
CHECK_DEADLOCK FALSE
