CONSTANTS
  ChannelSize = 1
  MaxCaptureErrors = 2
  MaxPackets = 3
  EventCap = 1
  Notifiers <- ThreeNotifiers
  AlertCap = 1
  MqttCap = 1
SPECIFICATION DaemonSpec
INVARIANTS
  FinalFlushSeesAll
  DaemonInv
  InOrderToAll
PROPERTIES
  SignalEndsDaemon
  AllDelivered
CHECK_DEADLOCK FALSE
