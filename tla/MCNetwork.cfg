CONSTANTS
  Worlds <- AllWorlds
  TableLimit = 2
  TickInterval = 2
  HandshakeDeadline = 1
  PingInterval = 2
  MaxPingResponse = 2
  SeednodeDelay = 2
  ProtocolVersion = 3
  ProtocolMinimum = 2
SPECIFICATION Spec
CHECK_DEADLOCK FALSE
INVARIANTS ConnectionsSound DeadlinesKept NodeTableSound
