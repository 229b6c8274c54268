SPECIFICATION Spec
CONSTANTS
  Base = 2
  MaxSend = 4
  MaxRecv = 2
  MaxPackets = 2
INVARIANTS TypeOK PacketsIntact CleanEndIsComplete
PROPERTY EveryPacketArrives
CHECK_DEADLOCK FALSE
