SPECIFICATION Spec
CONSTANTS
  MaxBacklog = 2
  BufferSize = 4
  MaxPackets = 7
  MaxDiscards = 3
INVARIANTS TypeOK BacklogCapped
PROPERTY WaitEnds
CHECK_DEADLOCK FALSE
