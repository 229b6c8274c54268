SPECIFICATION Spec
CONSTANTS
  Modes <- MCStreamOnly
  MaxPackets = 1
PROPERTY StreamCarries
CHECK_DEADLOCK FALSE
