SPECIFICATION Spec
CONSTANTS
  Modes <- MCAllModes
  MaxPackets = 2
INVARIANTS TypeOK MismatchIsDark
PROPERTIES DatagramCarries NobodyLeftBehind
CHECK_DEADLOCK FALSE
