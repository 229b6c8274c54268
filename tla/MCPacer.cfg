SPECIFICATION Spec
CONSTANTS
  MaxRate = 10
  Burst = 9
  Packet = 7
  Adaptive = TRUE
  AdjustEvery = 3
  MaxTime = 18
INVARIANTS TypeOK SleepIsShort KeepsToTarget
CHECK_DEADLOCK FALSE
