SPECIFICATION Spec
CONSTANTS
  MaxRate = 10
  Burst = 9
  Packet = 7
  Adaptive = FALSE
  AdjustEvery = 3
  MaxTime = 9
INVARIANT BurstIsSmall
CHECK_DEADLOCK FALSE
