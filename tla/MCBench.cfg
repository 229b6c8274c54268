SPECIFICATION Spec
CONSTANTS
  Duration = 10
  MaxDelay = 2
  IdleTimeout = 52
  MaxUnits = 2
  MaxTime = 77
INVARIANTS TypeOK SummaryReceived CountsAddUp
PROPERTY BothEnd
CHECK_DEADLOCK FALSE
