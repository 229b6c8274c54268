SPECIFICATION Spec
CONSTANTS
  Procs = {p1, p2}
  NoProc = NoProc
  Concurrent = TRUE
PROPERTY LiveRoutesKept
CHECK_DEADLOCK FALSE
