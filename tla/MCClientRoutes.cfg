SPECIFICATION Spec
CONSTANTS
  Procs = {p1, p2, p3}
  NoProc = NoProc
  Concurrent = FALSE
SYMMETRY Symmetry
INVARIANTS TypeOK ConnectsOutsideTunnel ServerStaysReachable PumpsFullyRouted LeavesNoRoutes
CHECK_DEADLOCK FALSE
