SPECIFICATION Spec
CONSTANTS
  Conns = {c1, c2, c3}
  NoConn = NoConn
INVARIANTS TypeOK DisplacedIsBeingClosed SlotHasLiveOwner NoOrphanConnection
PROPERTIES DisplacedEnds ImplementsSingleClient
