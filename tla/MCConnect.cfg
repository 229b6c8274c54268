SPECIFICATION Spec
CONSTANTS
  c1 = c1
  c2 = c2
  NoConn = NoConn
  Clients <- MCClients
  Scenarios <- MCScenarios
  ServerConfig <- MCServerConfig
  ServerToken <- MCServerToken
  Capacities <- MCCapacities
  MaxConns <- MCMaxConns
INVARIANTS
  TypeOK
  OnlyInvitedServed
  LastConnectionServed
  RequestUnderstood
PROPERTIES
  StartupEnds
  UpIsServedOrEnds
  SlotIsFreed
