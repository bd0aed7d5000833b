\* Three routers and a fourth: connections break, a message is forwarded.
SPECIFICATION MeshSpec
CONSTANTS
  Node <- MeshNode
  Conn <- MeshConn
  Owner <- MeshOwner
  Twin <- MeshTwin
  DestRouteLimit = 3
  MaxBreaks = 2
  MaxShutdowns = 0
  MaxHellos = 0
  MaxSends = 1
INVARIANTS
  TypeOK
  RoutesSound
  SignalsMatchTable
  Converged
  NoForwardingLoop
CHECK_DEADLOCK FALSE
