\* Two links between two routers: one of them breaks.
SPECIFICATION Spec
CONSTANTS
  Node <- PairNode
  Conn <- PairConn
  Owner <- PairOwner
  Twin <- PairTwin
  DestRouteLimit = 3
  MaxBreaks = 1
  MaxShutdowns = 0
  MaxHellos = 0
  MaxSends = 0
INVARIANT NeighbourReachable
CHECK_DEADLOCK FALSE
