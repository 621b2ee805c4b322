SPECIFICATION RoutingSpec
CONSTANTS
  Server = {s1, s2}
  Endpoint = {e1}
  Slot = {1, 2, 3}
  NoLease = NoLease
  MaxFault = 1
SYMMETRY MCSymmetry
INVARIANTS
  RoutingTypeOK
  EstablishedRoutable
PROPERTIES
  NoRevival
  RouteExplained
CHECK_DEADLOCK FALSE
