SPECIFICATION FairSpec
CONSTANTS
  Server = {s1}
  Endpoint = {e1}
  Slot = {1, 2, 3}
  NoLease = NoLease
  MaxFault = 2
PROPERTIES
  DeadEndpointLeaves
  RunningServerLeased
CHECK_DEADLOCK FALSE
