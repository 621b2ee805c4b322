SPECIFICATION FairSpec
CONSTANTS
  Server = {s1}
  Endpoint = {e1}
  Slot = {1, 2, 3}
  NoLease = NoLease
  MaxFault = 0
PROPERTIES
  HeartbeatKeepsRoutable
CHECK_DEADLOCK FALSE
