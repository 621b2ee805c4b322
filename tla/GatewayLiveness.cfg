SPECIFICATION FairSpec
CONSTANTS
  Conn = {c1}
  NoConn = NoConn
  Pusher = {p1, p2}
  Cap = 1
  Batch <- MCSingles
PROPERTIES
  DoomedLeaves
  ShutdownEnds
CHECK_DEADLOCK FALSE
