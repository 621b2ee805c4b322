SPECIFICATION Spec
CONSTANTS
  Conn = {c1, c2}
  NoConn = NoConn
  Pusher = {p1}
  Cap = 1
  Batch <- MCPairs
SYMMETRY MCSymmetry
INVARIANTS
  TypeOK
  ReaderChannelSafe
  SessionTable
  ShutdownComplete
PROPERTIES
  KeepsContract
CHECK_DEADLOCK FALSE
