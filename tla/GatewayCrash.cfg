SPECIFICATION Spec
CONSTANTS
  Conn = {c1}
  NoConn = NoConn
  Pusher = {p1}
  Cap = 1
  Batch <- MCSingles
INVARIANTS
  NoProcessCrash
CHECK_DEADLOCK FALSE
