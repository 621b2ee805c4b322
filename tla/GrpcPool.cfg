SPECIFICATION Spec
CONSTANTS
  Caller = {g1, g2, g3}
  Target = {t1, t2}
  Conn = {k1, k2, k3}
  NoCaller = NoCaller
  NoTarget = NoTarget
  NoConn = NoConn
SYMMETRY MCSymmetry
INVARIANTS
  TypeOK
  OneConnPerTarget
  CloseReachesAll
CHECK_DEADLOCK FALSE
