SPECIFICATION Spec
CONSTANTS
  Me = Me
  Server = {s1, s2}
  NoServer = NoServer
  MaxLogin = 1
  MaxJoin = 2
SYMMETRY MCSymmetry
INVARIANTS
  TypeOK
  NoGhostPeer
  InGameHasPeer
CHECK_DEADLOCK FALSE
