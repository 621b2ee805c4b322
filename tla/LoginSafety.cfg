SPECIFICATION Spec
CONSTANTS
  Login = {l1, l2, l3}
  Token = {t1, t2}
  NoToken = NoToken
  NoId = NoId
  MaxFault = 2
SYMMETRY MCSymmetry
INVARIANTS
  TypeOK
  OneTokenPerUser
  StableIdentity
  DanglingExplained
CHECK_DEADLOCK FALSE
