SPECIFICATION FairSpec
CONSTANTS
  Session = {s1}
  Caller = {g1}
  Conn = {k1, k2}
  Host = Host
  NoHost = NoHost
  NoConn = NoConn
  NoCaller = NoCaller
  NoTarget = NoTarget
  NoJob = NoJob
INVARIANTS
  TypeOK
PROPERTIES
  HandlerReturns
  CleanupEnds
CHECK_DEADLOCK FALSE
