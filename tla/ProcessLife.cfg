SPECIFICATION FairSpec
CONSTANTS
  Handler = {h1, h2}
  MaxPing = 2
INVARIANTS TypeOK CallsHaveRedis NoCallCut ClientsClosed
PROPERTIES StartDecided SignalEnds
CHECK_DEADLOCK FALSE
