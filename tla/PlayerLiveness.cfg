SPECIFICATION FairSpec
CONSTANTS
  Me = Me
  Server = {s1}
  NoServer = NoServer
  MaxLogin = 2
  MaxJoin = 1
PROPERTIES
  TimersSpareAdmitted
  UnauthenticatedLeaves
  EnterGameDecided
  SessionEnds
CHECK_DEADLOCK FALSE
