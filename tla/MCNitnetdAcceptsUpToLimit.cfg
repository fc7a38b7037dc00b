CONSTANTS
  NServices = 2
  InitUsed = 2
  Udp = {}
  Crashing = {}
  Limit <- CodeLimit
  Conns = {c1, c2}
  NoConn = NoConn
SPECIFICATION FairSpec
PROPERTIES
  AcceptsUpToLimit
CHECK_DEADLOCK FALSE
