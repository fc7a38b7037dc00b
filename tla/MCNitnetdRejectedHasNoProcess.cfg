CONSTANTS
  NServices = 4
  InitUsed = 2
  Udp = {4}
  Crashing = {2}
  Limit <- SmallLimit
  Conns = {c1, c2, c3}
  NoConn = NoConn
SPECIFICATION Spec
SYMMETRY Symmetry
INVARIANT RejectedHasNoProcess
CHECK_DEADLOCK FALSE
