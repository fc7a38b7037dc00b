CONSTANTS
  Ports = {p1, p2}
  Clients = {c1, c2}
  NoPort = NoPort
  Stdin = Stdin
  MaxInd = 2
SPECIFICATION Spec
SYMMETRY Symmetry
INVARIANT PassedToOwner
CHECK_DEADLOCK FALSE
