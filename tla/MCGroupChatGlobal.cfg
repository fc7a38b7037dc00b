CONSTANTS
  Online <- Everyone
  Capacity = 6
  MaxLines = 1
SPECIFICATION SpecGroup
INVARIANT GlobalReachesAll
CHECK_DEADLOCK FALSE
