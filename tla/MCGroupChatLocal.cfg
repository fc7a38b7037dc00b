CONSTANTS
  Online <- GroupA
  Capacity = 2
  MaxLines = 3
SPECIFICATION FairSpecGroup
PROPERTY LocalDelivered
CHECK_DEADLOCK FALSE
