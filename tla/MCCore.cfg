CONSTANTS
  NServices = 4
  InitUsed = 2
  Udp = {4}
  Crashing = {2}
  Limit <- SmallLimit
  Conns = {c1, c2}
  NoConn = NoConn
  Clients = {1, 2, 3, 4}
  NoClient = NoClient
  Selections <- Increasing
  MaxAsk <- Asks
  Online <- Everyone
  Capacity = 3
  MaxLines = 2
SPECIFICATION SpecCore
INVARIANTS
  TypeOK
  CountIsFreeSlots
  InitialNeverBlocksAccept
  N2BlockedOnlyByProcess
  S2Budget
PROPERTIES
  QueuedIsAccepted
  PassedIsReceived
  Ordered
  Delivered
CHECK_DEADLOCK FALSE
