CONSTANTS
  Clients = {1, 2, 3, 4}
  NoClient = NoClient
  Selections <- Increasing
  MaxAsk <- Asks
SPECIFICATION FairSpecAos
PROPERTIES
  SignalledServes
CHECK_DEADLOCK FALSE
