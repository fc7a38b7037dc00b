CONSTANTS
  PidChoices <- MCPids
  NumPids = 4
  Cap = 2
  MaxLines = 2
  MaxSignals = 2
  MaxTyped = 1
  Rounds = 4
  MaxFile = 5
  MaxTurns = 3
  MaxShmLines = 2
  Svcs = {1, 2, 3}
  PortOf <- MCPorts
  Askers = {"x"}
  Room = 2
  Leaves = {0, 2, 12}
  MaxData = 6
  MaxFlips = 2
SPECIFICATION Spec
INVARIANTS
  LeftWaitingOnlyByTheft
  FirstMessageArrives
  EvaluatesTree
  OneFlipIsRepaired
  ListWrongOnlyAfterRace
PROPERTIES
  TakesTurns
  LinesInOrder
  RelayEnds
  HandlersEnd
  BothEnd
  LastLineShown
CHECK_DEADLOCK FALSE
