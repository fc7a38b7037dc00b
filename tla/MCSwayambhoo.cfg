CONSTANTS
  Ports = {p1, p2}
  Clients = {c1, c2}
  NoPort = NoPort
  Stdin = Stdin
  MaxInd = 2
SPECIFICATION FewSpec
INVARIANTS
  OneAnswerPerReport
  OneHolder
  BlockedOnlyByIss
  MisroutedOnlyFromFirst
PROPERTIES
  ReportAnswered
  HeldIsServed
CHECK_DEADLOCK FALSE
