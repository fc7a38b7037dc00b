CONSTANTS
  UdpClients = {"u1", "u2", "u3"}
  TcpClients = {"t1", "t2"}
  Buffer = 2
  MaxAsks = 2
  Chatters = {"x", "y", "z"}
  Callers = {"x"}
  SockBuf = 1
  MaxSaid = 8
  MaxLeft = 1
  Students = {"s1", "s2", "s3"}
  MaxForms = 1
  MaxGone = 1
  Reporters = {1, 2, 3}
  MaxReports = 2
  MaxNews = 4
SPECIFICATION Spec
INVARIANTS
  AnswersMatch
  FaultsOnlyAfterLeave
  ThirdStudentKills
  CaughtOnlyOnPassed
PROPERTIES
  ChatDelivered
CHECK_DEADLOCK FALSE
