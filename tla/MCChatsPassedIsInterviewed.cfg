CONSTANTS
  UdpClients = {"u1"}
  TcpClients = {"t1"}
  Buffer = 1
  MaxAsks = 1
  Chatters = {"x"}
  Callers = {"x"}
  SockBuf = 1
  MaxSaid = 1
  MaxLeft = 0
  Students = {"s1"}
  MaxForms = 1
  MaxGone = 0
  Reporters = {1, 2, 3}
  MaxReports = 1
  MaxNews = 1
SPECIFICATION Spec
PROPERTIES
  PassedIsInterviewed
CHECK_DEADLOCK FALSE
