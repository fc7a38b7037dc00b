CONSTANTS
  Peers = {1, 2, 3}
  MaxMsgs = 1
  Datagrams = 3
  Lines = 4
  First = 2
  Udp = {2}
  Users = {u1, u2, u3}
  FileLen = 70
SPECIFICATION Spec
INVARIANTS
  ThreadsServeLater
  BlockedOnlyAfterClose
  BlockedOnlyOnNew
  AckOrdersReads
PROPERTIES
  BacklogIsAccepted
  WaitingIsServed
CHECK_DEADLOCK FALSE
