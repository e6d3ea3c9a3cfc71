SPECIFICATION FairSpec
CONSTANTS
  c1 = c1
  c2 = c2
  t1 = t1
  t2 = t2
  Conns = {c1}
  Threads <- MCThreads
  Fds = {3}
  MaxEvents = 1
  MaxSends = 1
  MaxFailures = 1
  NoFd = NoFd
  NoConn = NoConn
  Listen = Listen
PROPERTIES
  AcceptFailureIsSurvived
CHECK_DEADLOCK FALSE
