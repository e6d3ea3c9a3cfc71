SPECIFICATION FairSpec
CONSTANTS
  c1 = c1
  c2 = c2
  t1 = t1
  Conns <- MCConns
  t2 = t2
  Threads = {t1}
  Fds = {3}
  MaxEvents = 2
  MaxSends = 2
  MaxFailures = 1
  NoFd = NoFd
  NoConn = NoConn
  Listen = Listen
PROPERTIES
  EveryConnectionCloses
  QueuedConnectionsAreAccepted
\* The system stops: the clients are finitely many.
CHECK_DEADLOCK FALSE
