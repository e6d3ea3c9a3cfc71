SPECIFICATION Spec
CONSTANTS
  c1 = c1
  c2 = c2
  t1 = t1
  t2 = t2
  Conns <- MCConns
  Threads <- MCThreads
  Fds = {3}
  MaxEvents = 2
  MaxSends = 1
  MaxFailures = 1
  NoFd = NoFd
  NoConn = NoConn
  Listen = Listen
SYMMETRY Sym
INVARIANTS
  MemorySafeUnlessRaced
  ServedOnce
  ResponseToItsClient
  EventsLeadToLiveRecords
PROPERTY
  HangsUpOnItsOwn
CHECK_DEADLOCK FALSE
