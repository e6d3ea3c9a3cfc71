SPECIFICATION FairSpec
CONSTANTS
  t1 = t1
  t2 = t2
  t3 = t3
  t4 = t4
  a = a
  b = b
  c = c
  Threads <- MCThreads
  Connections <- MCConnections
  Size = 2
  NoConnection = NoConnection
  NoThread = NoThread
INVARIANTS
  NeverEmpty
  ListAndHoldersApart
PROPERTIES
  BorrowersReturn
  ImplementsAbstractPool
