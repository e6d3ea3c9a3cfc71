SPECIFICATION FairSpec
CONSTANTS
  r1 = r1
  r2 = r2
  r3 = r3
  Requests <- MCRequests
  PoolSize = 4
  Uses = 2
  NoThread = NoThread
INVARIANTS
  SlotFound
  FlagsMatchHolders
  BuilderIsHolders
PROPERTIES
  RequestsEnd
  ImplementsAbstractPool
\* Every request is served once.
CHECK_DEADLOCK FALSE
