SPECIFICATION ReadSpec
CONSTANTS
  HeaderSizes = {1, 3, 5, 6}
  ContentLengths = {0, 1, 3}
  Capacity = 5
  Timeout = 2
INVARIANTS
  WholeUnlessCut
PROPERTIES
  HeadersEnd
  SentIsHandled
\* A request that was built or refused is at rest.
CHECK_DEADLOCK FALSE
