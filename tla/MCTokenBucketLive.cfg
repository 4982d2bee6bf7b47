SPECIFICATION FairSpec
CONSTANTS
  c1 = c1
  c2 = c2
  c3 = c3
  k1 = k1
  NoBucket = NoBucket
  Clients = {k1}
  Calls = {c1}
  Caller <- OneClient
  MaxTokens = 3
  WindowSeconds = 1
  TicksPerSecond = 1
  SocketTimeout = 1
  AttemptTimeout = 2
  StartBy = 1
  MaxClock = 13
INVARIANTS
  ChargesBounded
  BoundedWait
PROPERTY
  EveryCallEnds
