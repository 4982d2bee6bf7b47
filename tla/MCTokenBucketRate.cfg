SPECIFICATION Spec
CONSTANTS
  c1 = c1
  c2 = c2
  c3 = c3
  k1 = k1
  NoBucket = NoBucket
  Clients = {k1}
  Calls = {c1, c2, c3}
  Caller <- OneClient
  MaxTokens = 1
  WindowSeconds = 2
  TicksPerSecond = 1
  SocketTimeout = 1
  AttemptTimeout = 1
  StartBy = 3
  MaxClock = 9
SYMMETRY SymmetricCalls
INVARIANT
  ConstantRefillRate
