SPECIFICATION Spec
CONSTANTS
  c1 = c1
  c2 = c2
  c3 = c3
  k1 = k1
  NoBucket = NoBucket
  Clients = {k1}
  Calls = {c1, c2}
  Caller <- OneClient
  MaxTokens = 1
  WindowSeconds = 1
  TicksPerSecond = 2
  SocketTimeout = 2
  AttemptTimeout = 2
  StartBy = 2
  MaxClock = 4
SYMMETRY SymmetricCalls
INVARIANTS
  TypeOK
  AdmissionConserved
  ExpiryTransparent
  RetryAfterExact
PROPERTIES
  NoLostCredit
  ImplementsIdealBucket
