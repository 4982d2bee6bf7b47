SPECIFICATION FairSpec
CONSTANTS
  r1 = r1
  r2 = r2
  client = client
  None = None
  Requests = {r1, r2}
  Kinds <- SomeKinds
  Addresses = {client}
  Keys = {}
  Whitelist = {}
  Limit = 1
  Commands = 1
  MaxConnections = 1
PROPERTIES
  EveryRequestAnswered
  ImplementsAuditTrail
