SPECIFICATION Spec
CONSTANTS
  r1 = r1
  r2 = r2
  proxy = proxy
  client = client
  local = local
  key = key
  None = None
  Requests = {r1, r2}
  Kinds <- AnyKind
  Addresses = {proxy, client, local}
  Keys = {key}
  Whitelist = {local}
  Limit = 1
  Commands = 2
SYMMETRY SymmetricRequests
INVARIANTS
  TypeOK
  EventsMatchAnswers
  HandlersSeeNoThreat
  PassageIsPaid
