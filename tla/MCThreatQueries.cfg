SPECIFICATION Spec
CONSTANTS
  e1 = e1
  e2 = e2
  e3 = e3
  c1 = c1
  c2 = c2
  None = None
  Events = {e1, e2, e3}
  Clients = {c1, c2}
  Kinds <- SomeKinds
  Day = 1
  MaxClock = 2
  TopLimit = 1
  PageSizes = {1, 2}
SYMMETRY SymmetricEvents
INVARIANTS
  TypeOK
  FiguresAddUp
  FiguresUpToDate
  OffendersLead
  TotalCoversPage
  NoEventSkipped
