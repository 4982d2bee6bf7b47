SPECIFICATION FairSpec
CONSTANTS
  e1 = e1
  e2 = e2
  q1 = q1
  q2 = q2
  Events = {e1, e2}
  Queries = {q1, q2}
  MaxConnections = 2
INVARIANTS
  TypeOK
  LoggedMeansRecorded
  NoLeakedConnection
PROPERTIES
  EveryTaskEnds
  EveryConnectionReturns
  RecordedWhileRunning
