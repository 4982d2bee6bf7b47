SPECIFICATION FairSpec
CONSTANTS
  w1 = w1
  w2 = w2
  None = None
  Orphan = Orphan
  Workers = {w1, w2}
  MaxFaults = 1
INVARIANTS
  TypeOK
  ServesWithTables
  ProbesTellTheTruth
  NoClientLeftBehind
PROPERTY
  EveryStartEnds
  EveryStopEnds
