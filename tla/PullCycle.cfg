SPECIFICATION Spec
CHECK_DEADLOCK FALSE
CONSTANTS
  NodeCount = 2
  Alternates <- MCAlternates
  LastPage = 1
  MaxRetries = 2
  LoopLimit = 2
  PageLimit = 2
  MaxIpCycles = 2
  TxPageIndex = 0
  Renewed <- MCRenewed
  Lacking <- MCLacking
  MaxNoise = 1
  MaxDue = 2
  MaxWindow = 1
INVARIANTS TypeOK PathsKept RowsTrue StruckOffMeansAwake LockReleased
PROPERTIES DoneOnlyAtTheEnd CycleEnds
