CONSTANTS
  NodeCount = 3
  Hop <- MCHop
  MaxHops = 1
  QueueLimit = 3
  Connected <- MCConnected
  SilencedRows <- MCSilencedRows
  PlateRows <- MCPlateRows
  ScalarQueues <- MCScalarQueues
  LastPage = 1
  MaxNoise = 1
  MaxDue = 2
SPECIFICATION Spec
INVARIANT SilentIsWoken
CHECK_DEADLOCK FALSE
