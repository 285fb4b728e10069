CONSTANTS
  NodeCount = 3
  Hop <- MCHop
  MaxHops = 1
  QueueLimit = 3
  Connected <- MCConnected
  SilencedRows <- MCSilencedRows
  PlateRows <- MCPlateRows
  ScalarQueues <- MCScalarQueues
  LastPage = 1
  MaxNoise = 1
  MaxDue = 2
SPECIFICATION Spec
INVARIANTS TypeOK ProfilesOwn
PROPERTIES StruckOffAnswered 
CHECK_DEADLOCK FALSE
