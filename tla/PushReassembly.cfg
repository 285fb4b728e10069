CONSTANTS
  Source <- MCSource
  LastPage = 2
  RecordsPerPage = 2
  BlockLength = 3
  MaxRound = 2
  MaxFault = 2
SPECIFICATION Spec
INVARIANTS StoredWhole WholePushStored
PROPERTY BuffersDrain
CHECK_DEADLOCK FALSE
