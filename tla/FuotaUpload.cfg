CONSTANTS
  FileSize = 7
  Sector = 3
  Payload = 2
  MaxLate = 2
  MaxUploads = 2
SPECIFICATION Spec
INVARIANTS FlashIntact CompleteStored
PROPERTY UploadEnds
CHECK_DEADLOCK FALSE
