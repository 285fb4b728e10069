CONSTANTS
  Ids <- MCIds
  Messages <- MCMessages
  MAX_QUEUE_SIZE = 2
  MaxDeliveries = 2
  MaxPackets = 1
SPECIFICATION Spec
INVARIANTS
  TypeOK
  NoLostWakeup
  FlagHasWakeup
  SkippedOnlyIfDisturbed
PROPERTIES
  OdmDrained
  CancelRecorded
