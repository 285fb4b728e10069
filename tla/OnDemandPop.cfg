CONSTANTS
  Ids <- MCIds
  Messages <- MCMessages
  \* more than the payloads of two messages can fill: nothing overflows
  MAX_QUEUE_SIZE = 5
  MaxDeliveries = 2
  MaxPackets = 1
SPECIFICATION Spec
PROPERTY PopRemovesProcessed
