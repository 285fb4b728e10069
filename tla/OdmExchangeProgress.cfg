CONSTANTS
  MaxRequests = 1
  MaxPage = 1
  MaxPings = 1
  MaxPackets = 3
  Packets <- MCPackets
SPECIFICATION Spec
PROPERTY CompletionAccepted
