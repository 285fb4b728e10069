CONSTANTS
  MaxRequests = 2
  MaxPage = 1
  MaxPings = 2
  MaxPackets = 3
  Packets <- MCPackets
SPECIFICATION Spec
INVARIANTS
  TypeOK
  ShortRetryOnlyIfCarried
  NothingServedTwice
PROPERTIES
  NoPageMissing
  ServiceSpec
