\* Two sockets that may announce either of two gateways; the network breaks
\* MQTT sessions twice.
CONSTANTS
  Conns = {c1, c2}
  Gateways = {g1, g2}
  NoClient = NoClient
  NoGateway = NoGateway
  MaxDrops = 2
SPECIFICATION Spec
INVARIANTS
  TypeOK
  NoDanglingEntry
  OwnerOrDuplicate
  SessionOfLiveClient
  StatusRowStaleOnlyByDuplicate
PROPERTIES
  DuplicateEnds
  OwnerKeepsSession
