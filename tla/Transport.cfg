\* a shard server and a client that connects twice; chunks of up to 3 bytes
CONSTANTS
  Peers = {p1}
  p1 = p1
  NoPeer = NoPeer
  Side = "ShardServer"
  Lengths <- MCLengths
  MaxChunkSize = 5
  EmptyChunkSize = 2
  Timeout = 1
  CleanupInterval = 3
  MaxTime = 3
  MaxPackets = 2
  MaxConnections = 2

SPECIFICATION FairSpec

INVARIANTS
  TypeOK
  HandledAsSent
  RestoredInTime
  AnnouncedIsPresent
  OvertakenWithinStep

PROPERTIES
  ImplementsDelivery
  QueuedIsHandled
