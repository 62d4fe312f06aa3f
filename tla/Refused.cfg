CONSTANTS
  Shards = {s1}
  Clients = {c1}
  Players = {a}
  None = None
  MaxConnections = 3
  MaxFailures = 1
SPECIFICATION FairSpec
PROPERTY ConnectionsAreAllowed
CHECK_DEADLOCK FALSE
