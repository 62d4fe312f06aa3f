CONSTANTS
  Shards = {s1, s2}
  Clients = {c1, c2}
  Players = {a}
  None = None
  MaxConnections = 4
  MaxFailures = 1
SPECIFICATION Spec
INVARIANTS
  TypeOK
  OneConnectionPerUser
  NobodyStartsEarly
  PresenceIsExact
  ReportFindsItsTask
  StateIsFresh
CHECK_DEADLOCK FALSE
SYMMETRY Symmetry
