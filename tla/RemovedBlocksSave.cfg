\* 2 shards, 1 character
CONSTANTS
  Shards = {s1, s2}
  Characters = {c1}
  NoShard = NoShard
  s1 = s1
  s2 = s2
  c1 = c1
  MaxAttempts = 1
  MaxSessions = 0
  MaxDeploys = 1
  MaxDeaths = 0
  MaxDisconnects = 0

SPECIFICATION Spec
SYMMETRY Symmetry

INVARIANTS
  QuiescentCutIsConsistent

\* The cluster stops when the last session of the model is over.
CHECK_DEADLOCK FALSE
