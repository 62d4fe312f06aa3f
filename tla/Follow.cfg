\* 1 client that connects twice, ticks up to 6, of a new campaign or from 3 on
CONSTANTS
  Clients = {c1}
  c1 = c1
  Steps = 2
  StepsPerSecond = 3
  RingLength = 3
  HistoryLength = 2
  MinSafe = 2
  MinToFastForward = 3
  FirstTicks = {0, 3}
  MaxFrame = 4
  MaxTick = 6
  MaxChanges = 2
  MaxConnects = 2

SPECIFICATION FairSpec

INVARIANTS
  TypeOK
  NoGap
  ViewIsExact

PROPERTIES
  ImplementsReplica
  ClientTimeIsSound
  SnapshotArrives

\* The shard stops at the bound on its ticks.
CHECK_DEADLOCK FALSE
