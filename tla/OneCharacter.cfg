\* 2 shards, 1 character
CONSTANTS
  Shards = {s1, s2}
  Characters = {c1}
  NoShard = NoShard
  s1 = s1
  s2 = s2
  c1 = c1
  MaxAttempts = 2
  MaxSessions = 1
  MaxDeploys = 2
  MaxDeaths = 1
  MaxDisconnects = 1

SPECIFICATION FairSpec

INVARIANTS
  TypeOK
  LiveWhereTracked
  SpawnFindsNoEntity
  AnswersMatchRequests

PROPERTIES
  RecallClearsOwnDeployment
  ResumeIsExact
  ImplementsDeployment
  LoadSettles
  SaveSettles

\* The cluster stops when the last session of the model is over.
CHECK_DEADLOCK FALSE
