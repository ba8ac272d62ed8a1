SPECIFICATION MCSpec
CONSTANTS
  None = None
  Unset = Unset
  NoValue = NoValue
  Vector = {v, w}
  RateLimit = 2
  Tempo = 3
  RejectPause = 1
  Horizon = 3
  Id = {1, 2, 3}
  Videos = 4
  Size = 2
  Budget = 2
  Chunks = 3
  Connections = 2
  MaxWindow = 2
  MaxTime = 7
  Clips = 4
  PerVideo = 2
  Gate = 2
  MaxAttempts = 3
  Planned = 10
  Levels = 2
  Scale = 65535
  Policy = {a, b, c}
  Legacy = Legacy
  ZeroBurn = 1
  LastWindow = 4
  MaxSteps = 2
  Thread = {t, u}
  Value = {x, y}
  Torn = Torn
CHECK_DEADLOCK FALSE
INVARIANTS
  SingleSignature
  CheckpointLanded
  OneBatchServed
  QuotaPerAdmission
  PartIsPrefix
  OneDownloader
  GateAtPrefix
  FutilityHonest
  ReplayAgrees
PROPERTIES
  RateLimitKept
  WeightsFollowDecision
  NoSecondAnswer
  AttemptEnds
  RecordKept
