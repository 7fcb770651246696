CONSTANTS
  PlayerCount = 2
  InputDelay = 1
  MaxRollback = 1
  MaxResend = 3
  MaxHistory = 3
  SnapshotEvery = 2
  KeepSnapshots = 4
  InputOf <- Alternating
  Neutral = Neutral
  None = None
  MaxTick = 4
  MaxInFlight = 2
  MaxRequests = 2
SPECIFICATION Spec
INVARIANTS
  TypeOK
  KnownAuthentic
  QueueContiguous
  CorrectionApplied
  PausedIsAnswered
CHECK_DEADLOCK FALSE
