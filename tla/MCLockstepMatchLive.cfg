CONSTANTS
  PlayerCount = 2
  InputDelay = 1
  MaxResend = 3
  MaxHistory = 3
  InputOf <- TaggedInput
  Neutral = Neutral
  None = None
  MaxTick = 2
  MaxInFlight = 1
  MaxCommands = 0
SPECIFICATION FairSpec
PROPERTY EveryTickPlayed
CHECK_DEADLOCK FALSE
