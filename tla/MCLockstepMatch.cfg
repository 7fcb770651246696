CONSTANTS
  PlayerCount = 2
  InputDelay = 1
  MaxResend = 3
  MaxHistory = 3
  InputOf <- TaggedInput
  Neutral = Neutral
  None = None
  MaxTick = 2
  MaxInFlight = 2
  MaxCommands = 1
SPECIFICATION Spec
INVARIANTS
  TypeOK
  InputsAuthentic
  MissingInputRepairable
  CaptureWindow
  PauseAgreement
  CommandsOnce
PROPERTY
  LogSpec
CHECK_DEADLOCK FALSE
