CONSTANTS
  Host = h
  Guest = {g1, g2}
  PlayerCount = 2
  MaxPeers = 3
  MaxMishaps = 1
  None = None
SPECIFICATION Spec
SYMMETRY GuestSymmetry
INVARIANTS
  TypeOK
  SeatsAgree
  StartReaches
  PauseEnds
PROPERTY
  SeatKept
CHECK_DEADLOCK FALSE
