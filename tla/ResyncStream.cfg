SPECIFICATION Spec
CONSTANTS
    Guest = {g1, g2}
    Host = host
    None = None
    Ended = Ended
    Chunks = 2
    MaxSnapshots = 2
    MaxRequests = 2
    MaxCuts = 1
CHECK_DEADLOCK FALSE
INVARIANTS
    TypeOK
    WholeSnapshots
    PauseHasEnd
PROPERTIES
    CopySpec
