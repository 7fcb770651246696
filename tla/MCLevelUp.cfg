SPECIFICATION Spec
CONSTANTS
    Choice = {1}
    Contracts <- SecondPerk
    Boosts = {}
    ContractOffers = 1
    TickLength = 2
    FrameLengths = {1, 4}
    Slide = 1
    MaxLevelUps = 2
    MaxQueue = 6
INVARIANTS
    TypeOK
    ReplayAgrees
    PicksInPairs
