SPECIFICATION Spec
CONSTANTS
    Choice = {1, 2}
    Contracts <- FirstPerk
    Boosts = {}
    ContractOffers = 1
    TickLength = 2
    FrameLengths = {2}
    Slide = 1
    MaxLevelUps = 1
    MaxQueue = 6
INVARIANT PickedAsShown
