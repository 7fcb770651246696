SPECIFICATION Spec
CONSTANTS
    Relic <- Relics
    Cell <- Cells
    None = None
    Missing = Missing
    Torn = Torn
    MaxDepth = 4
    MaxRuntimes = 2
INVARIANTS
    GameTypeOK
    RelicsExactlyOnce
    SavedWhenReady
    ScreensOpen
    RunBehind
    RunKeepsTerms
