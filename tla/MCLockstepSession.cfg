SPECIFICATION Spec
CONSTANTS
    Client = {c1, c2}
    Host = host
    None = None
    PlayerCounts = {2, 3}
    LinkPatience = 2
    LoadPatience = 4
    PausePatience = 5
    LoadTime = 2
    MaxHurt = 1
    Flaps = FALSE
INVARIANTS
    TypeOK
    HealthyStay
    MatchIsWhole
SYMMETRY ClientSymmetry
