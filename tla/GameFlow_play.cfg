SPECIFICATION FairSpec
CONSTANTS
    a = a
    b = b
    Points = {a, b}
    Forbidden = {b}
    Saves <- MCSaves
    MaxGames = 2
    MaxHandlers = 1
    MaxMoves = 2
    MaxFailures = 1
INVARIANTS
    InSync
    AskedInItsTurn
PROPERTIES
    GameSpec
    TurnComesBack
    LoadingEnds
CHECK_DEADLOCK FALSE
