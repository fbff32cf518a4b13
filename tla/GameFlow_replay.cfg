SPECIFICATION Spec
CONSTANTS
    a = a
    b = b
    Points = {a, b}
    Forbidden = {b}
    Saves <- MCSaves
    MaxGames = 2
    MaxHandlers = 1
    MaxMoves = 2
    MaxFailures = 1
PROPERTIES
    ClosedWhileReplaying
CHECK_DEADLOCK FALSE
