SPECIFICATION Spec
CONSTANTS
    XSize = 3
    YSize = 3
    Tried = {0, 1, 3, 4, 6}
    MaxMoves = 7
INVARIANTS
    LegalByTheRules
PROPERTIES
    GameSpec
