SPECIFICATION Spec
CONSTANTS
    p1 = p1
    p2 = p2
    Ranking <- MCRanking
    Preferences <- MCPreferences
    FailureLimit = 2
    MaxRequests = 3
    MaxErrors = 1
    MaxMove = 6
INVARIANTS
    BlameIsEarned
PROPERTIES
    SpinnerEnds
CHECK_DEADLOCK FALSE
