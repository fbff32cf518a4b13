SPECIFICATION KataSpec
CONSTANTS
    XSize = 3
    YSize = 2
    MaxRecords = 2
    MaxPrisoners = 0
INVARIANTS
    ChainsConsistent
    KataLegalByTheRules
    LookaheadExact
    PassAliveStays
PROPERTIES
    KataGameSpec
