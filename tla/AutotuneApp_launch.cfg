SPECIFICATION FairAppSpec
CONSTANTS
    Models = {m1}
    Gpus = {g1}
    Versions = {v1}
    NK = 1
    NC = 2
    FamilyName <- OwnNames
    Fp16Families = {}
    Outcomes <- Deterministic
    AutoCopy = {FALSE}
    WritesMayFail = FALSE
    MaxCount = 3
    OsKills = TRUE
    UserCancels = TRUE
INVARIANTS
    PendingCoversGame
PROPERTIES
    TunerSpec
    DeathNoticed
    CrashLoopEnds
