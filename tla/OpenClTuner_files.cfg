SPECIFICATION Spec
CONSTANTS
    Models = {m1, m2}
    Gpus = {g1}
    Versions = {v1}
    NK = 1
    NC = 1
    FamilyName <- OwnNames
    Fp16Families = {}
    Outcomes <- Flaky
    AutoCopy = {TRUE, FALSE}
    WritesMayFail = TRUE
INVARIANTS
    MeasuredConfigs
PROPERTIES
    UsableFileKept
    FailedNeverRetried
