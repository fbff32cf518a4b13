SPECIFICATION FairSpec
CONSTANTS
    Models = {m1}
    Gpus = {g1}
    Versions = {v1, v2}
    NK = 2
    NC = 1
    FamilyName <- OwnNames
    Fp16Families = {2}
    Outcomes <- Flaky
    AutoCopy = {FALSE}
    WritesMayFail = FALSE
INVARIANTS
    MeasuredConfigs
    RunsWhatIsStored
    PartialResultDurable
    LoadingScreenTruthful
PROPERTIES
    RestoreBeforeTuning
    StartSettles
