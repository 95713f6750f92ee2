SPECIFICATION Spec
CONSTANTS
    Keys <- OneKey
    NoKey = "none"
    MaxOffset = 4
    MaxBatch = 2
    SegmentRecords = 1
    Policies <- Topics
    FaultKinds <- Crashes
    MaxFaults = 1
INVARIANTS
    ReadsEverything
    SurvivesCrash
PROPERTIES
    KeepsLog
    GroupKeepsPlace
CHECK_DEADLOCK FALSE
