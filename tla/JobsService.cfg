SPECIFICATION ServiceSpec
CONSTANTS
    j1 = j1
    w1 = w1
    w2 = w2
    NoJob = NoJob
    Jobs <- OneJob
    Workers <- TwoWorkers
    Origins <- AllOrigins
    Fanout = 2
    MaxAttempts = 2
    MaxGen = 4
    MaxRequeues = 1
    FaultKinds <- AllFaults
    MaxFaults = 2
    r1 = r1
    r2 = r2
    r3 = r3
    Requests <- ThreeRequests
    Owner <- TwoOwners
    MaxKeyFaults = 3
    Sides <- BothSides
INVARIANTS
    SoleOwner
    AlwaysSweepable
    SameKeySameJob
    PublishedOnce
PROPERTIES
    ZombiesWriteNothing
    FinalIsFinal
    NotStranded
    Recovers
CHECK_DEADLOCK FALSE
