SPECIFICATION ServiceSpec
CONSTANTS
    j1 = j1
    w1 = w1
    w2 = w2
    NoJob = NoJob
    Jobs <- OneJob
    Workers <- OneWorker
    Origins <- NowOnly
    Fanout = 2
    MaxAttempts = 1
    MaxGen = 2
    MaxRequeues = 0
    FaultKinds <- CrashOnly
    MaxFaults = 2
    r1 = r1
    r2 = r2
    r3 = r3
    Requests <- ThreeRequests
    Owner <- TwoOwners
    MaxKeyFaults = 3
    Sides <- LifeOnly
INVARIANT
    NeverStranded
CHECK_DEADLOCK FALSE
