SPECIFICATION FairSpec
CONSTANTS
    m1 = m1
    m2 = m2
    m3 = m3
    Msgs <- AllMsgs
    Modes <- AllModes
    MaxDials = 2
    maxInFlightPerConn = 1
    maxConns = 1
    maxAuthFailures = 2
    flushCount = 2
INVARIANTS
    AppliedOnce
    BackendOutlivesHandlers
PROPERTIES
    EveryCallReturns
CHECK_DEADLOCK FALSE
