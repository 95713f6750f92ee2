SPECIFICATION FairSpec
CONSTANTS
    c1 = c1
    c2 = c2
    n1 = n1
    n2 = n2
    m1 = m1
    alice = alice
    Conns <- TwoConns
    Nodes <- TwoNodes
    Starts <- SomeStarts
    User <- Owners
    Topics <- OneRoom
    Messages <- OneMessage
    AllowList = FALSE
    AllowAnon = FALSE
    MaxFrames = 3
    FaultKinds <- AllFaults
    MaxFaults = 1
INVARIANTS
    TotalCounts
    AtMostOnce
PROPERTIES
    TornDown
    KeyFollows
CHECK_DEADLOCK FALSE
