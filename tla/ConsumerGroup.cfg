SPECIFICATION FairSpec
CONSTANTS
    Members <- TwoMembers
    NumPartitions = 2
    LogEnd = 1
    FaultKinds <- AllFaults
    MaxFaults = 1
INVARIANTS
    SoleConsumer
    NothingSkipped
PROPERTY
    EverythingHandled
CHECK_DEADLOCK FALSE
