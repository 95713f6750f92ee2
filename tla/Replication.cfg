SPECIFICATION Spec
CONSTANTS
    n1 = n1
    n2 = n2
    n3 = n3
    Clusters <- MCClusters
    Hash = 4
    MaxRecords = 2
    ReplicaLagMax = 1
INVARIANTS
    LogMatching
    CommittedWasSent
PROPERTIES
    CommittedOnlyGrows
    CatchesUp
CHECK_DEADLOCK FALSE
