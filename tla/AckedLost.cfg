SPECIFICATION Spec
CONSTANTS
    n1 = n1
    n2 = n2
    n3 = n3
    Clusters <- PowerClusters
    Hash = 4
    MaxRecords = 2
    ReplicaLagMax = 1
INVARIANT AckedSurvives
CHECK_DEADLOCK FALSE
