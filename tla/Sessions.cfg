SPECIFICATION FairSpec
CONSTANTS
    t1 = t1
    t2 = t2
    t3 = t3
    laptop = laptop
    phone = phone
    p1 = p1
    p2 = p2
    Threads <- AllThreads
    Clients <- AllClients
    ClientOf <- Uses
    Pods <- AllPods
    Modes <- AllModes
    MaxSessions = 5
    MaxSecrets = 2
    AccessTokenTTL = 2
    RefreshSkew = 1
    authCacheTTL = 1
    upstreamCallTimeout = 1
INVARIANTS
    OneLivePerLogin
    NoFalseAlarm
    CredentialsHonoured
    AlarmEndsLogin
PROPERTIES
    EveryOpReturns
CHECK_DEADLOCK FALSE
