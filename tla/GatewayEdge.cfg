SPECIFICATION Spec
CONSTANTS
    r1 = r1
    r2 = r2
    g1 = g1
    g2 = g2
    Requests = {r1, r2}
    Replicas = {g1, g2}
    Modes <- MCModes
    breakerThreshold = 2
    breakerOpenFor = 3
    upstreamMaxRetries = 2
    upstreamCallTimeout = 2
    probeTimeout = 1
    apiTimeout = 3
    burst = 1
    bucketIdleTTL = 2
    rateLimitRedisCooldown = 2
    BufferSize = 1
    BatchSize = 2
    PageSize = 1
INVARIANTS
    OneProbe
    UpstreamSpared
    AuditTrail
PROPERTIES
    GatewayStops
CHECK_DEADLOCK FALSE
