SPECIFICATION FairPoolSpec

CONSTANTS
    EndpointIds = {e1}
    RequestIds = {r1, r2}
    Tokens = {t1}
    ReservedSlugs = {}
    Delays = {TRUE}
    Cleaners = {k1}
    None = None
    TtlTicks = 1
    MaxTime = 2
    MaxFaults = 1
    BodySizes = {1}
    InlineThreshold = 1
    MaxBodyBytes = 2
    Probes = {p1}
    PoolSize = 2

INVARIANTS
    PoolTypeOK
    PoolInv
    ConnectionsMatchSessions
PROPERTY EveryCallEnds
