SPECIFICATION Spec

CONSTANTS
    EndpointIds = {e1, e2}
    RequestIds = {r1, r2}
    Streams = {s1, s2}
    Conns = {c1, c2, c3}
    Lifespan = Lifespan
    None = None
    MaxFaults = 2

SYMMETRY Symmetry

INVARIANTS
    TypeOK
    LiveInv
    DeliveryInv
    StreamMatchesFeed
    PageMissesOnlyGap
    NoConnectionLeak
    QueuesMatchStreams

CHECK_DEADLOCK FALSE
