SPECIFICATION FairSpec

CONSTANTS
    EndpointIds = {e1}
    RequestIds = {r1}
    Streams = {s1}
    Conns = {c1, c2}
    Lifespan = Lifespan
    None = None
    MaxFaults = 1

PROPERTY RegisteredSeesAll

CHECK_DEADLOCK FALSE
