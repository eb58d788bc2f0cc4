SPECIFICATION FairSpec

CONSTANTS
    EndpointIds = {e1}
    RequestIds = {r1}
    Streams = {s1, s2}
    Conns = {c1, c2, c3}
    Lifespan = Lifespan
    None = None
    MaxFaults = 1

PROPERTIES
    RunningReaderDelivers
    StartEnds

CHECK_DEADLOCK FALSE
