SPECIFICATION Spec

CONSTANTS
    EndpointIds = {e1}
    RequestIds = {r1}
    Tokens = {t1}
    ReservedSlugs = {}
    Delays = {TRUE, FALSE}
    Cleaners = {k1}
    None = None
    TtlTicks = 1
    MaxTime = 2
    MaxFaults = 1
    BodySizes = {1}
    InlineThreshold = 1
    MaxBodyBytes = 2

INVARIANT AckedNeverLost
