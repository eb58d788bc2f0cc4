SPECIFICATION FairSpec

CONSTANTS
    EndpointIds = {e1, e2}
    RequestIds = {r1}
    Tokens = {t1, t2}
    ReservedSlugs = {}
    Delays = {TRUE}
    Cleaners = {k1}
    None = None
    TtlTicks = 1
    MaxTime = 2
    MaxFaults = 1
    BodySizes = {1}
    InlineThreshold = 1
    MaxBodyBytes = 2

PROPERTIES
    EveryCreationSettles
    ExpiredDeletedUnlessBlocked
