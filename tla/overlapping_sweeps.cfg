SPECIFICATION Spec

CONSTANTS
    EndpointIds = {e1, e2}
    RequestIds = {r1}
    Tokens = {t1, t2, admin}
    ReservedSlugs = {admin}
    Delays = {TRUE, FALSE}
    Cleaners = {k1, k2}
    None = None
    TtlTicks = 1
    MaxTime = 2
    MaxFaults = 1
    BodySizes = {1, 3}
    InlineThreshold = 1
    MaxBodyBytes = 2

SYMMETRY Symmetry

INVARIANT IInv
