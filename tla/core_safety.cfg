SPECIFICATION Spec

CONSTANTS
    EndpointIds = {e1, e2}
    RequestIds = {r1, r2}
    Tokens = {t1, t2}
    ReservedSlugs = {}
    Delays = {TRUE, FALSE}
    Cleaners = {k1}
    None = None
    TtlTicks = 1
    MaxTime = 2
    MaxFaults = 1
    BodySizes = {2}
    InlineThreshold = 1
    MaxBodyBytes = 2

SYMMETRY Symmetry

INVARIANTS
    TypeOK
    IInv
    TokenUnique
    CountMatchesRows
    RowsHaveEndpoint
    BlobBeforeRow
    NotifyMatchesCommit
PROPERTIES
    DeletionSparesCaptures
    ImplementsInbox
