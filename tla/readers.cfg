SPECIFICATION FairSpec

CONSTANTS
    RowIds = {1, 2, 3, 4}
    MaxStamp = 1
    None = None
    Limits = {0, 1, 2}
    ExportMax = 2

INVARIANTS
    TypeOK
    ReadersInv
    WalkDescends
    WalkComplete
    ExportNotShort
    ExportWithinCap
    ExportMissesOldestOnly
PROPERTY WalkEnds

CHECK_DEADLOCK FALSE
