SPECIFICATION Spec

CONSTANTS
    RowIds = {1, 2, 3, 4}
    MaxStamp = 1
    None = None
    Limits = {1}
    ExportMax = 2

INVARIANT ExportCountExact

CHECK_DEADLOCK FALSE
