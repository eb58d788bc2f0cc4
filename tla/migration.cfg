SPECIFICATION Spec

CONSTANTS
    Deploys = {d1, d2, d3}
    MaxFaults = 2

INVARIANTS
    TypeOK
    CodeFindsItsColumns
    VersionIsTrue
    MigrationInv
PROPERTY HalfMigratedBlocks

CHECK_DEADLOCK FALSE
