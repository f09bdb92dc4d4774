SPECIFICATION Spec
CONSTANTS
    Process = {p1, p2}
    Name = {public, v1cat, rt, cat}
    Public = public
    NoProcess = NoProcess
SYMMETRY Symmetry
INVARIANTS
    RowsStandForTables
    MigrationsDoNotCollide
    MigrationsSpareV1
PROPERTIES
    IsSchemaLedger
