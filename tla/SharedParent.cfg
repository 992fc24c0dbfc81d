SPECIFICATION Spec
CONSTANTS
    Tables <- MCTables
    Columns <- MCColumns
    Values <- MCValues
    Null = Null
    Schemas <- SharedParentSchemas
    MaxBatch = 2
INVARIANTS
    NothingDanglesUnasked
CHECK_DEADLOCK FALSE
