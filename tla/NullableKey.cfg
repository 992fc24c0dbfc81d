SPECIFICATION Spec
CONSTANTS
    Tables <- MCTables
    Columns <- MCColumns
    Values <- MCValues
    Null = Null
    Schemas <- NullableKeySchemas
    MaxBatch = 2
INVARIANTS
    ChangesFollowReferences
CHECK_DEADLOCK FALSE
