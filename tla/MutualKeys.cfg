SPECIFICATION Spec
CONSTANTS
    Tables <- MCTables
    Columns <- MCColumns
    Values <- MCValues
    Null = Null
    Schemas <- MutualKeysSchemas
    MaxBatch = 2
PROPERTIES
    ReferentialWorkTerminates
CHECK_DEADLOCK FALSE
