SPECIFICATION Spec
CONSTANTS
    Tables <- MCTables
    Columns <- MCColumns
    Values <- MCValues
    Null = Null
    Schemas <- SoundSchemas
    MaxBatch = 2
INVARIANTS
    TypeOK
    CommittedConstraintsHold
    WorkingTablesConsistent
    DeleteTakesExactlyTheClosure
    ChangesFollowReferences
    ReferencesKeepTheirMeaning
    NothingDanglesUnasked
CHECK_DEADLOCK FALSE
PROPERTIES
    ReferentialWorkTerminates
    ImplementsStore
