SPECIFICATION Spec
CONSTANTS
    Tables <- MCTables
    ColumnNames <- MCColumnNames
    ConstraintNames <- MCConstraintNames
    Statements <- UniqueParentStatements
    AllowNullableForeignKeys = TRUE
    MaxIds = 3
INVARIANTS
    ForeignKeysResolve
CHECK_DEADLOCK FALSE
