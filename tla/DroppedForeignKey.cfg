SPECIFICATION Spec
CONSTANTS
    Tables <- MCTables
    ColumnNames <- MCColumnNames
    ConstraintNames <- MCConstraintNames
    Statements <- DropForeignKeyStatements
    AllowNullableForeignKeys = TRUE
    MaxIds = 3
INVARIANTS
    BoundIdsResolve
CHECK_DEADLOCK FALSE
