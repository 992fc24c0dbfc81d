SPECIFICATION Spec
CONSTANTS
    Tables <- MCTables
    ColumnNames <- MCColumnNames
    ConstraintNames <- MCConstraintNames
    Statements <- MCStatements
    AllowNullableForeignKeys = TRUE
    MaxIds = 3
INVARIANTS
    TypeOK
    OwnReferencesResolve
    ForeignKeysResolve
    ConstraintNamesAreUnique
    UniqueIndexesAreDistinct
    PositionsAreCurrent
CHECK_DEADLOCK FALSE
