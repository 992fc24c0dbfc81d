SPECIFICATION InputSpec
CONSTANTS
    Database <- MCDatabase
    DenyDuplicateDerivedTableColumnNames = FALSE
    Methods <- PostgresMethods
    SessionKinds = {"begin"}
    Pool <- MCPool
    MaxCalls = 8
INVARIANTS
    BatchTypeOK
    UnfinishedNeverRuns
    PendingCanBeFinished
    NestedUsedOnce
    RowsMatchTheirColumns
    QualifiedNamesBindAsMeant
PROPERTIES
    ImplementsQueue
CHECK_DEADLOCK FALSE
