SPECIFICATION InputSpec
CONSTANTS
    Database <- MCDatabase
    DenyDuplicateDerivedTableColumnNames = FALSE
    Methods = {"as", "select", "from", "innerJoin", "on", "where"}
    SessionKinds = {}
    Pool <- MCPool
    MaxCalls = 6
INVARIANT NamesBindToTheirColumn
CHECK_DEADLOCK FALSE
