SPECIFICATION Spec
CONSTANTS
    Names <- MCNames
    NoName = NoName
    MaxActions = 2
    Shapes <- MCShapes
    ImportShapes <- MCImportShapes
    RuleShapes <- MCRuleShapes
    MaxStatements = 4
    MaxInstructions = 2
    MaxPerGroup = 2
INVARIANTS
    TypeOK
    ReportAccountsForEveryInstruction
    RulesAreIndependent
    HistoryExplainsCommitted
    NoStatementRunsTwice
PROPERTIES
    AutoCommitIsAtomic
    ImportIsAllOrNothing
    ValidationLeavesNoTrace
    NoCommittedActionIsLost
CHECK_DEADLOCK FALSE
