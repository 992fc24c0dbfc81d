SPECIFICATION Spec
CONSTANTS
    Names <- MCNames
    NoName = NoName
    MaxActions = 2
    Shapes <- OnlyBegin
    ImportShapes <- RollbackImportShapes
    RuleShapes <- MCRuleShapes
    MaxStatements = 4
    MaxInstructions = 2
    MaxPerGroup = 2
PROPERTIES
    ImportIsAllOrNothing
CHECK_DEADLOCK FALSE
