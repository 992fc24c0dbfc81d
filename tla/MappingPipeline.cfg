SPECIFICATION PipelineSpec
CONSTANTS
    Names <- MCNames
    NoName = NoName
    MaxActions = 1
    Shapes <- MCShapes
    ImportShapes <- NoShapes
    RuleShapes <- NoShapes
    MaxStatements = 0
    MaxInstructions = 1
    MaxPerGroup = 2
    StagingNames <- MCStagingNames
    BusinessNames <- MCBusinessNames
    ImportRulesets <- MCImportRulesets
    Discoveries <- MCDiscoveries
    RootNodeType <- File
    Build <- BuildDatabase
    MaxCalls = 5
CONSTRAINT ShortUnlessUsual
INVARIANTS
    PipelineTypeOK
    ImportReadsLatestDiscovery
    TargetExistsDuringImport
PROPERTIES
    StagingIsAllOrNothing
    StagingSparesTheUser
    OnlyOlderTransactionsOverwrite
    BusinessDatabaseIsFaithful
    InferredColumnsAreExact
    OnlyUnmappableDocumentsAreRefused
CHECK_DEADLOCK FALSE
