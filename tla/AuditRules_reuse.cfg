SPECIFICATION Spec
CONSTANTS
    Dependencies <- MCAll
    Databases <- MCDatabases
    Schema <- MCSchema
    PrimaryKey <- MCPrimaryKey
    ForeignKeys <- MCForeignKeys
    Null <- MCNull
    WalkLength = 3
    MaxTables = 3
    MaxVariables = 3
    FkOnly = TRUE
    Thresholds = {100}
    MinSupport = 0
    Coverages = {"subsumption"}
    MaxRules = 3
INVARIANT
    ReuseKeepsVerdict
CHECK_DEADLOCK FALSE
