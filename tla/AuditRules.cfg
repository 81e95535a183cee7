SPECIFICATION Spec
CONSTANTS
    Dependencies <- MCAll
    Databases <- MCDatabases
    Schema <- MCSchema
    PrimaryKey <- MCPrimaryKey
    ForeignKeys <- MCForeignKeys
    Null <- MCNull
    WalkLength = 3
    MaxTables = 3
    MaxVariables = 3
    FkOnly = TRUE
    Thresholds = {50, 100}
    MinSupport = 2
    Coverages = {"subsumption", "instance"}
    MaxRules = 3
INVARIANTS
    RecallIsSound
    CategoryMatchesDatabase
    CoverageIsDerived
    TablesAgree
CHECK_DEADLOCK FALSE
