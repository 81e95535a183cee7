SPECIFICATION Spec
CONSTANTS
    None = None
    s1 = s1
    s2 = s2
    Sessions = {s1, s2}
    Databases <- MCDatabases
    RawSettings <- MCRaw
    OverlapThreshold = 1
    QueryCacheLimit = 12
    AnalysisCacheLimit = 2
    Overlap = FALSE
    MaxSqlErrors = 1
INVARIANTS SearchIsExhaustive SupportIsExact RulesAreDistinct GlobalsRestored
PROPERTIES SearchEnds
