SPECIFICATION FairSpec
CONSTANTS
    None = None
    Kinds = {"run", "benchmark", "batch"}
    MaxCalls = 2
INVARIANTS
    SuccessIsBacked
PROPERTIES
    ResultIsLast
    EverythingEnds
CHECK_DEADLOCK FALSE
