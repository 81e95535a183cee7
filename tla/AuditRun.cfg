\* Three hosts, one of which survives; the others may be killed outside recovery.
CONSTANTS
    Job = {j1}
    Worker = {h1, h2, h3}
    MaxAttempts = 3
    MaxClaims = 3
    None = None
    Mortal = {h2, h3}
    Timely = TRUE
    QueueAges = FALSE
    CrashInRecovery = FALSE
SPECIFICATION RunFairSpec
INVARIANTS
    
    MarkerMeansReports
PROPERTIES
    RunMakesProgress
