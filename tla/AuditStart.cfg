\* Hosts are killed at any step and started again, with --resume or without, at any time.
CONSTANTS
    Job = {j1}
    Worker = {h1, h2}
    MaxAttempts = 2
    MaxClaims = 3
    None = None
    Mortal = {h1, h2}
    Timely = TRUE
    QueueAges = FALSE
    CrashInRecovery = TRUE
    Resumes = {TRUE, FALSE}
    MaxLaunches = 2
SPECIFICATION StartSpec
SYMMETRY HostSymmetry
INVARIANTS
    ReadyMeansComplete
    StartsKeepOneFile
