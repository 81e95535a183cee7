\* No timing assumption: slow workers, old pending files, any crash.
CONSTANTS
    Job = {j1}
    Worker = {w1, w2}
    MaxAttempts = 2
    MaxClaims = 3
    None = None
    Mortal = {w1, w2}
    Timely = FALSE
    QueueAges = TRUE
    CrashInRecovery = TRUE
SPECIFICATION Spec
SYMMETRY WorkerSymmetry
INVARIANTS
    NoJobLost
