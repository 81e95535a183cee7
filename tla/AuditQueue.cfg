\* The regime the queue is written for; workers may be killed anywhere.
CONSTANTS
    Job = {j1, j2}
    Worker = {w1, w2, w3}
    MaxAttempts = 2
    MaxClaims = 3
    None = None
    Mortal = {w1, w2, w3}
    Timely = TRUE
    QueueAges = FALSE
    CrashInRecovery = TRUE
SPECIFICATION Spec
SYMMETRY WorkerSymmetry
INVARIANTS
    TypeOK
    OneFile
    OneOwner
    AttemptsBounded
    NeverRaised
PROPERTIES
    ImplementsService
