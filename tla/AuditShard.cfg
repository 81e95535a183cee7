\* Owners are killed, interrupted, restarted, resumed or not, and overtaken.
CONSTANTS
    Job = {j1}
    Worker = {w1, w2}
    MaxAttempts = 3
    None = None
    Shards = 2
    Rules = 2
    ResumeModes = {TRUE, FALSE}
    Mortal = {w1, w2}
    Revocable = TRUE
    MaxStray = 2
SPECIFICATION ShardSpec
SYMMETRY WorkerSymmetry
INVARIANTS
    RowsComplete
    CheckpointCovered
PROPERTY CompletedForGood
