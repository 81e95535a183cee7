SPECIFICATION Spec
CONSTANTS
    Shards <- MCShards
    MaxWorkers = 2
    Scopes = {"wide", "narrow"}
    Targets <- MCTargets
    MaxRuns = 2
    MaxChanges = 1
    MaxStops = 1
    MaxKills = 1
INVARIANTS
    ReportCoversSuccesses
    OnlyTornOrResumedMislead
    PoolIsContained
PROPERTIES
    CommandEnds
CHECK_DEADLOCK FALSE
