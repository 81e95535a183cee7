SPECIFICATION Spec
CONSTANTS
    None = None
    d1 = d1
    Hosts = {h1, c1, c2}
    Coordinators = {c1, c2}
    Databases = {d1}
    Stages <- MCStages
    WalkLengths = {1, 2, 3}
    LateStages = {2}
    Mortal = {h1, c1}
    MaxKills = 1
INVARIANTS JobRunsOnce StageBarrier VerdictOnce CompleteMeansAll
PROPERTIES Completes
CHECK_DEADLOCK FALSE
