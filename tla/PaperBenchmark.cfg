SPECIFICATION FairSpec
CONSTANTS
    None = None
    h1 = h1
    h2 = h2
    d1 = d1
    d2 = d2
    d3 = d3
    HostList <- MCHosts
    DatabaseList <- MCDatabases
    AlgorithmList <- MCAlgorithms
    EarlierAlgorithms = {"AMIE3", "SPIDER"}
    Workers <- MCWorkers
    Statuses = {"success", "error"}
    Launches <- MCLaunches
    MaxFaults = 2
    Faulty = {h1}
INVARIANTS
    CompletedMeansAll
    MailTellsOutcome
PROPERTIES
    SummaryKeeps
    ControllersEnd
CHECK_DEADLOCK FALSE
