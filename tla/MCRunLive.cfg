SPECIFICATION FairSpec
CONSTANTS
    db = db
    api = api
    Services = {api}
    Rank <- MCRank
    HealthChecked = {api}
    Handles = {h1, h2}
    FailureThreshold = 2
    RestartLimit = 2
    MaxTasks = 1
    MaxRestarts = 1
    Commands = {"up", "down", "restart"}
    MaxCommands = 2
    Serial = FALSE
    NoRun = NoRun
    NoRecord = NoRecord
    NoHandle = NoHandle
CHECK_DEADLOCK FALSE
PROPERTIES
    StoppedMonitorEnds
