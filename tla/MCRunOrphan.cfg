SPECIFICATION Spec
CONSTANTS
    db = db
    api = api
    Services = {api}
    Rank <- MCRank
    HealthChecked = {api}
    Handles = {h1, h2}
    FailureThreshold = 1
    RestartLimit = 1
    MaxTasks = 1
    MaxRestarts = 1
    Commands = {"up", "down"}
    MaxCommands = 3
    Serial = FALSE
    NoRun = NoRun
    NoRecord = NoRecord
    NoHandle = NoHandle
CHECK_DEADLOCK FALSE
INVARIANTS
    NoOrphanProcess
