SPECIFICATION Spec
CONSTANTS
    db = db
    api = api
    Services = {db, api}
    Rank <- MCRank
    HealthChecked = {db}
    Handles = {h1}
    FailureThreshold = 1
    RestartLimit = 1
    MaxTasks = 1
    MaxRestarts = 1
    Commands = {"up", "refresh", "down", "gc", "restart"}
    MaxCommands = 4
    Serial = TRUE
    NoRun = NoRun
    NoRecord = NoRecord
    NoHandle = NoHandle
CHECK_DEADLOCK FALSE
INVARIANTS
    RunStateFollowsServices
    
