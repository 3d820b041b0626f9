SPECIFICATION Spec
CONSTANTS
    db = db
    api = api
    Services = {api}
    Rank <- MCRank
    HealthChecked = {api}
    Handles = {h1, h2}
    FailureThreshold = 1
    RestartLimit = 1
    MaxTasks = 2
    MaxRestarts = 1
    Commands = {"up", "refresh", "down", "gc", "restart", "status"}
    MaxCommands = 3
    Serial = FALSE
    NoRun = NoRun
    NoRecord = NoRecord
    NoHandle = NoHandle
CHECK_DEADLOCK FALSE
SYMMETRY HandleSymmetry
INVARIANTS
    NoStrayMonitor
    RecordedHandleIsWatched
PROPERTIES
    RevivedOnlyByStatus
