CONSTANTS
    t1 = t1
    TaskNames = {t1}
    Requests = {e1, e2}
    PhaseWorker = pw
    TaskScopes = {r1}
    PhaseTasks <- MCPhaseTasks
    WatchedTasks = {t1}
    MaxEdits = 1
    MaxExecutions = 2
    NoTask = none
    Agents = {a1}
    Messages = {m1, m2}
    NoAgent = none
    MaxDaemonRestarts = 1
SPECIFICATION WorkersSpec
INVARIANTS
    DuplicateOnlyByRace
    UpToDateMeansBuilt
    LastVerdictShown
PROPERTIES
    StartedTaskEnds
    DeliversAsMailbox
    ProxyReturns
CHECK_DEADLOCK FALSE
