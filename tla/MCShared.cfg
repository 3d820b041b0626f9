CONSTANTS
    GlobalNames = {1, 2}
    FixedGlobals = {2}
    FixedPort <- MCFixedPort
    GlobalPorts = {2, 3}
    Ups = {u1, u2}
    BootCall = boot
    NoPort = 0
    NoName = none
    MaxUps = 2
    MaxGlobalFaults = 2
    SourceNames = {1, 2}
    SourceJobs = {j1}
    BootJob = startup
    Expired <- MCExpired
    NoSource = none
    MaxGen = 2
    MaxSourceJobs = 2
    MaxSourceCrashes = 1
    Viewers = {v1, v2}
    Follower = follower
    Monitor = monitor
    ReaderGroups <- MCReaderGroups
    NoReader = none
    NoSeq = none
    MaxLines = 3
    MaxTs = 2
    InitialTail = 2
    PageLimit = 1
    RateLimit = 2
    MaxTime = 2
    ServiceNames = {1, 2, 3}
    MaxDeps = 2
    MaxTargets = 2
SPECIFICATION SharedSpec
INVARIANTS
    SharedPortIsServed
    
    
    FollowIsGapless
    LaterErrorsAreAnnounced
    FacetsAreFresh
    PlanMatchesReference
    FilteredPlanIsLeast
CHECK_DEADLOCK FALSE
