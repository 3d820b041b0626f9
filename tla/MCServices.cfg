CONSTANTS
    WatchKeys = {k1, wg}
    GlobalKeys = {wg}
    WatchHandles = {x1, x2}
    WatchCallers = {y1, y2}
    NoHandle = none
    MaxVersion = 3
    MaxLaunches = 2
    Proxies = {x1, x2}
    ProxyCallers = {y1, y2}
    ApiRequests = {y1, y2}
    NoProxy = none
    LogQueue = 1
    BodyLimit = 2
    MaxBody = 3
    MaxProxyCalls = 2
    ManifestRuns = {r1}
    Persisters = {x1, x2}
    Inodes = {1, 2, 3, 4}
    NoInode = 0
    MaxChanges = 4
    MaxBoots = 1
    Clients = {y1, y2}
    TailTasks = {x1, x2}
    NoTail = none
    BusCapacity = 2
    MaxHalves = 4
    MaxTruncations = 1
    MaxOtherEvents = 1
SPECIFICATION ServicesSpec
SYMMETRY Interchangeable
INVARIANTS
    NoStrayWatcher
    
    NoStrayProxy
    EventsAccountedFor
    TornOnlyByOverlap
    
    TailIsShared
    LiveLogIsGapless
CHECK_DEADLOCK FALSE
