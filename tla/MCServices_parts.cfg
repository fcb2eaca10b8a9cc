SPECIFICATION ServicesSpec
CONSTANTS
    Cameras = {c1, c2}
    RuleIds = {u1}
    Handlers = {1, 2, 3}
    Nobody = 0
    MaxSources = 1
    IncBound = 2
    CrashBound = 1
    ClipFileCount = 1
    Searchers = {s1}
    Worker = worker
    Clearer = clearer
    Unlocked = unlocked
    GenerationBound = 2
    ClearBound = 1
    StartBound = 2
    ClipCrashBound = 1
    FileCount = 3
    Peers = {p1, p2}
    BatchSize = 2
    CronJobs = {j1, j2}
    Firings = {1, 2, 3}
    Clients = {k1, k2}
    Addresses = {a1}
    MaxPerAddress = 1
    Ring = 2
    EventTypes = {e1, e2}
    HubEventBound = 3
    Paths = {q1, q2}
    LoopBound = 2
    FlushMax = 1
    ChangeBound = 2
INVARIANTS TablesAreExact RegistryIsTrue IndexIsExact HandedOutOnce ResultIsExact FiringsAreTrue NoSilentGap
PROPERTIES SavedIsDurable NothingHangs 
CHECK_DEADLOCK FALSE
