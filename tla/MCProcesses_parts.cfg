SPECIFICATION ProcessesSpec
CONSTANTS
    q1 = q1  q2 = q2  q3 = q3  q4 = q4
    NoPid = NoPid
    Pids = {q1, q2, q3, q4}
    MaxAttempts = 2
    ScanPids = {1, 2}
    ScanRequests = {r1, r2}
    ScanPollers = {o1}
    Bridges = {b1, b2}
    Boot = boot
    NoScan = 0
    ScanCrashBound = 1
    Batches = {d1, d2}
    Stoppers = {t1}
    NoBatch = nobatch
    ItemsOfBatch = 2
    Savers = {w1, w2, w3}
    BareSavers = {}
    NoSaver = nosaver
    SettingsCrashBound = 1
    TaskSources = {x1}
    TaskClients = {y1, y2}
    TaskPermits = {z1}
    NoTask = notask
    TaskQueue = 2
    TaskBound = 1
    GenJobs = {g1}
    NoGen = nogen
    McpIds = {1, 2}
    McpIps = {i1, i2}
    McpPosts = {1, 2}
    NoIp = noip
    CloseMark = close
    MaxMcpSessions = 2
    MaxPerIp = 1
    QueueDepth = 1
INVARIANTS SidecarIsKnown StoppedIsTold RunsAreShown
PROPERTIES AnswersHold EveryCommandAnswered ProcessesEnd
CHECK_DEADLOCK FALSE
