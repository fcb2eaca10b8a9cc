SPECIFICATION StreamsSpec
CONSTANTS
    Sources = {s1, s2}
    FrameCapacity = 1
    RunBound = 2
    Detectors = {d1, d2, d3}
    Admins = {a1}
    QueueCapacity = 2
    Cooldown = 1
    ClockBound = 1
    PushBound = 3
    Batches = {b1, b2}
    Deferred = {"webhook", "record"}
    ActionQueue = 1
    Concurrency = 2
    Subjects = {r1, r2}
    Triggers = {t1, t2}
    Stoppers = {x1}
    Monitor = monitor
    MaxConcurrent = 1
    Duration = 2
    MaxDuration = 2
    TriggerWindow = 1
    Horizon = 3
INVARIANTS CountersAreExact  CommandsInOrder DeadlineIsBounded
PROPERTIES NewestIsKept CooldownHolds EveryoneIsAnswered NothingLingers
CHECK_DEADLOCK FALSE
