SPECIFICATION ConsumerFairSpec
CONSTANTS
    Callers = {c1}
    Viewers = {v1, v2}
    Producer = producer
    None = none
    MaxViewers = 1
    GenBound = 3
INVARIANTS PictureIsThisRuns ViewersCounted
PROPERTIES PendingIsTaken
CHECK_DEADLOCK FALSE
