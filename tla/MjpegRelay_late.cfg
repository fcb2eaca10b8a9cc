SPECIFICATION FairSpec
CONSTANTS
    Callers = {c1}
    Viewers = {v1}
    Producer = producer
    None = none
    MaxViewers = 1
    GenBound = 4
PROPERTIES
    StoppedBodiesEnd
CHECK_DEADLOCK FALSE
