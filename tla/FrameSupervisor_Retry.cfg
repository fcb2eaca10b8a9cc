SPECIFICATION Spec
CONSTANTS
    MaxFailures = 6
    Policy = "Retry"
INVARIANTS SleepsOnlyWhenIdle AttemptsAreClean
PROPERTIES EndsCleanly ImplementsSourceEvents
CHECK_DEADLOCK FALSE
