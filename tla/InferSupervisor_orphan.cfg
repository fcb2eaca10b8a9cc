SPECIFICATION Spec
CONSTANTS
    q1 = q1  q2 = q2  q3 = q3  q4 = q4
    NoPid = NoPid
    Pids = {q1, q2, q3, q4}
    MaxAttempts = 5
INVARIANTS NoOrphan
CHECK_DEADLOCK FALSE
