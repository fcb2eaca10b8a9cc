SPECIFICATION Spec
CONSTANTS
    s1 = s1  s2 = s2  c1 = c1  c2 = c2  p1 = p1
    None = None
    Sources = {s1, s2}
    AdHoc = {s2}
    Clients = {c1, c2}
    Permits = {p1}
    CommandCapacity = 1
    FrameBound = 1
    EventBound = 2
SYMMETRY Symmetric
INVARIANTS PermitAccounting StatusTracksRuntime FramesAreThisRuns GoneIsClean
PROPERTIES SourceStepsInOrder
CHECK_DEADLOCK FALSE
