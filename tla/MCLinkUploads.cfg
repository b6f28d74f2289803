SPECIFICATION Spec
CONSTANTS
    Requests = {r1, r2, r3}
    s1 = s1
    k1 = k1
    Sessions = {s1}
    Keys = {k1}
    Offers <- Sent
    None = None
    Slots = 2
    KeepPerSession = 1
    KeepTotal = 1
    MaxMishaps = 1
SYMMETRY Interchangeable
INVARIANTS
    TypeOK
    PreviousIsLatest
    RunsOnce
    NothingLeaks
CHECK_DEADLOCK FALSE
