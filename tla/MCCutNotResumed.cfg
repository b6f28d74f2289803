SPECIFICATION Spec
CONSTANTS
    Packers = {p1, p2}
    Others = {x1}
    Operations = {"confirm", "resume", "cancel"}
    None = None
    MaxWaiters = 1
    MaxPlans = 1
    MaxMishaps = 1
INVARIANTS
    CutNotResumed
CHECK_DEADLOCK FALSE
