SPECIFICATION Spec
CONSTANTS
    Packers = {p1}
    Others = {x1}
    Operations = {"confirm", "cancel"}
    None = None
    MaxWaiters = 1
    MaxPlans = 1
    MaxMishaps = 0
INVARIANTS
    CancelIsFinal
CHECK_DEADLOCK FALSE
