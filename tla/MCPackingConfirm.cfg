SPECIFICATION FairSpec
CONSTANTS
    Packers = {p1, p2}
    Others = {x1}
    Operations = {"confirm", "resume", "checkpoint", "revise", "cancel", "edit"}
    None = None
    MaxWaiters = 1
    MaxPlans = 2
    MaxMishaps = 1
INVARIANTS
    OnePacker
    PackedOnce
    CancelWins
    QuietAgree
    NotStuck
PROPERTIES
    InterruptedStays
    LockComesFree
CHECK_DEADLOCK FALSE
