SPECIFICATION FairSpec
CONSTANTS
    Sessions = {s1, s2}
    Experts = {e1}
    AgentRuns = {a1, a2}
    ExpertTurns = {x1}
    DefaultTurns = {d1}
    None = None
    MaxSteps = 1
INVARIANTS
    TypeOK
    SerialWhenGuarded
    OneRunPerExpert
    NoHoldLeaks
    HeldSessionIsLocked
PROPERTIES
    LocksComeFree
CONSTRAINTS
    InOrder
    FewRuns
    OneStopped
CHECK_DEADLOCK FALSE
