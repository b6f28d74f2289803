SPECIFICATION Spec
CONSTANTS
    Sessions = {s1}
    Experts = {e1}
    AgentRuns = {a1}
    ExpertTurns = {}
    DefaultTurns = {d1}
    None = None
    MaxSteps = 1
INVARIANTS
    WorkIsLocked
CHECK_DEADLOCK FALSE
