SPECIFICATION Spec
CONSTANTS
    Tasks = {root, c1, c2}
    Root = root
    Slots = {i1, i2, i3}
    TotalTokens = 6
    TaskTokens = 4
    MaxModelCalls = 4
    MaxTasks = 3
    MaxDepth = 1
    Estimates = {0, 2, 3}
    Usages = {1, 4}
    CallCounts = {0, 1, 2}
    MaxSettlements = 4
SYMMETRY Symmetry
INVARIANTS
    TypeOK
PROPERTIES
    LimitsHold
    DispatchIsCharged
CHECK_DEADLOCK FALSE
