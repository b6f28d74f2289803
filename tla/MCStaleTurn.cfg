SPECIFICATION Spec
CONSTANTS
    Sessions = {s1}
    Turns = {t1}
    Readers = {r1}
    None = None
    MaxLive = 1
INVARIANTS
    StaleMeansCutOff
CHECK_DEADLOCK FALSE
