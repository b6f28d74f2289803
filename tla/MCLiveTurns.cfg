SPECIFICATION FairSpec
CONSTANTS
    Sessions = {s1, s2}
    Turns = {t1, t2}
    Readers = {r1}
    None = None
    MaxLive = 1
CONSTRAINT InOrder
INVARIANTS
    TypeOK
    OwnLogOnly
    AcceptedCancelHolds
    OneOutcome
    PersistedBeforeReuse
PROPERTIES
    UnattendedTurnsEnd
CHECK_DEADLOCK FALSE
