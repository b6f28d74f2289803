SPECIFICATION Spec
CONSTANTS
    Sessions = {s1, s2}
    Turns = {t1, t2}
    Runtimes = {r1, r2}
    None = None
    MaxEvents = 3
    MaxFailures = 1
SYMMETRY Symmetry
INVARIANTS
    TypeOK
    LogTellsStatus
PROPERTIES
    ImplementsLifecycle
