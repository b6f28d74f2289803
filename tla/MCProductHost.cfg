SPECIFICATION FairHostSpec
CONSTANTS
    Sessions = {s1, s2}
    Turns = {t1, t2}
    Runtimes = {h1, h2}
    None = None
    MaxEvents = 5
    MaxFailures = 2
INVARIANTS
    OneWorkerPerSession
    OneFailureNeverStrands
    CancelReachesWorker
PROPERTIES
    SettledByItsWorker
    TurnsSettle
