SPECIFICATION Spec
CONSTANTS
    Requests = {r1, r2, r3}
    Documents = {d1, d2}
    None = None
    Undoing = Undoing
    MaxHistory = 2
    MaxComputing = 2
    MaxRevision = 5
    MaxRestarts = 1
SYMMETRY Symmetry
INVARIANTS
    RecordReadable
    OneWinner
    ChangedWhatItSaw
    AnswerTrue
    PackedAsEndorsed
PROPERTIES
    IsUndoable
CHECK_DEADLOCK FALSE
