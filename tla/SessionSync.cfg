\* Two sessions, a log that forgets, pages of one change, an epoch rotation.
CONSTANTS
    Ids = {i1, i2}
    Rows = {r1}
    NoRow = NoRow
    Other = Other
    Retention = 2
    ChangeLimit = 1
    MaxBatch = 2
    MaxSeq = 3
    MaxEpoch = 2
    StaleWindow = 1
    Timeout = 1
SPECIFICATION Spec
SYMMETRY SyncSymmetry
INVARIANTS ViewSound
