\* A platform that may stop answering for ever.
CONSTANTS
    Ids = {i1}
    Rows = {r1}
    NoRow = NoRow
    Other = Other
    Retention = 1
    ChangeLimit = 1
    MaxBatch = 2
    MaxSeq = 2
    MaxEpoch = 2
    StaleWindow = 1
    Timeout = 1
SPECIFICATION FairSpec
PROPERTIES
    Converges
    RevocationTakesEffect
