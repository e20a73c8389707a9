\* Two identities, two servers, an agent and a human: every mutation can meet
\* every fence, bulk transactions span both identities, and the log is longer
\* than its retention.
CONSTANTS
    Ids = {i1, i2}
    Servers = {s1, s2}
    Agents = {a1}
    Humans = {u1}
    None = None
    NoRow = NoRow
    Watched = s1
    Retention = 1
    MaxSeq = 3
    MaxEpoch = 2
SPECIFICATION StoreSpec
SYMMETRY IdSymmetry
INVARIANTS SessionsFenced
PROPERTIES ImplementsLog
CHECK_DEADLOCK FALSE
