\* Retries, conflicts and expiry: the clock moves, replies differ, keys repeat.
CONSTANTS
    k1 = k1  k2 = k2  k3 = k3  k4 = k4  k5 = k5  k6 = k6
    s1 = s1  s2 = s2  s3 = s3  p1 = p1  p2 = p2
    None = None
    Sessions = {s1, s2, s3}
    Principals = {p1, p2}
    PrincipalOf <- MCPrincipalOf
    Keys = {k1, k2, k3}
    SessionOf <- WindowSessionOf
    Handlers = {h1, h2}
    Hashes = {q1, q2}
    Bodies = {b1, b2}
    TTL = 1
    MaxEntries = 2
    MaxInflight = 2
    MaxScopeEntries = 2
    MaxScopeInflight = 2
    MaxPrincipalEntries = 2
    MaxPrincipalInflight = 0
    MaxScopeTombstones = 2
    MaxTime = 2
    MaxSeq = 3
SPECIFICATION Spec
SYMMETRY WindowSymmetry
INVARIANTS
    TypeOK
    OwnersAndReservations
    TombstonesKept
    ReplayIsLatest
PROPERTIES
    NoReExecution
CHECK_DEADLOCK FALSE
