\* Quotas: more keys than any quota admits.  The limits are ordered as the
\* defaults are: scope <= principal <= global, tombstones below scope entries.
CONSTANTS
    k1 = k1  k2 = k2  k3 = k3  k4 = k4  k5 = k5  k6 = k6
    s1 = s1  s2 = s2  s3 = s3  p1 = p1  p2 = p2
    None = None
    Sessions = {s1, s2, s3}
    Principals = {p1, p2}
    PrincipalOf <- MCPrincipalOf
    Keys = {k1, k2, k3, k4, k5, k6}
    SessionOf <- QuotaSessionOf
    Handlers = {h1, h2}
    Hashes = {q1}
    Bodies = {b1}
    TTL = 1
    MaxEntries = 3
    MaxInflight = 2
    MaxScopeEntries = 2
    MaxScopeInflight = 2
    MaxPrincipalEntries = 3
    MaxPrincipalInflight = 2
    MaxScopeTombstones = 1
    MaxTime = 0
    MaxSeq = 4
SPECIFICATION Spec
SYMMETRY QuotaSymmetry
INVARIANTS InflightExact
PROPERTIES QuotasHold
CHECK_DEADLOCK FALSE
