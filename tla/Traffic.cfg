CONSTANTS
    Requests = {"r1", "r2"}
    Shapes <- MCShapes
    Documents <- MCDocuments
    Sessions <- MCSessions
    SessionAgent <- MCAgents
    LiveInventory = "live-inventory"
    MaxEvents = 2
    GrantPool <- MCGrants
    ToolPool <- MCTools
    SessionPool <- MCSessionPool
    RulePool <- MCRules
    MaxGrants = 2
    UpstreamRequests = {q1, q2, q3}
    Threshold = 2
    Cooldown = 1
    Limit <- TwoRpcs
    MaxGen = 3
    ProfileIds = {"a", "b"}
    SessionTTL = 2
    CertTTL = 1
    RenewLead = 0
    MaxSerial = 2
    ProxyRequests = {"p", "q"}
    MaxAttempts = 2
    MaxLeafRotations = 1
    MaxGeneration = 2
    SessionTicks = 2
    MaxCalls = 2
SPECIFICATION MCSpec
INVARIANTS  DecisionsFollowGrants
PROPERTIES AdmissionSound ProfilesSeparate ProxyHonest ServiceHonest
CHECK_DEADLOCK FALSE
