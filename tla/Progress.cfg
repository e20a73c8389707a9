CONSTANTS
    Requests = {}
    Shapes <- MCShapes
    Documents <- MCDocuments
    Sessions <- MCSessions
    SessionAgent <- MCAgents
    LiveInventory = "live-inventory"
    MaxEvents = 2
    MaxRotations = 2
    Bundles <- MCBundles
    Roots = {"old", "new"}
    UpstreamRequests = {1, 2}
    Threshold = 2
    Cooldown = 1
    Limit <- TwoRpcs
    MaxGen = 3
    Handlers = {h1, h2, h3}
    Workers = {1, 2}
    QueueSize = 1
    MaxOffered = 4
    Images = {1, 2, 3}
    Commits <- MCCommits
    Parallelism = 2
    Retries = 1
    MaxBuildRuns = 2
    Messages = 6
    BatchSize = 2
    ChanSize = 2
    Undecodable = {4}
    MaxCrashes = 2
SPECIFICATION MCSpec
INVARIANTS BuildersSound NoLoss EventsAccounted
PROPERTIES FilesTakeEffect NothingStuck EventuallyStored
CHECK_DEADLOCK FALSE
