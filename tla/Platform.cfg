CONSTANTS
    Requests = {"r1", "r2", "r3", "r4"}
    Scenarios <- MCScenarios
    NoObject = NoObject
    Tasks = {"t1", "t2", "t3"}
    Namespaces = {"n1", "n2"}
    Members = {"ann", "bob"}
    Plans <- MCPlans
    DeployImages <- MCImages
    Slug <- MCSlug
    Approved = {"pull"}
    Aliases = {"alias"}
    PullHost = "pull"
    MaxDeletions = 1
    Nothing0 = NoObject
    KeyCalls = {1, 2, 3, 4}
    KeyPlans <- MCKeyPlans
    MaxKeyAttempts = 4
    Pushes = {"p", "q"}
    PushPlans <- MCPushPlans
    EnabledScopes = {"tenant", "public"}
    CatalogNames <- MCCatalogNames
    NoPrefix = NoObject
    Fetchers = {"f1", "f2"}
    InventoryServers = {"s1", "s2", "s3"}
    MaxGen = 2
    MaxInventory = 2
    InventoryTTL = 1
    MaxInventoryTime = 2
    Users = {"ada", "ben"}
    Teams = {"t1"}
    Subjects = {"s1"}
    SecretKinds = {"apiKey"}
    SeedAdmin = "ada"
    OIDCAdmins = {"ben"}
    Service = "key"
    MaxFlights = 2
    Addresses = {"a", "b", "c"}
    LockBase = 1
    LockMax = 2
    IdleTTL = 3
    PruneInterval = 1
    MaxEntries = 2
    EvictionBatch = 1
    MaxLogins = 2
    MaxFailures = 5
    Repos = {"own", "gateway"}
    Scope <- MCScope
    Unscoped = "none"
    TeamScopes = {"red", "blue"}
    OpenScopes = {}
    NodeTeam = "blue"
    NodeShared = {"gateway"}
    SessionTTL = 3
    ExchangeTTL = 2
    Lifetime = 1
    CacheTTL = 1
    MaxTokens = 2
    LoginIds = {"i", "j"}
    Submissions = {"f", "g", "h"}
    Jtis = {"a", "b"}
    MaxPending = 2
    MaxAttempts = 2
    StoreMax = 1
    RequestTTL = 2
    CodeTTL = 1
    TokenTTL = 1
    StoreTTL = 2
    MaxSubjects = 2
    SourceNames = {"s1", "s2"}
    Resources = {"k1", "k2"}
    Resolutions = {"r1"}
    MaxRevision = 2
    MaxTurns = 2
    PodTokens = {"p", "q", "x"}
    GoodTokens = {"p", "q"}
    GoodTTL = 1
    RenewWindow = 3
    BadTTL = 1
    CacheMax = 2
    ColdBurst = 1
    RenewBurst = 1
    ReviewTime = 1
    MaxReviews = 2
SPECIFICATION MCSpec
INVARIANTS StoresKeep TokensBounded SignInSound HandOutsSound
PROPERTIES ServerAuthority TenantsConfined AccountsSound LocksKept ReviewsSound
CHECK_DEADLOCK FALSE
