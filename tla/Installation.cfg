SPECIFICATION MCSpec
CONSTANTS
    Order <- MCOrder
    Wired = {"api"}
    References = {"api"}
    Dependents = {"ui"}
    ConfigMaps <- MCConfigMaps
    Target = 2
    Newest = 3
    MaxCommands = 2
    MaxEdits = 1
    Plans <- MCPlans
    Blockers = {"namespace", "pvc", "identity", "auth-image", "pods", "statefulsets", "requests"}
    MaxRuns = 2
    MaxEvents = 1
    ServerNamespaces = {"s1", "s2"}
    Clusters <- MCClusters
    Faults <- AllFaults
    LateFaults = {"operator down", "no room", "admission denied"}
    MaxTrouble = 1
INVARIANTS DoctorSound
PROPERTIES UpdateSound RegistryUsable ServicesTrusted
CHECK_DEADLOCK FALSE
