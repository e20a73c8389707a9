\* The servers have adapter certificates: they are served by IngressRoutes.
CONSTANTS
    ServerSpecs <- MCSpecs
    ListenPorts = {1, 2}
    Absent = Absent
    MaxSpecEdits = 0
    MaxOperatorFaults = 0
    Claimants = {"a", "b", "c"}
    Routes <- MCRoutes
    AnyHost = "any"
    NoRoute = NoRoute
    Born <- MCBorn
    NameOrder <- MCOrder
    Adapter = {"a", "b", "c"}
    AuthSpecs <- MCAuthSpecs
    Derived = Derived
    Gateways <- MCGateways
    DefaultIngressHost = "g"
    IssuerHost = "h"
    IngressTLS = TRUE
    IssuerTLS = TRUE
    MaxRouteEdits = 1
SPECIFICATION RoutesSpec
INVARIANT RefusedUnrouted
CHECK_DEADLOCK FALSE
