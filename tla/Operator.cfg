CONSTANTS
    ServerSpecs <- MCSpecs
    ListenPorts = {1, 2}
    Absent = Absent
    MaxSpecEdits = 2
    MaxOperatorFaults = 1
    Claimants = {"a", "b", "c"}
    Routes <- MCRoutes
    AnyHost = "any"
    NoRoute = NoRoute
    Born <- MCBorn
    NameOrder <- MCOrder
    Adapter = {}
    AuthSpecs <- MCAuthSpecs
    Derived = Derived
    Gateways <- MCGateways
    DefaultIngressHost = "g"
    IssuerHost = "h"
    IngressTLS = TRUE
    IssuerTLS = TRUE
    MaxRouteEdits = 2
SPECIFICATION MCSpec
PROPERTIES OperatorSound OperatorConverges RoutesConverge
CHECK_DEADLOCK FALSE
