---------------------------- MODULE RouteOwnership ----------------------------
(***************************************************************************)
(* Public routes shared by all MCPServers, and the audiences the bundled   *)
(* authorization server mints tokens for: internal/operator/               *)
(* route_ownership.go and oauth_resources.go.                              *)
(*                                                                         *)
(* A server's pass reads the list of all servers and, later, installs its  *)
(* own route; a change to one server wakes up no other.                    *)
(***************************************************************************)
EXTENDS Integers, FiniteSets

CONSTANTS
    Claimants,     \* servers
    Routes,        \* records [host, path]
    AnyHost,       \* the host of a route without one
    NoRoute,       \* a server that is gone, a route that is not installed
    Born,          \* creation times
    NameOrder,     \* namespace/name, as numbers
    Adapter,       \* the servers with adapter certificates
    AuthSpecs,     \* records [bundled, audience, scopes]: what a server's owner asks of the authorization server
    Derived,       \* the audience of a server that leaves it to the operator
    Gateways,      \* records [resource, scopes] an administrator may register
    DefaultIngressHost, IssuerHost, IngressTLS, IssuerTLS, \* the operator's settings; AnyHost if there is no host
    MaxRouteEdits

ASSUME RouteAssumption ==
    /\ IsFiniteSet(Claimants) /\ Adapter \subseteq Claimants /\ MaxRouteEdits \in Nat
    /\ IngressTLS \in BOOLEAN /\ IssuerTLS \in BOOLEAN /\ IssuerHost # AnyHost
    /\ Born \in [Claimants -> Nat] /\ NameOrder \in [Claimants -> Nat]
    /\ \A a, b \in Claimants : NameOrder[a] = NameOrder[b] => a = b

VARIABLES
    claim,        \* each server's route
    plain,        \* the route its Ingress serves
    secured,      \* the route its IngressRoute serves
    refused,      \* its status says that the route is another's
    installing,   \* the route its pass is about to install
    woken,        \* servers in the work queue
    auth,         \* each server's spec.auth
    authServer,   \* the authorization server's Deployment: the resources it accepts, those registered on it
    listed,       \* the resources a pass of the other controller has collected
    listing,      \* how far that pass is
    oauthWoken, routeEdits

routeState == <<claim, plain, secured, refused, installing, woken>>
oauthState == <<auth, authServer, listed, listing, oauthWoken>>
routeVars == <<routeState, oauthState, routeEdits>>

Overlaps(a, b) == a.path = b.path /\ (a.host = b.host \/ a.host = AnyHost \/ b.host = AnyHost)

olderServer(a, b) == Born[a] < Born[b] \/ (Born[a] = Born[b] /\ NameOrder[a] < NameOrder[b])

\* The older servers that claim an overlapping route.
publicRouteOwner(s) ==
    {o \in Claimants \ {s} :
        claim[o] # NoRoute /\ claim[s] # NoRoute /\ Overlaps(claim[o], claim[s]) /\ olderServer(o, s)}
Owns(s) == claim[s] # NoRoute /\ publicRouteOwner(s) = {}

RoutesStarted ==
    /\ plain = [s \in Claimants |-> NoRoute] /\ secured = [s \in Claimants |-> NoRoute]
    /\ refused = [s \in Claimants |-> FALSE] /\ installing = [s \in Claimants |-> NoRoute]
    /\ woken = {s \in Claimants : claim[s] # NoRoute}
    /\ authServer \in [present: BOOLEAN, accepted: {{}}, registered: {{}}]
    /\ listed = {} /\ listing = "no" /\ oauthWoken = (woken # {}) /\ routeEdits = 0
RoutesInit == claim \in [Claimants -> Routes] /\ auth \in [Claimants -> AuthSpecs] /\ RoutesStarted

\* Mutant: the loser keeps the Ingress it has.
RefuseOnly(s) ==
    /\ s \in woken /\ installing[s] = NoRoute /\ claim[s] # NoRoute
    /\ IF Owns(s)
       THEN /\ installing' = [installing EXCEPT ![s] = claim[s]]
            /\ refused' = [refused EXCEPT ![s] = FALSE]
            /\ woken' = woken \ {s}
       ELSE refused' = [refused EXCEPT ![s] = TRUE] /\ UNCHANGED <<installing, woken>>
    /\ UNCHANGED <<claim, plain, secured, oauthState, routeEdits>>

\* A server whose route an older one claims loses its Ingress and is looked at
\* again in a minute.
checkPublicRouteOwnership(s) ==
    /\ s \in woken /\ installing[s] = NoRoute /\ claim[s] # NoRoute
    /\ IF Owns(s)
       THEN /\ installing' = [installing EXCEPT ![s] = claim[s]]
            /\ refused' = [refused EXCEPT ![s] = FALSE]
            /\ woken' = woken \ {s}
            /\ UNCHANGED plain
       ELSE /\ plain' = [plain EXCEPT ![s] = NoRoute]
            /\ refused' = [refused EXCEPT ![s] = TRUE]
            /\ UNCHANGED <<installing, woken>>
    /\ UNCHANGED <<claim, secured, oauthState, routeEdits>>

\* The rest of the pass, of which only the route matters here.
installRoute(s) ==
    /\ installing[s] # NoRoute
    /\ IF claim[s] = NoRoute THEN UNCHANGED <<plain, secured>>
       ELSE IF s \in Adapter
       THEN secured' = [secured EXCEPT ![s] = installing[s]] /\ plain' = [plain EXCEPT ![s] = NoRoute]
       ELSE plain' = [plain EXCEPT ![s] = installing[s]] /\ secured' = [secured EXCEPT ![s] = NoRoute]
    /\ installing' = [installing EXCEPT ![s] = NoRoute]
    /\ UNCHANGED <<claim, refused, woken, oauthState, routeEdits>>

\* An owner moves a server, asks something else of the authorization server, or
\* deletes it; the server's own watch, and the other controller's, see it.
RouteEdited(s, r) ==
    /\ claim[s] \notin {r, NoRoute} /\ routeEdits < MaxRouteEdits /\ routeEdits' = routeEdits + 1
    /\ claim' = [claim EXCEPT ![s] = r]
    /\ woken' = woken \cup {s} /\ oauthWoken' = TRUE
    /\ UNCHANGED <<plain, secured, refused, installing, auth, authServer, listed, listing>>
AuthEdited(s, a) ==
    /\ claim[s] # NoRoute /\ auth[s] # a /\ routeEdits < MaxRouteEdits /\ routeEdits' = routeEdits + 1
    /\ auth' = [auth EXCEPT ![s] = a]
    /\ woken' = woken \cup {s} /\ oauthWoken' = TRUE
    /\ UNCHANGED <<claim, plain, secured, refused, installing, authServer, listed, listing>>
ClaimantDeleted(s) ==
    /\ claim[s] # NoRoute /\ routeEdits < MaxRouteEdits /\ routeEdits' = routeEdits + 1
    /\ claim' = [claim EXCEPT ![s] = NoRoute] /\ refused' = [refused EXCEPT ![s] = FALSE]
    /\ plain' = [plain EXCEPT ![s] = NoRoute] /\ secured' = [secured EXCEPT ![s] = NoRoute]
    /\ woken' = woken \ {s} /\ oauthWoken' = TRUE
    /\ UNCHANGED <<installing, auth, authServer, listed, listing>>
\* The informers' periodic resync wakes every server.
Resync ==
    /\ woken' = {s \in Claimants : claim[s] # NoRoute} /\ woken' # woken
    /\ UNCHANGED <<claim, plain, secured, refused, installing, oauthState, routeEdits>>
-----------------------------------------------------------------------------
\* ResolveDerivedAuth: the audience a server's owner names, or the URL the ingress
\* serves it on; none without a host.
Audiences(s) ==
    LET host == IF claim[s].host = AnyHost THEN DefaultIngressHost ELSE claim[s].host IN
    IF auth[s].audience # Derived THEN {auth[s].audience}
    ELSE IF host = AnyHost THEN {} ELSE {[host |-> host, path |-> claim[s].path, tls |-> IngressTLS]}

\* An audience is published when its path is the server's own, and its host is the
\* server's, the default one, or, with neither known, the issuer's.
audienceServedByPlatform(s, a) ==
    LET hosts == {claim[s].host, DefaultIngressHost} \ {AnyHost} IN
    /\ IssuerTLS => a.tls
    /\ a.path = claim[s].path
    /\ a.host \in IF hosts = {} THEN {IssuerHost} ELSE hosts

\* The servers that use the bundled authorization server, on a route of their own.
Publishers(a) == {s \in Claimants : Owns(s) /\ auth[s].bundled /\ a \in Audiences(s) /\ audienceServedByPlatform(s, a)}
Published == {a \in UNION {Audiences(s) : s \in {o \in Claimants : Owns(o)}} : Publishers(a) # {}}

\* The other controller collects the audiences of the servers that own their
\* route.  Of two with the same audience the first in the list gives the scopes,
\* and the list comes from a cache in no order ...
reconcileBundledOAuthResources ==
    /\ oauthWoken /\ listing = "no" /\ listing' = "listed" /\ oauthWoken' = FALSE
    /\ \E first \in [Published -> Claimants] :
         /\ \A a \in Published : first[a] \in Publishers(a)
         /\ listed' = {[resource |-> a, scopes |-> auth[first[a]].scopes] : a \in Published}
    /\ UNCHANGED <<routeState, auth, authServer, routeEdits>>

\* ... reads the authorization server's Deployment, whose registered resources no
\* server may name (a malformed registration fails the same way) ...
Conflicting(names) == names \cap {g.resource : g \in authServer.registered} # {}
readAuthDeployment ==
    /\ listing = "listed"
    /\ \/ /\ authServer.present /\ Conflicting({l.resource : l \in listed})
          /\ listing' = "no" /\ listed' = {} /\ oauthWoken' = TRUE
       \/ /\ authServer.present /\ ~ Conflicting({l.resource : l \in listed})
          /\ LET wanted == listed \cup authServer.registered IN
             IF wanted = authServer.accepted THEN listing' = "no" /\ listed' = {} ELSE listing' = "read" /\ listed' = wanted
          /\ UNCHANGED oauthWoken
       \/ ~ authServer.present /\ listing' = "no" /\ listed' = {} /\ UNCHANGED oauthWoken
    /\ UNCHANGED <<routeState, auth, authServer, routeEdits>>

\* ... and writes what differs.  The controller watches the Deployment, so that
\* its own write wakes it as well.
patchAuthDeployment ==
    /\ listing = "read" /\ listing' = "no" /\ listed' = {} /\ oauthWoken' = TRUE
    /\ authServer' = [authServer EXCEPT !.accepted = listed]
    /\ UNCHANGED <<routeState, auth, routeEdits>>

\* A call fails, or the operator restarts: the work is done again.
OAuthPassFails ==
    /\ listing # "no" /\ routeEdits < MaxRouteEdits /\ routeEdits' = routeEdits + 1
    /\ listing' = "no" /\ listed' = {} /\ oauthWoken' = TRUE
    /\ UNCHANGED <<routeState, auth, authServer>>

\* Setup writes the Deployment anew, or it is deleted.
AuthDeploymentRewritten ==
    /\ routeEdits < MaxRouteEdits /\ routeEdits' = routeEdits + 1
    /\ authServer' \in {[authServer EXCEPT !.present = TRUE, !.accepted = {}],
                        [present |-> FALSE, accepted |-> {}, registered |-> {}]}
    /\ authServer' # authServer
    /\ oauthWoken' = TRUE
    /\ UNCHANGED <<routeState, auth, listed, listing>>

\* applyAuthWiring registers the resources of the credential gateway in place of
\* the ones it registered before, beside what the server accepts.
applyAuthWiring(g) ==
    /\ authServer.present /\ routeEdits < MaxRouteEdits /\ routeEdits' = routeEdits + 1
    /\ authServer' = [authServer EXCEPT !.registered = g, !.accepted =
            {r \in @ : ~ \E x \in authServer.registered \cup g : x.resource = r.resource} \cup g]
    /\ authServer' # authServer
    /\ oauthWoken' = TRUE
    /\ UNCHANGED <<routeState, auth, listed, listing>>

RouteStep == \E s \in Claimants : checkPublicRouteOwnership(s) \/ installRoute(s)
OAuthStep == reconcileBundledOAuthResources \/ readAuthDeployment \/ patchAuthDeployment
RoutesNext ==
    \/ RouteStep \/ OAuthStep \/ Resync \/ OAuthPassFails \/ AuthDeploymentRewritten
    \/ \E g \in SUBSET Gateways : applyAuthWiring(g)
    \/ \E s \in Claimants : ClaimantDeleted(s) \/ (\E r \in Routes : RouteEdited(s, r)) \/ \E a \in AuthSpecs : AuthEdited(s, a)
RoutesFairness ==
    /\ \A s \in Claimants : WF_routeVars(checkPublicRouteOwnership(s)) /\ WF_routeVars(installRoute(s))
    /\ WF_routeVars(OAuthStep) /\ WF_routeVars(Resync)
-----------------------------------------------------------------------------
\* No two servers that own their routes answer for the same requests, whoever
\* was created when (publicRouteOwner).
OwnersDisjoint ==
    \A a, b \in Claimants : a # b /\ Owns(a) /\ Owns(b) => ~ Overlaps(claim[a], claim[b])

Installed(s) == {plain[s], secured[s]} \ {NoRoute}

\* The route has a single backend in the end, even after an older server has
\* moved onto a younger one's route (checkPublicRouteOwnership).
SingleBackend ==
    <>[](\A a, b \in Claimants : a # b =>
            \A r \in Installed(a), q \in Installed(b) : ~ Overlaps(r, q))

\* Two servers share an audience, and so each other's tokens, only on the default
\* host, which may be named on any route of the same path: on another host, and for
\* a route without a host, the audience is its owner's alone
\* (audienceServedByPlatform, publicRouteOwner).
AudiencesUnshared ==
    \A a \in Published : \A s, o \in Publishers(a) :
        s # o => a.host = DefaultIngressHost /\ AnyHost \notin {claim[s].host, claim[o].host}

\* The authorization server ends up accepting, beside what is registered, the
\* audiences that owners of a route publish and no other, each with the scopes of
\* one that publishes it, however edits, setup and the gateway's registration race
\* with a pass; while a registered resource is a server's audience the pass fails
\* and says nothing (reconcileBundledOAuthResources).
AudiencesFollow ==
    <>[](authServer.present /\ ~ Conflicting(Published) =>
            /\ {r.resource : r \in authServer.accepted \ authServer.registered} = Published
            /\ authServer.registered \subseteq authServer.accepted
            /\ \A r \in authServer.accepted \ authServer.registered :
                 \E s \in Publishers(r.resource) : r.scopes = auth[s].scopes)

\* A refused server serves nothing on a route another server claims.
RefusedUnrouted ==
    \A s, o \in Claimants : refused[s] /\ o \in publicRouteOwner(s) =>
        \A r \in Installed(s) : ~ Overlaps(r, claim[o])
\* Servers that claim one another's routes end up with one owner each, one backend and the audiences of owners,
\* and never with two owners, or a shared audience off the default host, on the way.
RoutesConverge == [](OwnersDisjoint /\ AudiencesUnshared) /\ SingleBackend /\ AudiencesFollow
=============================================================================
