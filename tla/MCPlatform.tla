------------------------------ MODULE MCPlatform ------------------------------
(* The platform's services: the runtime API (one server's requests, team      *)
(* namespaces, its stores), the platform API's accounts, its login lockout    *)
(* and its registry tokens, the sign-in service, and the credential broker.   *)
(* They share no state here: `part` says which of them a behaviour is about,  *)
(* and the others rest in a state they start from.                            *)
EXTENDS ServerRetirement, TeamProvisioning, RuntimeStores,
        Accounts, LoginLockout, PlatformTokens, SignIn, CredentialBroker

VARIABLE part
runtimeVars == <<retireVars, provisionVars, keyVars, pushVars, inventoryVars>>
identityVars == <<accountVars, lockoutVars, tokenVars, signInVars>>
brokerPartVars == <<brokerVars, brokerAuthVars>>

Scenario(a, b, c, d) == [r \in Requests |-> CASE r = "r1" -> a [] r = "r2" -> b [] r = "r3" -> c [] OTHER -> d]
MCScenarios ==
    {Scenario("retire", "retire", "publish", "issue"), Scenario("retire", "retire", "publish", "grant"),
     Scenario("retire", "certificate", "abandon", "issue"), Scenario("retire", "moderate", "update", "issue"),
     Scenario("retire", "toggle", "publish", "grant"), Scenario("retire", "moderate", "publish", "apply")}

P(k, n, m) == [kind |-> k, ns |-> n, member |-> m]
Plan(a, b, c) == [t \in Tasks |-> CASE t = "t1" -> a [] t = "t2" -> b [] OTHER -> c]
MCPlans ==
    {Plan(P("deploy", "n1", "ann"), P("publish", "n2", "bob"), P("deleteTeam", "n1", "bob")),
     Plan(P("deploy", "n1", "ann"), P("deploy", "n1", "bob"), P("reconcile", "n1", "bob"))}
I(h, p) == [host |-> h, path |-> p]
MCSlug == [n \in Namespaces |-> IF n = "n1" THEN "red" ELSE "blue"]
MCImages == {I(NoObject, <<"blue", "app">>), I("alias", <<"blue", "red">>), I("other", <<"red", "app">>)}

K(o, i) == [op |-> o, id |-> i]
MCKeyPlans == {[c \in KeyCalls |-> CASE c = 1 -> K("create", "k1") [] c = 2 -> K("revoke", "k1")
                                     [] c = 3 -> K("create", "k2") [] OTHER -> K("create", "k3")]}

R(s, p, a) == [scope |-> s, prefix |-> p, admin |-> a,
               teams |-> {[slug |-> "red", namespace |-> "n1"], [slug |-> "n1", namespace |-> "n2"]}]
MCPushPlans == {[p \in Pushes |-> IF p = "p" THEN R("tenant", "n1", FALSE) ELSE R("public", "shared", FALSE)],
                [p \in Pushes |-> IF p = "p" THEN R("unset", "red", FALSE) ELSE R("tenant", NoPrefix, TRUE)]}
MCCatalogNames == [s \in {"public"} |-> {"shared"}]

RetireIdle == RetireInit /\ request["r4"].op = "apply"
ProvisionIdle == ProvisionInit /\ objects = [n \in Namespaces |-> {}] /\ task["t3"].kind = "reconcile"
PushIdle == PushInit /\ pushing["p"].scope = "tenant" /\ \A f \in Fetchers : fetch[f].of = "p"
FewProbes == Cardinality(DOMAIN inFlight) <= 2   \* a bound on the probes at a time
\* A bound: once a source is approved and bound, two more changes of these or of what a session rests on.
FewChanges == turns + binding.revision + MapThenSumSet(LAMBDA s : sources[s].revision, SourceNames) <= 4
MCScope == [r \in Repos |-> IF r = "own" THEN "red" ELSE Unscoped]

MCInit ==
    /\ KeysInit /\ InventoryInit
    /\ LockoutInit /\ SignInInit /\ BrokerInit
    /\ AccountsInit /\ TokensInit /\ BrokerAuthInit
    /\ \/ part = "retire" /\ RetireInit /\ ProvisionIdle /\ PushIdle
       \/ part = "provision" /\ ProvisionInit /\ RetireIdle /\ PushIdle
       \/ part = "push" /\ PushInit /\ fetch["f1"].of = "p" /\ RetireIdle /\ ProvisionIdle
       \/ /\ part \in {"keys", "inventory", "accounts", "lockout", "tokens", "signin", "broker", "review"}
          /\ RetireIdle /\ ProvisionIdle /\ PushIdle
Serving ==
    /\ \/ part = "retire" /\ RetireNext /\ UNCHANGED <<provisionVars, keyVars, pushVars, inventoryVars>>
       \/ part = "provision" /\ ProvisionNext /\ UNCHANGED <<retireVars, keyVars, pushVars, inventoryVars>>
       \/ part = "keys" /\ KeysNext /\ UNCHANGED <<retireVars, provisionVars, pushVars, inventoryVars>>
       \/ part = "push" /\ PushNext /\ UNCHANGED <<retireVars, provisionVars, keyVars, inventoryVars>>
       \/ part = "inventory" /\ InventoryNext /\ FewProbes' /\ UNCHANGED <<retireVars, provisionVars, keyVars, pushVars>>
    /\ UNCHANGED <<identityVars, brokerPartVars>>
Identifying ==
    /\ \/ part = "accounts" /\ AccountsNext /\ UNCHANGED <<lockoutVars, tokenVars, signInVars>>
       \/ part = "lockout" /\ LockoutNext /\ UNCHANGED <<accountVars, tokenVars, signInVars>>
       \/ part = "tokens" /\ TokensNext /\ UNCHANGED <<accountVars, lockoutVars, signInVars>>
       \/ part = "signin" /\ SignInNext /\ UNCHANGED <<accountVars, lockoutVars, tokenVars>>
    /\ UNCHANGED <<runtimeVars, brokerPartVars>>
Brokering ==
    /\ \/ part = "broker" /\ BrokerNext /\ FewChanges' /\ UNCHANGED brokerAuthVars
       \/ part = "review" /\ BrokerAuthNext /\ UNCHANGED brokerVars
    /\ UNCHANGED <<runtimeVars, identityVars>>
MCNext == (Serving \/ Identifying \/ Brokering) /\ UNCHANGED part
MCSpec == MCInit /\ [][MCNext]_<<runtimeVars, identityVars, brokerPartVars, part>>
=============================================================================
