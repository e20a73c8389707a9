----------------------------- MODULE SetupOperator -----------------------------
(* The operator's part of setup: the runtime images, the operator's          *)
(* permissions, its admission webhook with the certificate authority it      *)
(* makes, the Deployment, the optional mcp-auth server that is wired into    *)
(* it, and the command that repairs its permissions.                         *)
EXTENDS SetupRegistry

CONSTANT ServerNamespaces

VARIABLES
    serverNs,       \* the namespaces that hold MCP servers
    listed,         \* the ones the run read before it binds them
    late,           \* history: those whose first server came since then, beside this release's runtime-api
    bound,          \* the namespaces in which the operator may read Secrets
    role,           \* its ClusterRole: "none", "wide" (every Secret, as older releases had it) or "narrow"
    hookCA,         \* the version of the webhook's authority in its Secret, 0 for none
    servedCA,       \* the version the operator's pods serve with
    trustedCA,      \* the version the API server verifies them with
    operator,       \* the operator's Deployment: "none", "plain", or "wired" to mcp-auth
    authRole        \* the operator may manage the bundled mcp-auth

operatorVars == <<serverNs, listed, late, bound, role, hookCA, servedCA, trustedCA, operator, authRole>>
hookVars == <<hookCA, servedCA, trustedCA>>
namespaceVars == <<serverNs, listed, late>>
below == <<trustVars, registryVars>>

(* A fresh cluster, or one an older release was installed on.                  *)
OperatorInit ==
    /\ \/ serverNs = {} /\ role = "none"
       \/ serverNs \in SUBSET ServerNamespaces /\ role = "wide"
    /\ listed = {} /\ late = {} /\ bound = {} /\ hookCA = 0 /\ servedCA = 0 /\ trustedCA = 0 /\ operator = "none" /\ authRole = FALSE

------------------------------------------------------------------------------
(* The two runtime images, and the images of the services: pushed into the bundled *)
(* registry or the run ends; a push to an external one that fails is only a warning. *)
PublishImages(call, images) ==
    /\ AtCall(call)
    /\ \E pushed \in BOOLEAN :
         IF pushed THEN Applies(images) ELSE (IF plan.external THEN Proceed ELSE Stop) /\ UNCHANGED live
    /\ UNCHANGED <<below, operatorVars>>
prepareDeploymentImages ==
    AtCall("operator-image") /\ Expand(<<"push-operator", "push-gateway">>) /\ UNCHANGED <<live, below, operatorVars>>
prepareOperatorImage == PublishImages("push-operator", {"operator-image"})
prepareGatewayProxyImage == PublishImages("push-gateway", {"gateway-image"})
prepareAnalyticsImages == PublishImages("analytics-images", {"service-images"})

\* Mutant: the cluster-wide rule is stripped first.
MutNarrowEarly ==
    /\ AtCall("operator-deploy")
    /\ Expand(<<"operator-pull-secret", "certificate-gate", "middlewares", "operator-rbac", "narrow-role", "secret-list", "secret-bindings",
                "webhook-secret", "operator-manager", "webhook-rollout", "webhook-register">>)
    /\ UNCHANGED <<live, below, operatorVars>>
deployOperatorStep ==
    /\ AtCall("operator-deploy")
    /\ Expand(<<"operator-pull-secret", "certificate-gate", "middlewares", "operator-rbac", "secret-list", "secret-bindings", "narrow-role",
                "webhook-secret", "operator-manager", "webhook-rollout", "webhook-register">>
              \o Calls(<< <<plan.external, "external-registry-env">> >>))
    /\ UNCHANGED <<live, below, operatorVars>>
(* Adapter certificates need the ingress controller's identity and a gate in front of the issuer. *)
validateAdapterCertificateIngressIdentity ==
    /\ AtCall("certificate-gate") /\ Require(plan.workload = "none" \/ {"traefik", "own-traefik"} \cap live # {})
    /\ UNCHANGED <<live, below, operatorVars>>
ensureRepoManagedTraefikMiddlewareResources == AtCall("middlewares") /\ Applies({"middlewares"}) /\ UNCHANGED <<below, operatorVars>>
applyOperatorRBAC ==
    /\ AtCall("operator-rbac")
    /\ IF {"crd", "namespace"} \cap stuck = {} THEN Applies({"crds", "mcp-runtime", "operator-rbac"}) ELSE Stop /\ UNCHANGED live
    /\ UNCHANGED <<below, operatorVars>>
(* The namespaces with servers are read, then each of these gets its binding, one after the other; *)
(* the apply may end after any of them.                                         *)
ListServerNamespaces ==
    /\ AtCall("secret-list") /\ Proceed /\ listed' = serverNs /\ late' = {}
    /\ UNCHANGED <<live, below, serverNs, bound, role, hookVars, operator, authRole>>
ensureOperatorSecretAccessBindings ==
    /\ AtCall("secret-bindings")
    /\ \E made \in SUBSET (listed \ bound) :
         /\ bound' = bound \cup made
         /\ IF listed \subseteq bound' THEN Proceed ELSE Stop
    /\ UNCHANGED <<live, below, namespaceVars, role, hookVars, operator, authRole>>
NarrowOperatorRole ==
    /\ AtCall("narrow-role") /\ Proceed /\ role' = "narrow"
    /\ UNCHANGED <<live, below, namespaceVars, bound, hookVars, operator, authRole>>

(* The webhook's authority is kept unless it is missing, near its end or cannot be read. *)
resolveOperatorWebhookTLSSecret == IF hookCA = 0 THEN {1} ELSE {hookCA, hookCA + 1}
ensureOperatorWebhookTLSSecret ==
    /\ AtCall("webhook-secret") /\ Proceed /\ hookCA' \in resolveOperatorWebhookTLSSecret
    /\ UNCHANGED <<live, below, namespaceVars, bound, role, servedCA, trustedCA, operator, authRole>>
(* The rendered manifest replaces the environment: the issuer of mcp-auth is set again by its own step. *)
DeployOperatorManager ==
    /\ AtCall("operator-manager") /\ Applies({"operator"}) /\ operator' = "plain"
    /\ UNCHANGED <<below, namespaceVars, bound, role, hookVars, authRole>>
(* The pods restart when the authority changed; the webhook is registered once they serve with it. *)
waitForOperatorWebhookRollout ==
    /\ AtCall("webhook-rollout") /\ Proceed /\ servedCA' = hookCA
    /\ UNCHANGED <<live, below, namespaceVars, bound, role, hookCA, trustedCA, operator, authRole>>
applyOperatorWebhookManifests ==
    /\ AtCall("webhook-register") /\ Proceed /\ trustedCA' = hookCA
    /\ UNCHANGED <<live, below, namespaceVars, bound, role, hookCA, servedCA, operator, authRole>>
configureProvisionedRegistryEnv == AtCall("external-registry-env") /\ Applies({"registry-env"}) /\ UNCHANGED <<below, operatorVars>>

------------------------------------------------------------------------------
(* The bundled authorization server.                                            *)
deployMCPAuthServer ==
    /\ AtCall("mcp-auth-server") /\ Expand(<<"auth-rbac", "auth-manifest", "auth-operator-env", "auth-rollout">>)
    /\ UNCHANGED <<live, below, operatorVars>>
applyMCPAuthRBAC ==
    AtCall("auth-rbac") /\ Proceed /\ authRole' = TRUE /\ UNCHANGED <<live, below, namespaceVars, bound, role, hookVars, operator>>
renderMCPAuthServerManifest == AtCall("auth-manifest") /\ Applies({"mcp-auth"}) /\ UNCHANGED <<below, operatorVars>>
ConfigureOperatorIssuer ==
    AtCall("auth-operator-env") /\ Proceed /\ operator' = "wired" /\ UNCHANGED <<live, below, namespaceVars, bound, role, hookVars, authRole>>
waitForMCPAuth == AtCall("auth-rollout") /\ Proceed /\ UNCHANGED <<live, below, operatorVars>>

verifySetup ==
    /\ AtCall("verify")
    /\ Require({"operator", "crds"} \subseteq live /\ (plan.external \/ "registry" \in live) /\ stuck \subseteq {"requests"})
    /\ UNCHANGED <<live, below, operatorVars>>

OperatorNext ==
    \/ prepareDeploymentImages \/ prepareOperatorImage \/ prepareGatewayProxyImage \/ prepareAnalyticsImages \/ deployOperatorStep \/ validateAdapterCertificateIngressIdentity
    \/ ensureRepoManagedTraefikMiddlewareResources \/ applyOperatorRBAC \/ ListServerNamespaces \/ ensureOperatorSecretAccessBindings \/ NarrowOperatorRole
    \/ ensureOperatorWebhookTLSSecret \/ DeployOperatorManager \/ waitForOperatorWebhookRollout \/ applyOperatorWebhookManifests
    \/ configureProvisionedRegistryEnv \/ deployMCPAuthServer \/ applyMCPAuthRBAC \/ renderMCPAuthServerManifest
    \/ ConfigureOperatorIssuer \/ waitForMCPAuth \/ verifySetup

(* `cluster operator-rbac apply` writes the shipped ClusterRole, and the Role of mcp-auth where that is installed. *)
reconcileOperatorRBAC ==
    /\ outcome # "running" /\ role # "none" /\ (role # "narrow" \/ ("mcp-auth" \in live /\ ~authRole))
    /\ role' = "narrow" /\ authRole' = (authRole \/ "mcp-auth" \in live)
    /\ UNCHANGED <<baseVars, below, namespaceVars, bound, hookVars, operator>>
(* A team gets its first server at any time, also while setup runs.  The runtime-api *)
(* of this release binds the namespace first; an older release's, which is there     *)
(* until the services are applied, and kubectl do not.                               *)
AppearsIn(n) ==
    /\ n \notin serverNs /\ Disturb /\ serverNs' = serverNs \cup {n}
    /\ UNCHANGED <<plan, todo, outcome, runs, live, stuck, below, listed, role, hookVars, operator, authRole>>
ProvisionNamespace(n) == "services" \in live /\ AppearsIn(n) /\ bound' = bound \cup {n} /\ UNCHANGED late
DeployUnprovisioned(n) ==
    ("crds" \in live \/ role = "wide") /\ AppearsIn(n) /\ late' = late \cup {n} /\ UNCHANGED bound

OperatorTypeOK ==
    /\ serverNs \cup bound \subseteq ServerNamespaces /\ listed \cup late \subseteq serverNs /\ role \in {"none", "wide", "narrow"}
    /\ {hookCA, servedCA, trustedCA} \subseteq 0..(MaxRuns + 1) /\ operator \in {"none", "plain", "wired"} /\ authRole \in BOOLEAN

------------------------------------------------------------------------------
(* Setup takes the cluster-wide Secret rule away only when the namespaces with    *)
(* servers have bindings of their own ("Grant replacement access before stripping *)
(* the old cluster-wide rule"), also when the run before ended half way and when  *)
(* namespaces appear while it runs; all that it may miss is one that gets its      *)
(* first server after it read them, from something that binds nothing.            *)
SecretAccessKept == [][role' = "narrow" /\ role # "narrow" /\ outcome = "running" => serverNs \ late \subseteq bound]_<<role, namespaceVars, bound>>
(* A setup that succeeds leaves a webhook the API server trusts, and none is      *)
(* registered before an operator serves it: its failure policy refuses writes.    *)
WebhookTrusted == (SetupDone => trustedCA = servedCA /\ servedCA = hookCA) /\ (trustedCA # 0 => servedCA # 0)
(* Where mcp-auth is installed, a setup that succeeds leaves the operator pointing *)
(* at it, although every run replaces the operator's environment.                  *)
AuthWired == SetupDone /\ ~plan.test /\ "mcp-auth" \in live => operator = "wired" /\ authRole
=============================================================================
