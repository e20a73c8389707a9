----------------------------- MODULE SetupTrust -----------------------------
(* The frame of `mcp-runtime setup`: a run takes the steps its plan calls    *)
(* for, one call after the other; a call that fails ends the run, nothing is *)
(* undone, and the administrator runs the command again.  The calls          *)
(* themselves, and the part of the cluster each changes, follow: those about *)
(* certificates and trust here, the others in SetupRegistry, SetupOperator   *)
(* and SetupPipeline.                                                        *)
EXTENDS Naturals, Sequences, FiniteSets

CONSTANTS
    Plans,          \* the flag combinations the administrator may run setup with
    Blockers,       \* the kinds of trouble that may be there before a run: stuck cluster state, or a wrong context or image
    MaxRuns,        \* bound: commands started
    MaxEvents       \* bound: things that happen to the cluster beside the commands

VARIABLES
    plan,           \* the plan of the current (or last) run
    todo,           \* the calls the run still has to make
    outcome,        \* "idle", "running", "failed" or "done"
    runs,           \* commands started
    live,           \* the objects in the cluster that are only created or replaced whole
    stuck,          \* the trouble there is, which preflight looks for
    events          \* things that happened to the cluster so far

baseVars == <<plan, todo, outcome, runs, live, stuck, events>>

PlanFields == {"tls", "test", "analytics", "external", "auth", "https", "catalog", "install"}
PlanOK(p) ==
    /\ \A f \in PlanFields : p[f] \in BOOLEAN
    /\ p.mode \in {"private", "acme", "issuer", "provided"}
    /\ p.workload \in {"none", "managed", "dedicated"}
    /\ p.host \in {"public", "moved", "dev"}

(* What the command line refuses before it looks at the cluster: the TLS, mTLS, *)
(* mcp-auth and registry flags that exclude or require each other.              *)
ValidFlags(p) ==
    /\ ~p.tls => p.mode = "private" /\ p.install
    /\ p.workload = "managed" => p.test
    /\ p.workload = "dedicated" => p.tls \/ p.test
    /\ p.auth => p.analytics /\ (p.tls \/ p.test)
    /\ p.https => p.tls /\ ~p.external
(* plan.Build: test mode turns the bundled workload issuer on by itself.        *)
BuiltPlan(p) == p.test => p.workload # "none"
(* A public installation needs its host names and administrator.                *)
validateRequiredPlatformEnv(p) == p.tls /\ ~p.test => p.host # "dev"

Calls(guarded) ==           \* the calls of those pairs <<condition, call>> whose condition holds
    LET Taken(pair) == pair[1] IN [i \in 1..Len(SelectSeq(guarded, Taken)) |-> SelectSeq(guarded, Taken)[i][2]]

nativeRegistryAuthRequired(p) == ~p.test /\ ~p.external /\ p.tls /\ p.analytics /\ p.host # "dev"

buildSetupSteps(p) == Calls(<<
    <<TRUE, "preflight">>, <<TRUE, "cluster">>, <<p.auth, "mcp-auth-prerequisites">>, <<p.catalog, "catalog-namespace">>,
    <<p.tls \/ (p.analytics /\ ~p.test), "tls">>, <<p.workload # "none", "workload-pki">>,
    <<TRUE, "registry">>, <<nativeRegistryAuthRequired(p), "registry-bootstrap-auth">>,
    <<TRUE, "operator-image">>, <<p.analytics, "analytics-images">>, <<TRUE, "operator-deploy">>,
    <<p.analytics, "analytics-deploy">>, <<p.auth, "mcp-auth-server">>,
    <<nativeRegistryAuthRequired(p), "registry-bootstrap-finalize">>, <<TRUE, "verify">>,
    <<nativeRegistryAuthRequired(p), "registry-native-auth">> >>)

------------------------------------------------------------------------------
(* How a call ends.                                                            *)
AtCall(c) == todo # <<>> /\ Head(todo) = c
Goes(rest) == todo' = rest /\ outcome' = (IF rest = <<>> THEN "done" ELSE outcome) /\ UNCHANGED <<plan, runs, stuck, events>>
Proceed == Goes(Tail(todo))
Expand(calls) == Goes(calls \o Tail(todo))          \* a composite call becomes the calls it makes
Stop == todo' = <<>> /\ outcome' = "failed" /\ UNCHANGED <<plan, runs, stuck, events>>
Require(condition) == IF condition THEN Proceed ELSE Stop
Applies(objects) == live' = live \cup objects /\ Proceed

------------------------------------------------------------------------------
(* The cluster step: CRD, the namespaces the ingress bundle puts Roles in, the bundle. *)
setupClusterSteps == AtCall("cluster") /\ Expand(<<"init-cluster", "platform-namespaces", "ingress">>) /\ UNCHANGED live
InitCluster ==
    /\ AtCall("init-cluster")
    /\ IF {"crd", "namespace"} \cap stuck = {} THEN Applies({"crds", "mcp-runtime", "mcp-servers"}) ELSE Stop /\ UNCHANGED live
EnsureNamespaces ==
    /\ AtCall("platform-namespaces")
    /\ IF "namespace" \notin stuck THEN Applies({"mcp-platform", "mcp-observability"}) ELSE Stop /\ UNCHANGED live
(* A Traefik of the cluster's own, or any ingress class, is left alone.        *)
ConfigureCluster ==
    /\ AtCall("ingress")
    /\ IF {"own-traefik", "traefik"} \cap live # {} THEN Proceed /\ UNCHANGED live ELSE Applies({"traefik"})
setupCatalogNamespaceStep == AtCall("catalog-namespace") /\ Applies({"catalog"})
(* mcp-auth signs with a key the administrator made; test mode needs none.     *)
checkMCPAuthPrerequisites ==
    AtCall("mcp-auth-prerequisites") /\ Require(plan.test \/ "signing-key" \in live) /\ UNCHANGED live

BaseNext ==
    \/ setupClusterSteps \/ InitCluster \/ EnsureNamespaces \/ ConfigureCluster
    \/ setupCatalogNamespaceStep \/ checkMCPAuthPrerequisites

------------------------------------------------------------------------------
(* A call fails (an API error, a timeout) or the command is killed: any call may, before it wrote anything. *)
Interrupt == outcome = "running" /\ Stop /\ UNCHANGED live
(* Something in the cluster gets stuck, or an administrator clears it, between two runs. *)
Disturb == events < MaxEvents /\ events' = events + 1
GetStuck(b) ==
    /\ outcome # "running" /\ runs < MaxRuns /\ stuck = {} /\ Disturb
    /\ stuck' = {b} /\ UNCHANGED <<plan, todo, outcome, runs, live>>
Unstick == outcome # "running" /\ stuck # {} /\ stuck' = {} /\ UNCHANGED <<plan, todo, outcome, runs, live, events>>
(* A run rolls the workloads out again, which may bring stuck pods up.             *)
PodsRecover ==
    /\ outcome = "running" /\ {"pods", "statefulsets"} \cap stuck # {}
    /\ stuck' = {} /\ UNCHANGED <<plan, todo, outcome, runs, live, events>>

Admitted(p) == ValidFlags(p) /\ BuiltPlan(p) /\ validateRequiredPlatformEnv(p)
BaseTypeOK ==
    /\ PlanOK(plan) /\ outcome \in {"idle", "running", "failed", "done"} /\ runs \in 0..MaxRuns /\ events \in 0..MaxEvents
    /\ stuck \subseteq Blockers /\ (outcome = "running" <=> todo # <<>>)

-----------------------------------------------------------------------------
(* The certificates setup makes: the public registry certificate in its four *)
(* modes, the bundled root `mcp-runtime-ca`, the internal registry           *)
(* certificate, the workload issuer, and the trust of the analytics          *)
(* transport, whose clients verify Kafka and ClickHouse with the root        *)
(* published in three namespaces.                                            *)

TrustNamespaces == {"kafka", "platform", "operator"}
PublishCall == [kafka |-> "publish-kafka", platform |-> "publish-platform", operator |-> "publish-operator"]

VARIABLES
    root,           \* the version of the bundled root in its Secret, 0 when the Secret is missing
    minted,         \* versions of the root made so far
    issuer,         \* the ClusterIssuer mcp-runtime-ca: "none", "bundled" or "other" (another signer)
    published,      \* the version of the root each namespace's ConfigMap holds, 0 for none
    signed,         \* the version that signed the transport certificates, 0 while there are none
    workload,       \* the dedicated workload issuer: "missing", "own" root or the "bundled" root
    transport,      \* the Kafka that is deployed: "none", "plain" or "tls"
    certHost        \* the host on the registry Certificate, "none" while there is none

trustVars == <<root, minted, issuer, published, signed, workload, transport, certHost>>
rootVars == <<minted, issuer, published, signed>>
certVars == <<workload, transport, certHost>>

TrustInit ==
    /\ root = 0 /\ minted = 0 /\ signed = 0 /\ certHost = "none"
    /\ issuer \in {"none", "other"} /\ workload \in {"missing", "own", "bundled"} /\ transport \in {"none", "plain"}
    /\ published = [n \in TrustNamespaces |-> 0]

Mint == root' = minted + 1 /\ minted' = minted + 1
(* The Secret is made when it is missing, whatever was signed with the one before. *)
ensureCASecret == IF root = 0 THEN Mint ELSE UNCHANGED <<root, minted>>

------------------------------------------------------------------------------
(* The TLS step and the calls of each mode.                                     *)
validateProductionWorkloadIssuer == plan.test \/ plan.workload = "none" \/ workload = "own"

InternalTLSCalls == IF plan.https THEN <<"internal-tls">> ELSE <<>>
CertificateCalls == <<"ownership", "certificate">> \o Calls(<< <<plan.auth /\ ~plan.test, "auth-certificate">> >>)
LetsEncryptCalls ==
    <<"acme-hosts", "cert-manager", "traefik-ready", "acme-issuer", "registry-namespace", "acme-policy">> \o CertificateCalls
ExistingIssuerCalls == <<"cert-manager", "named-issuer", "registry-namespace", "acme-policy">> \o CertificateCalls
PrivateCACalls == <<"cert-manager-present", "private-ca", "bundled-issuer", "registry-namespace">> \o CertificateCalls
TransportCalls ==
    IF plan.test \/ ~plan.analytics THEN <<>>
    ELSE <<"cert-manager", "transport-root", "transport-issuer", "publish-kafka", "publish-platform", "publish-operator",
           "keystore", "transport-certificates">>
PublicTLSCalls ==
    IF ~plan.tls THEN <<>>
    ELSE CASE plan.mode = "provided" -> <<"provided-secrets">>
           [] plan.mode = "acme" -> LetsEncryptCalls \o InternalTLSCalls
           [] plan.mode = "issuer" -> ExistingIssuerCalls \o InternalTLSCalls
           [] OTHER -> PrivateCACalls \o InternalTLSCalls

(* The workload issuer is judged before anything can make the bundled root.     *)
setupTLSStep ==
    /\ AtCall("tls")
    /\ IF ~validateProductionWorkloadIssuer THEN Stop
       ELSE IF PublicTLSCalls \o TransportCalls = <<>> THEN Proceed ELSE Expand(PublicTLSCalls \o TransportCalls)
    /\ UNCHANGED <<live, trustVars>>

setupTLSProvidedSecrets ==
    /\ AtCall("provided-secrets")
    /\ Require({"registry-tls", "platform-tls"} \cup (IF plan.auth /\ ~plan.test THEN {"auth-tls"} ELSE {})
               \subseteq live \cup (IF plan.external THEN {"registry-tls"} ELSE {}))
    /\ UNCHANGED <<live, trustVars>>
ValidateACMEHosts == AtCall("acme-hosts") /\ Require(plan.host # "dev") /\ UNCHANGED <<live, trustVars>>

ensureCertManagerInstalled ==
    /\ AtCall("cert-manager")
    /\ IF plan.install THEN Applies({"cert-manager"}) ELSE Require("cert-manager" \in live) /\ UNCHANGED live
    /\ UNCHANGED trustVars
(* The private-CA mode only looks; it does not install.                          *)
checkCertManagerInstalled ==
    AtCall("cert-manager-present") /\ Require("cert-manager" \in live) /\ UNCHANGED <<live, trustVars>>
checkNamedClusterIssuer ==
    /\ AtCall("named-issuer") /\ Require({"named-issuer", "named-acme-issuer"} \cap live # {}) /\ UNCHANGED <<live, trustVars>>
(* Waits for the Traefik it finds; a cluster without one is not waited for.     *)
waitForTraefik == AtCall("traefik-ready") /\ Proceed /\ UNCHANGED <<live, trustVars>>
applyLetsEncryptIssuer == AtCall("acme-issuer") /\ Applies({"letsencrypt"}) /\ UNCHANGED trustVars
ensureRegistryNamespace ==
    /\ AtCall("registry-namespace")
    /\ IF "namespace" \notin stuck THEN Applies({"registry-ns"}) ELSE Stop /\ UNCHANGED live
    /\ UNCHANGED trustVars
applyACMEPolicy == AtCall("acme-policy") /\ Applies({"acme-policy"}) /\ UNCHANGED trustVars
ensureRegistryCertificateOwnership == AtCall("ownership") /\ Require("owners" \notin stuck) /\ UNCHANGED <<live, trustVars>>
applyRegistryCertificate ==
    /\ AtCall("certificate") /\ Applies({"registry-certificate", "registry-tls"})
    /\ certHost' = plan.host /\ UNCHANGED <<root, rootVars, workload, transport>>
setupMCPAuthTLS == AtCall("auth-certificate") /\ Applies({"auth-certificate", "auth-tls"}) /\ UNCHANGED trustVars

setupTLSPrivateCA ==
    /\ AtCall("private-ca")
    /\ IF plan.https THEN Proceed /\ ensureCASecret ELSE Require(root # 0) /\ UNCHANGED <<root, minted>>
    /\ UNCHANGED <<live, issuer, published, signed, certVars>>
(* The shipped manifest replaces whatever signer the issuer had.                *)
applyBundledIssuer ==
    AtCall("bundled-issuer") /\ Proceed /\ issuer' = "bundled" /\ UNCHANGED <<live, root, minted, published, signed, certVars>>

bundledRegistryInternalIssuer == plan.mode # "issuer" \/ "named-issuer" \notin live       \* an ACME issuer cannot sign internal names
setupInternalTLS ==
    /\ AtCall("internal-tls")
    /\ Expand(IF bundledRegistryInternalIssuer THEN <<"internal-ca", "bundled-issuer", "internal-certificate">>
              ELSE <<"internal-certificate">>)
    /\ UNCHANGED <<live, trustVars>>
ensureInternalCA ==
    AtCall("internal-ca") /\ Proceed /\ ensureCASecret /\ UNCHANGED <<live, issuer, published, signed, certVars>>
setupInternalCertificate == AtCall("internal-certificate") /\ Applies({"internal-tls"}) /\ UNCHANGED trustVars

------------------------------------------------------------------------------
(* The transport of Kafka, ClickHouse and the services around them.             *)
LostRoot == root = 0 /\ issuer # "none"
prepareTransportRoot ==
    /\ AtCall("transport-root")
    /\ IF transport = "plain" \/ LostRoot THEN Stop /\ UNCHANGED <<root, minted>> ELSE Proceed /\ ensureCASecret
    /\ UNCHANGED <<live, issuer, published, signed, certVars>>
prepareTransportIssuer ==
    /\ AtCall("transport-issuer")
    /\ IF issuer = "other" THEN Stop /\ UNCHANGED issuer ELSE Proceed /\ issuer' = "bundled"
    /\ UNCHANGED <<live, root, minted, published, signed, certVars>>
publishAnalyticsPublicCA(n) ==
    /\ AtCall(PublishCall[n]) /\ Proceed
    /\ published' = [published EXCEPT ![n] = root]
    /\ UNCHANGED <<live, root, minted, issuer, signed, certVars>>
ensureAnalyticsKeystorePassword == AtCall("keystore") /\ Applies({"keystore"}) /\ UNCHANGED trustVars
(* cert-manager signs a Certificate it has not signed yet; one whose spec did not change keeps its old signature. *)
ensureAnalyticsCertificates ==
    /\ AtCall("transport-certificates") /\ Applies({"transport-certificates"})
    /\ signed' = (IF signed = 0 THEN root ELSE signed)
    /\ UNCHANGED <<root, minted, issuer, published, certVars>>

------------------------------------------------------------------------------
(* The workload issuer: test mode makes the bundled root, production never does. *)
setupWorkloadPKI ==
    /\ AtCall("workload-pki")
    /\ IF validateProductionWorkloadIssuer
       THEN Expand(<<"cert-manager">> \o (IF plan.workload = "managed" THEN <<"managed-ca", "managed-issuer">> ELSE <<"workload-issuer">>))
       ELSE Stop
    /\ UNCHANGED <<live, trustVars>>
ensureManagedWorkloadCA ==
    AtCall("managed-ca") /\ Proceed /\ ensureCASecret /\ UNCHANGED <<live, issuer, published, signed, certVars>>
(* An issuer that is already there is reused, whatever it signs with.           *)
ensureManagedIssuer ==
    /\ AtCall("managed-issuer") /\ Proceed
    /\ issuer' = (IF issuer = "none" THEN "bundled" ELSE issuer)
    /\ UNCHANGED <<live, root, minted, published, signed, certVars>>
checkWorkloadIssuer == AtCall("workload-issuer") /\ Require(workload # "missing") /\ UNCHANGED <<live, trustVars>>

TrustNext ==
    \/ setupTLSStep \/ setupTLSProvidedSecrets \/ ValidateACMEHosts \/ ensureCertManagerInstalled \/ checkCertManagerInstalled
    \/ checkNamedClusterIssuer \/ waitForTraefik \/ applyLetsEncryptIssuer \/ ensureRegistryNamespace \/ applyACMEPolicy
    \/ ensureRegistryCertificateOwnership \/ applyRegistryCertificate \/ setupMCPAuthTLS
    \/ setupTLSPrivateCA \/ applyBundledIssuer \/ setupInternalTLS \/ ensureInternalCA \/ setupInternalCertificate
    \/ prepareTransportRoot \/ prepareTransportIssuer \/ \E n \in TrustNamespaces : publishAnalyticsPublicCA(n)
    \/ ensureAnalyticsKeystorePassword \/ ensureAnalyticsCertificates
    \/ setupWorkloadPKI \/ ensureManagedWorkloadCA \/ ensureManagedIssuer \/ checkWorkloadIssuer

------------------------------------------------------------------------------
(* Between two runs the root's Secret is lost or restored from its backup, and an *)
(* administrator deletes the Certificate preflight complains about.               *)
LoseRoot ==
    /\ outcome # "running" /\ root # 0 /\ Disturb
    /\ root' = 0
    /\ UNCHANGED <<plan, todo, outcome, runs, live, stuck, minted, issuer, published, signed, certVars>>
RestoreRoot ==
    /\ outcome # "running" /\ root = 0 /\ minted # 0 /\ root' = minted /\ UNCHANGED <<baseVars, rootVars, certVars>>
DeleteCertificate ==
    /\ outcome # "running" /\ Disturb /\ certHost # "none" /\ certHost' = "none" /\ live' = live \ {"registry-certificate"}
    /\ UNCHANGED <<plan, todo, outcome, runs, stuck, root, rootVars, workload, transport>>
(* cert-manager renews what it signed, with the root there is by then.            *)
RenewCertificates ==
    /\ signed # 0 /\ root \notin {0, signed} /\ issuer = "bundled" /\ signed' = root
    /\ UNCHANGED <<baseVars, root, minted, issuer, published, certVars>>
TrustEnvironment == LoseRoot \/ RestoreRoot \/ DeleteCertificate \/ RenewCertificates

TrustTypeOK ==
    /\ root \in 0..minted /\ issuer \in {"none", "bundled", "other"}
    /\ published \in [TrustNamespaces -> 0..minted] /\ signed \in 0..minted
    /\ transport \in {"none", "plain", "tls"} /\ certHost \in {"none", "public", "moved", "dev"}

------------------------------------------------------------------------------
(* When setup has the transport certificates signed, everyone who will verify     *)
(* them already holds the very root that signs, also when the runs before ended   *)
(* anywhere; and that stays so for as long as no other root is made               *)
(* (analytics_transport_pki.go publishes first and signs last).                   *)
HoldRoot(r) == \A n \in TrustNamespaces : published[n] = r
TrustBeforeUse ==
    /\ [][signed = 0 /\ signed' # 0 => HoldRoot(signed')]_trustVars
    /\ [](signed # 0 /\ minted = 1 => HoldRoot(signed))
(* A root that has signed something is never replaced by the analytics step: a    *)
(* run that finds the issuer without its Secret stops (prepareAnalyticsTransport- *)
(* PKI); only the bundled registry's own TLS makes another one.                   *)
SignedRootKept == [][minted' # minted /\ signed # 0 => plan.https \/ plan.test]_<<trustVars, plan>>
(* "Setup will not rewrite a running quorum's transport": a plaintext Kafka is    *)
(* never turned into a TLS one, in any number of runs.                            *)
QuorumKept == [][transport = "plain" => transport' = "plain"]_transport
=============================================================================
