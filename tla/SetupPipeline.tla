--------------------------- MODULE SetupPipeline ----------------------------
(* `mcp-runtime setup` as a whole: preflight, then the steps of             *)
(* SetupTrust, SetupRegistry, SetupOperator and the platform stack over one  *)
(* cluster, with runs that end half way, reruns under the same or another    *)
(* plan, `registry enable-auth` and `cluster operator-rbac apply` in         *)
(* between, and teams that deploy meanwhile.                                 *)
EXTENDS SetupOperator
-----------------------------------------------------------------------------
(* The platform stack's part of setup: configuration, credentials, Kafka and *)
(* ClickHouse, the services with the database behind them, and tenant access *)
(* to Grafana, which is switched on last and only behind an enforced network *)
(* policy.                                                                   *)

VARIABLES
    db,             \* the version of the password the database was made with or given, 0 while there is none
    capable,        \* the cluster's network plugin enforces the policies tenant Grafana needs
    policy,         \* the policy around the telemetry stores is applied
    scoped,         \* GRAFANA_SCOPED_USER_ACCESS in the shared ConfigMap
    served,         \* what runtime-api's pods were started with
    job             \* clickhouse-init: "none", "failed" or "complete"

analyticsVars == <<db, capable, policy, scoped, served, job>>
grafanaVars == <<capable, policy, scoped, served>>
platform == <<below, operatorVars>>
AnalyticsInit == db = 0 /\ capable \in BOOLEAN /\ policy = FALSE /\ scoped = FALSE /\ served = FALSE /\ job = "none"

------------------------------------------------------------------------------
deployAnalyticsManifests ==
    /\ AtCall("analytics-deploy")
    /\ Expand(<<"platform-namespaces", "middlewares", "remove-oauth", "platform-config">> \o Calls(<< <<plan.catalog, "catalog-namespace">> >>)
              \o <<"credentials", "platform-pull-secret", "operator-pull-secret", "sync-postgres", "kraft", "kafka-policy", "messaging",
                   "topics", "clickhouse-init", "history-trust", "services", "egress", "platform-ingress", "rollouts", "scoped-grafana">>)
    /\ UNCHANGED <<live, platform, analyticsVars>>
removeBundledOAuthServer ==
    /\ AtCall("remove-oauth") /\ Proceed /\ live' = live \ {"old-oauth-server"} /\ UNCHANGED <<platform, analyticsVars>>
(* Values that are there are kept, except that tenant Grafana is off until the end of the run. *)
renderAnalyticsConfigManifest ==
    /\ AtCall("platform-config") /\ Applies({"platform-config"}) /\ scoped' = FALSE
    /\ UNCHANGED <<platform, db, capable, policy, served, job>>
(* The running database is told the password of its Secret; a failure is only a warning. *)
syncPostgresPassword ==
    /\ AtCall("sync-postgres") /\ Proceed /\ db' \in {db} \cup (IF db # 0 THEN {password} ELSE {})
    /\ UNCHANGED <<live, platform, grafanaVars, job>>

(* A Kafka of the old layout is deleted, its volumes stay; one with other replicas is refused. *)
reconcileKafkaStatefulSetForKRaftUpgrade ==
    /\ AtCall("kraft")
    /\ IF "replicated-kafka" \in live THEN Stop /\ UNCHANGED live ELSE Proceed /\ live' = live \ {"legacy-kafka"}
    /\ UNCHANGED <<platform, analyticsVars>>
applyKafkaPolicy == AtCall("kafka-policy") /\ Applies({"kafka-policy"}) /\ UNCHANGED <<platform, analyticsVars>>
renderAnalyticsTransportManifest == IF plan.test THEN "plain" ELSE "tls"
(* Setup never deletes Kafka's volume: a cluster ID that does not match ends the run. *)
applyMessaging ==
    /\ AtCall("messaging")
    /\ transport' = renderAnalyticsTransportManifest
    /\ IF "foreign-kafka-volume" \in live THEN Stop /\ live' = live \cup {"kafka", "clickhouse"} ELSE Applies({"kafka", "clickhouse"})
    /\ UNCHANGED <<root, rootVars, workload, certHost, registryVars, operatorVars, analyticsVars>>
initializeKafkaTopics == AtCall("topics") /\ Applies({"topics"}) /\ UNCHANGED <<platform, analyticsVars>>
(* The job of the run before is deleted first.                                  *)
InitializeClickHouse ==
    /\ AtCall("clickhouse-init")
    /\ job' \in {"complete", "failed"}
    /\ IF job' = "complete" THEN Proceed ELSE Stop
    /\ UNCHANGED <<live, platform, db, grafanaVars>>
provisionResourceHistoryTrust == AtCall("history-trust") /\ Applies({"history-trust"}) /\ UNCHANGED <<platform, analyticsVars>>
(* Pods whose Secrets or configuration changed are restarted, the database is made with the password of its Secret, *)
(* and what activation put on the two APIs is carried over into the applied manifests.                            *)
stampDependencyRevisions == keys
preserveNativePlatformManifest == [signs |-> broker, native |-> runtimeNative]
applyAnalyticsServices ==
    /\ AtCall("services") /\ Applies({"services"})
    /\ podKeys' = stampDependencyRevisions /\ broker' = preserveNativePlatformManifest.signs /\ runtimeNative' = preserveNativePlatformManifest.native
    /\ db' = (IF db = 0 THEN password ELSE db)
    /\ policy' = (policy \/ capable) /\ served' = scoped
    /\ UNCHANGED <<trustVars, command, token, nodePort, ingressVars, keys, uiKey, lastKey, dsn, password, pullVars,
                   signer, rotation, journal, publisher, operatorVars, capable, scoped, job>>
ensureRuntimeKubernetesAPIEgress == AtCall("egress") /\ Applies({"egress"}) /\ UNCHANGED <<platform, analyticsVars>>
applyPlatformIngressIfConfigured ==
    AtCall("platform-ingress") /\ (IF plan.host = "dev" THEN Proceed /\ UNCHANGED live ELSE Applies({"platform-ingress"})) /\ UNCHANGED <<platform, analyticsVars>>
(* platform-api becomes ready only when its DSN opens the database.             *)
waitForAnalyticsTargets ==
    /\ AtCall("rollouts")
    /\ IF dsn = db THEN Applies({"platform-api"}) ELSE Stop /\ UNCHANGED live
    /\ UNCHANGED <<platform, analyticsVars>>
verifyScopedTelemetryPolicy == policy
scopedGrafanaPolicyCapability == capable        \* asked again at the end of the run
enableScopedGrafana ==
    /\ AtCall("scoped-grafana")
    /\ IF ~scopedGrafanaPolicyCapability THEN Proceed /\ UNCHANGED <<scoped, served>>
       ELSE IF ~verifyScopedTelemetryPolicy THEN Stop /\ UNCHANGED <<scoped, served>>
       ELSE Proceed /\ scoped' = TRUE /\ served' = TRUE
    /\ UNCHANGED <<live, platform, db, capable, policy, job>>

AnalyticsNext ==
    \/ deployAnalyticsManifests \/ removeBundledOAuthServer \/ renderAnalyticsConfigManifest \/ syncPostgresPassword
    \/ reconcileKafkaStatefulSetForKRaftUpgrade \/ applyKafkaPolicy \/ applyMessaging \/ initializeKafkaTopics \/ InitializeClickHouse
    \/ provisionResourceHistoryTrust \/ applyAnalyticsServices \/ ensureRuntimeKubernetesAPIEgress \/ applyPlatformIngressIfConfigured
    \/ waitForAnalyticsTargets \/ enableScopedGrafana

(* Between two runs the cluster gets another network plugin.                    *)
ChangeNetworkPlugin ==
    /\ outcome # "running" /\ runs < MaxRuns /\ Disturb /\ capable' = ~capable
    /\ UNCHANGED <<plan, todo, outcome, runs, live, stuck, platform, db, policy, scoped, served, job>>

AnalyticsTypeOK == db \in 0..password /\ job \in {"none", "failed", "complete"} /\ {policy, scoped, served, capable} \subseteq BOOLEAN

------------------------------------------------------------------------------
(* A rerun keeps every credential it finds: passwords never change, and the UI's *)
(* key only when a rotation replaces it (renderCredentialBundleClientGo).        *)
CredentialsStable ==
    [][/\ dsn # 0 => dsn' = dsn
       /\ password # 0 => password' = password
       /\ uiKey # NoSecret /\ uiKey' # uiKey => uiKey \in DOMAIN rotation]_keyVars
(* Tenants reach Grafana only behind the telemetry policy, and when setup succeeds *)
(* they do exactly if the cluster enforces it, also after the plugin was changed.  *)
ScopedGrafana == [][(served' => policy') /\ (SetupDone' /\ ~SetupDone /\ plan.analytics => served' = capable)]_<<outcome, grafanaVars>>

-----------------------------------------------------------------------------
(* The whole of setup                                                          *)

setupVars == <<baseVars, trustVars, registryVars, operatorVars, analyticsVars>>

------------------------------------------------------------------------------
(* What preflight finds, each check of the live cluster against the plan p:     *)
(* problems that end the run, and warnings about what the run will put right.   *)
checkClusterIdentity == "identity" \in stuck                   \* --expect-cluster-id names another cluster
checkExistingMCPAuthRetained(p) == ~p.test /\ "mcp-auth" \in live /\ (~p.auth \/ "auth-image" \in stuck)
checkTerminatingNamespaces == "namespace" \in stuck
checkTerminatingCRD == "crd" \in stuck
checkStuckRegistryPVC == "pvc" \in stuck
checkRegistryHostForTLS(p) == p.tls /\ ~p.test /\ p.host = "dev"
checkStaleRegistryCertificate(p) == p.tls /\ p.mode # "provided" /\ ~p.test /\ certHost \notin {"none", p.host}
checkCertManagerCRDs(p) ==
    ((p.tls /\ p.mode # "provided") \/ (~p.tls /\ p.workload # "none")) /\ ~p.install /\ "cert-manager" \notin live
checkClusterIssuerExists(p) ==
    \/ p.tls /\ p.mode = "issuer" /\ {"named-issuer", "named-acme-issuer"} \cap live = {}
    \/ p.workload = "dedicated" /\ workload = "missing"
checkConflictingSecretOwners(p) == p.tls /\ p.mode # "provided" /\ "owners" \in stuck
Fatal(p) ==
    \/ checkClusterIdentity \/ checkExistingMCPAuthRetained(p) \/ checkTerminatingNamespaces \/ checkTerminatingCRD
    \/ checkStuckRegistryPVC \/ checkRegistryHostForTLS(p) \/ checkStaleRegistryCertificate(p) \/ checkCertManagerCRDs(p)
    \/ checkClusterIssuerExists(p) \/ checkConflictingSecretOwners(p)

checkStuckDeployments == "pods" \in stuck                      \* the operator's or the registry's
checkStaleRegistryIngress(p) == ~p.test /\ ingressHost \notin {"none", p.host}
checkOrphanedRegistryTLSSecret(p) ==
    p.tls /\ p.mode # "provided" /\ ~p.test /\ "registry-tls" \in live /\ "registry-certificate" \notin live
checkFailedCertificateRequests(p) == p.tls /\ p.mode # "provided" /\ "requests" \in stuck
checkStaleAnalyticsJob == job = "failed"
checkStalePullSecrets == \E n \in {"platform", "operator"} : pull[n] > ScopedCredential /\ n \notin labelled /\ pull[n] # uiKey
checkPostgresPasswordSync == db # 0 /\ dsn # 0 /\ dsn # db
checkStuckAnalyticsStatefulSets == "statefulsets" \in stuck
Warnings(p) ==
    LET found == [pods |-> checkStuckDeployments, ingress |-> checkStaleRegistryIngress(p), orphan |-> checkOrphanedRegistryTLSSecret(p),
                  requests |-> checkFailedCertificateRequests(p), job |-> p.analytics /\ checkStaleAnalyticsJob,
                  pull |-> p.analytics /\ checkStalePullSecrets, password |-> p.analytics /\ checkPostgresPasswordSync,
                  statefulsets |-> p.analytics /\ checkStuckAnalyticsStatefulSets]
    IN  {w \in DOMAIN found : found[w]}

preflight == AtCall("preflight") /\ Require(~Fatal(plan)) /\ UNCHANGED <<live, trustVars, registryVars, operatorVars, analyticsVars>>

(* A run starts: flags and environment are judged, then the steps are built.    *)
StartSetup(p) ==
    /\ outcome # "running" /\ runs < MaxRuns /\ Admitted(p)
    /\ plan' = p /\ todo' = buildSetupSteps(p) /\ outcome' = "running" /\ runs' = runs + 1
    /\ command' = "setup" /\ bootActive' = FALSE
    /\ UNCHANGED <<live, stuck, events, trustVars, token, nodePort, guard, ingressHost, bootstrap, keyVars, pullVars, nativeVars, operatorVars, analyticsVars>>
(* A run that ends takes what it kept in memory with it.                         *)
InterruptRun ==
    /\ Interrupt /\ rotation' = NoJournal /\ bootActive' = FALSE
    /\ UNCHANGED <<trustVars, command, token, nodePort, guard, ingressHost, bootstrap, keyVars, pullVars,
                   signer, broker, runtimeNative, journal, publisher, operatorVars, analyticsVars>>

SetupSteps ==
    \/ preflight
    \/ BaseNext /\ UNCHANGED <<trustVars, registryVars, operatorVars, analyticsVars>>
    \/ TrustNext /\ UNCHANGED <<registryVars, operatorVars, analyticsVars>>
    \/ RegistryNext /\ UNCHANGED <<operatorVars, analyticsVars>>
    \/ OperatorNext /\ UNCHANGED analyticsVars
    \/ AnalyticsNext
SetupCommands ==
    \/ \E p \in Plans : StartSetup(p)
    \/ enableNativeAuth /\ UNCHANGED <<operatorVars, analyticsVars>>
    \/ reconcileOperatorRBAC /\ UNCHANGED analyticsVars
SetupEnvironment ==
    \/ InterruptRun
    \/ ((\E b \in Blockers : GetStuck(b)) \/ Unstick \/ PodsRecover) /\ UNCHANGED <<trustVars, registryVars, operatorVars, analyticsVars>>
    \/ TrustEnvironment /\ UNCHANGED <<registryVars, operatorVars, analyticsVars>>
    \/ ensureNamespaceRegistryPullSecret /\ UNCHANGED <<operatorVars, analyticsVars>>
    \/ (\E n \in ServerNamespaces : ProvisionNamespace(n) \/ DeployUnprovisioned(n)) /\ UNCHANGED analyticsVars
    \/ ChangeNetworkPlugin
SetupInit(clusters) ==
    /\ plan = CHOOSE p \in Plans : TRUE
    /\ todo = <<>> /\ outcome = "idle" /\ runs = 0 /\ live \in clusters /\ stuck = {} /\ events = 0
    /\ TrustInit /\ RegistryInit /\ OperatorInit /\ AnalyticsInit
SetupNext == SetupSteps \/ SetupCommands \/ SetupEnvironment

SetupTypeOK == BaseTypeOK /\ TrustTypeOK /\ RegistryTypeOK /\ OperatorTypeOK /\ AnalyticsTypeOK
(* When setup has succeeded, its own preflight for the same plan finds no blocker *)
(* and, whatever earlier runs under other plans left behind, warns of nothing but  *)
(* what this run does not touch: failed CertificateRequests, and, when the plan     *)
(* has an external registry or no public host, the host of the Ingress that a run  *)
(* with one made (of which the warning says "setup will overwrite it").            *)
LeavesAlone(p) == {"requests"} \cup (IF p.external \/ p.host = "dev" THEN {"ingress"} ELSE {})
PreflightClean == [][SetupDone' /\ ~SetupDone => (~Fatal(plan) /\ Warnings(plan) \subseteq LeavesAlone(plan))']_setupVars
(* The registry can be used after every run of setup, whichever call ended   *)
(* the runs before: its route resolves, its nodes and its copies of keys are *)
(* ready before tokens are asked for, that is never undone, no credential    *)
(* changes under its users, and a success leaves preflight only what it does *)
(* not touch.                                                                *)
RegistryUsable ==
    /\ [](SetupTypeOK /\ GuardResolves /\ PullersFirst /\ CopiesAgree /\ AuthenticatedEnd)
    /\ TokenNeverOff /\ JournalOutlivesKeys /\ CredentialsStable /\ PreflightClean
(* Services are trusted before they are relied on, in every run and between  *)
(* runs: webhook, authorization server and transport roots come first,       *)
(* access is replaced before it is taken away, and signed roots, quorums and *)
(* the scope of Grafana stay as they are.                                    *)
ServicesTrusted ==
    /\ [](WebhookTrusted /\ AuthWired)
    /\ TrustBeforeUse /\ SecretAccessKept /\ SignedRootKept /\ QuorumKept /\ ScopedGrafana
=============================================================================
