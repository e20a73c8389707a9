------------------------------- MODULE Doctor -------------------------------
(* A run of the doctor: the checks of its suite one after the other.  Some   *)
(* checks start helper pods, one applies an MCPServer and watches the        *)
(* operator reconcile it; both clean up after themselves, whatever the       *)
(* verdict, and nothing tells them if that fails.                            *)
EXTENDS Naturals, Sequences, FiniteSets
-----------------------------------------------------------------------------
(* The checks of `mcp-runtime cluster doctor`, `cluster diagnostics`, the    *)
(* smoke run at the end of setup and `cluster identity status`: for each,    *)
(* the faults it reports, the part of the installation it presupposes, and   *)
(* what a kubectl call that fails does to its verdict.                       *)
(*                                                                           *)
(* A cluster is [has, bad, distro, traefik, exposure]: the optional parts    *)
(* and settings it has, what is wrong with it, and where its Traefik runs.   *)
(* An error is "gate" (the read that decides whether the check applies),     *)
(* "read" (a later one) or "none".                                           *)

Verdicts == {"ok", "skip", "fail"}
Errors == {"none", "gate", "read"}

Wrong(c, faults) == c.bad \cap faults # {}
Strict(c, e, faults) == IF e # "none" \/ Wrong(c, faults) THEN "fail" ELSE "ok"
Gated(c, e, part, faults) == IF part \notin c.has \/ e = "gate" THEN "skip" ELSE Strict(c, e, faults)
Lenient(c, e, faults) == IF e # "none" THEN "skip" ELSE Strict(c, e, faults)

------------------------------------------------------------------------------
(* The cluster and its nodes                                                   *)
checkClusterNodesReady(c, e) == Strict(c, e, {"node not ready"})
checkNodeCapacity(c, e) ==              \* a failing `top` falls back to the allocatable resources
    IF e = "gate" THEN "ok" ELSE Strict(c, e, {"hot node"})
checkNodeRuntimeHealth(c, e) == Strict(c, e, {"node not ready", "node pressure", "no container runtime"})
checkNodeArchitectureCompatibility(c, e) == Strict(c, e, {"architecture unknown"})
checkRuntimeClassCompatibility(c, e) == \* no classes when they cannot be listed; no servers, nothing to check
    CASE e = "read" \/ Wrong(c, {"no CRD"}) -> "skip"
      [] e = "gate" -> IF "runtime classes" \in c.has THEN "fail" ELSE "ok"
      [] OTHER -> Strict(c, e, {"runtime class missing"})
checkStorageReadiness(c, e) == Strict(c, e, {"no storage class", "claim pending"})
checkStorageClassReadiness(c, e) == Strict(c, e, {"no storage class", "local storage on many nodes"})
checkClusterImageArchitecture(c, e) == Gated(c, e, "image platform", {"architecture mismatch"})
checkPersistentVolumeClaims(c, e) == Strict(c, e, {"claim pending"})

(* A pod that cannot pull stays Pending, and so does a helper pod left behind. *)
checkPendingPodsByNamespace(c, e, left) ==
    IF "pending" \in left THEN "fail"
    ELSE Strict(c, e, {"pod pending", "pull failing", "pull rejected", "pull over http"})

------------------------------------------------------------------------------
(* The server namespace and the operator                                       *)
checkNamespaceExists(c, e) == Strict(c, e, {"no server namespace"})
checkNamespaceDefaultServiceAccount(c, e) == Strict(c, e, {"no server namespace", "no service account"})
checkNamespacePolicyGuardrails(c, e) == Strict(c, e, {})
checkNamespacePodAdmission(c, e) == Strict(c, e, {"no server namespace", "no service account", "admission denied"})
checkMCPServerCRD(c, e) == Strict(c, e, {"no CRD"})
checkOperatorReady(c, e) == Strict(c, e, {"operator down"})
checkOperatorWebhookCertExpiry(c, e) == Strict(c, e, {"webhook certificate expired"})
checkOperatorRegistryEndpoint(c, e) == Strict(c, e, {})
checkOperatorRecentReconcileErrors(c, e) == Strict(c, e, {"reconcile errors"})
checkOperatorEffectivePermissions(c, e) ==
    Strict(c, e, {"permission missing"} \cup (IF "mcp-auth" \in c.has THEN {"auth permission missing"} ELSE {}))
checkOperatorClusterRoleRules(c, e) == Strict(c, e, {"role rule missing"})

------------------------------------------------------------------------------
(* Traefik: k3s runs its own, which is looked at first; everything else, and   *)
(* a k3s without it, is served by the one setup installs.                      *)
doctorTraefikEndpoints(distro) == IF distro = "k3s" THEN <<"bundled", "managed">> ELSE <<"managed">>
Endpoint(c, distro, good) == \E i \in DOMAIN doctorTraefikEndpoints(distro) :
    c.traefik = doctorTraefikEndpoints(distro)[i] /\ good
Traefik(c, e, distro, good) ==          \* with two endpoints, one that cannot be read leaves the other
    IF Endpoint(c, distro, good) /\ (e = "none" \/ (e = "gate" /\ distro = "k3s" /\ c.traefik = "managed")) THEN "ok" ELSE "fail"

checkTraefikIngressClass(c, e) == Strict(c, e, {"no ingress class"})
TraefikReady(c) == ~Wrong(c, {"traefik down"})
checkTraefikDeploymentReady(c, e, distro) == Traefik(c, e, distro, TraefikReady(c))
WebPort(c) == ~Wrong(c, {"no web port"})
checkTraefikWebEntrypoint(c, e, distro) == Traefik(c, e, distro, WebPort(c))
ingressDistroAllowsPortForwardExposure(distro) == distro \in {"kind", "minikube", "docker-desktop"}
Exposed(c, distro) ==                    \* an address, a node port, or on a laptop a port-forward
    \/ c.exposure \in {"address", "nodePort"} /\ ~Wrong(c, {"not exposed"})
    \/ c.exposure = "pending" /\ ingressDistroAllowsPortForwardExposure(distro) /\ TraefikReady(c)
checkTraefikServiceExposure(c, e, distro) == Traefik(c, e, distro, WebPort(c) /\ Exposed(c, distro))
checkIngressLoadBalancerStatus(c, e) ==
    IF "permissive readiness" \in c.has /\ e = "none" THEN "ok" ELSE Strict(c, e, {"ingress pending"})

------------------------------------------------------------------------------
(* Public hosts and certificates, before setup                                 *)
checkPublicIngressHostConfig(c) == IF "public hosts" \in c.has THEN Strict(c, "none", {"hosts incomplete"}) ELSE "skip"
checkPublicIngressDNS(c) == IF "public hosts" \in c.has THEN Strict(c, "none", {"hosts incomplete", "host unresolved"}) ELSE "skip"
checkCertManagerCompatibility(c, e) == IF "tls" \in c.has THEN Strict(c, e, {"cert-manager too old", "cert-manager down"}) ELSE "skip"
checkCertManagerReadiness(c, e) == IF "tls" \in c.has THEN Strict(c, e, {"cert-manager down"}) ELSE "skip"
checkDoctorTLSClusterIssuer(c, e) == IF "issuer" \in c.has THEN Strict(c, e, {"issuer missing"}) ELSE "skip"
checkDoctorACMEHTTP01Exposure(c, e, distro) ==
    IF "acme" \notin c.has THEN "skip"
    ELSE IF Wrong(c, {"web port not 80"}) THEN "fail" ELSE checkTraefikServiceExposure(c, e, distro)

------------------------------------------------------------------------------
(* The registry and image pulls                                                *)
checkRegistryService(c, e) == Strict(c, e, {"no registry service"})
checkRegistryIngressHosts(c, e) ==      \* what the platform's ConfigMap says counts only if it can be read
    CASE e = "gate" -> "fail"
      [] e = "read" -> Strict(c, "none", {"registry rule not certified"})
      [] OTHER -> Strict(c, "none", {"registry rule not certified", "registry host moved"})
checkRegistryServiceIPImageRefs(c, e) == IF e = "gate" THEN "skip" ELSE Strict(c, e, {"no CRD", "service address in image"})
checkMCPServerImagePullSecrets(c, e) == Strict(c, e, {"no CRD", "server pull secret missing"})
checkManagedTeamRegistryPullSecrets(c, e) == Strict(c, e, {"team pull secret missing"})
checkManagedTeamWorkloadServiceAccounts(c, e) == Strict(c, e, {"team account not wired"})
checkMCPServersImagePullSecrets(c, e) == Strict(c, e, {"default pull secret missing"})
PullFaults == {"pull over http", "pull rejected", "pull failing"}
Describing(c, e, faults) ==             \* pods are described one by one only when some cannot pull
    IF e = "read" /\ ~Wrong(c, PullFaults) THEN "ok" ELSE Strict(c, e, faults)
checkRegistryHTTPPullMismatch(c, e) == Describing(c, e, {"pull over http"})
classifyImagePullDiagnostic == {"pull rejected"}       \* TLS, credentials, name or manifest: the causes it can name
checkRegistryImagePullDiagnostics(c, e) == Describing(c, e, classifyImagePullDiagnostic)
checkPlatformPullSecrets(c, e) == Gated(c, e, "registry host", {"platform pull secret missing"})

------------------------------------------------------------------------------
(* The platform services                                                       *)
checkPlatformKafkaReadiness(c, e) == Gated(c, e, "observability", {"kafka down"})
checkPlatformIngestReadiness(c, e) == Gated(c, e, "observability", {"ingest down"})
checkPlatformWorkloadHealth(c, e) == Gated(c, e, "platform", {"platform-api down", "rollout stuck"})
checkPlatformStalePods(c, e, left) ==    \* a finished helper pod is as stale as any other
    IF "platform" \in c.has /\ e = "none" /\ "finished" \in left THEN "fail" ELSE Gated(c, e, "platform", {"stale pod"})
checkPlatformPostgresCredentialDrift(c, e) == Gated(c, e, "platform", {"password drift"})
checkPlatformTelemetryPipeline(c, e) == Gated(c, e, "observability", {"collector down"})
checkPlatformGrafanaProvisioning(c, e) == Gated(c, e, "observability", {"dashboards missing"})
checkPlatformGrafanaAdminCredentials(c, e) ==      \* left to others while Grafana is not ready
    IF Wrong(c, {"grafana down"}) THEN "skip" ELSE Gated(c, e, "observability", {"grafana password"})
checkRuntimeAPIKubernetesAPIEgress(c, e) == Gated(c, e, "platform", {"egress blocked"})
checkPlatformAPILiveInventoryNetworkPolicy(c, e) == Strict(c, e, {"no CRD", "inventory denied"})
checkDNSNetworkPolicyPortability(c, e) == Gated(c, e, "platform", {"dns not allowed"})
checkSessionLocalDeploymentScaling(c, e) == Gated(c, e, "platform", {"sessions in memory"})
checkPlatformSecrets(c, e) == Gated(c, e, "platform", {"api key missing"})
checkPlatformSecretConsumerFreshness(c, e) == Gated(c, e, "platform", {"secret newer than pods"})
checkPlatformOIDCConfiguration(c, e) ==
    IF "platform" \notin c.has THEN "skip"
    ELSE IF "test mode" \in c.has THEN "ok" ELSE Lenient(c, e, {"no login provider"})
checkIngestServiceAccountAuth(c, e) == Gated(c, e, "observability", {"ingest cannot review"})
checkGatewayAnalyticsCredentials(c, e) == Strict(c, e, {"gateway token missing"})
checkGatewayAnalyticsDelivery(c, e) == IF e = "read" THEN "ok" ELSE Strict(c, e, {"events rejected"})
checkMCPAuthDeployment(c, e) == IF e = "gate" THEN "fail" ELSE Gated(c, e, "mcp-auth", {"auth server down"})
checkMCPAuthSecrets(c, e) ==
    IF "test mode" \in c.has THEN "skip" ELSE Gated(c, e, "mcp-auth", {"auth key missing"})
checkMCPServerTraefikEgress(c, e) == IF Wrong(c, {"no CRD"}) THEN "skip" ELSE Lenient(c, e, {"server egress not ready"})
CheckWorkloadIdentity(c, e) ==
    IF "adapter certificates" \notin c.has THEN Strict(c, e, {"issuers differ"})
    ELSE Strict(c, e, {"issuers differ", "workload issuer not ready", "workload authority missing", "workload authority expiring",
                       "route does not verify", "route trusts another authority"})

------------------------------------------------------------------------------
(* Checks that run a helper pod: what they read first, and whether the pod, if  *)
(* it runs to its end, gets the answer the check wants.                         *)
checkRegistryReachableFromCluster(c) == ~Wrong(c, {"registry down", "no registry service"})     \* a token challenge will do
RegistryAnswers(c) ==       \* ...but not here, where only 200 will, unless the connection is refused altogether
    ~Wrong(c, {"registry down", "no registry service"}) /\ "native registry" \notin c.has
\* Mutant: a failure to resolve the name is taken for the policy's refusal.
MutDeniedByPolicy(c) == "registry policy" \in c.has \/ Wrong(c, {"registry down", "dns broken"})
registryDeniedByPolicy(c) == ~Wrong(c, {"dns broken"}) /\ ("registry policy" \in c.has \/ Wrong(c, {"registry down"}))
checkMCPServersDNSAndNetwork(c) == registryDeniedByPolicy(c) \/ (~Wrong(c, {"dns broken"}) /\ RegistryAnswers(c))
checkIngressRouteProbe(c) == ~Wrong(c, {"route not served"})
checkMCPServersImagePullSmoke(c) == ~Wrong(c, {"smoke image unpullable"})
checkPlatformServiceHealthReadiness(c, unhealthy) == ~Wrong(c, {unhealthy})
runPlatformAuthenticatedProbe(c) == ~Wrong(c, {"key rejected", "catalog failing"})
checkPlatformAPIAuthProbe(c) == ~Wrong(c, {"key rejected"})
checkRuntimeAPIImageDisplayRefs(c) == ~Wrong(c, {"internal image shown"})

-----------------------------------------------------------------------------
(* The runs                                                                    *)

CONSTANTS
    Clusters,       \* the clusters the doctor may be run on, healthy
    Faults,         \* what may be wrong with them
    LateFaults,     \* those that may also appear during a run
    MaxTrouble      \* bound: faults and failing kubectl calls in a behaviour

VARIABLES
    docCluster,     \* the cluster, with what is wrong with it now
    docSuite,       \* "doctor", "diagnostics", "smoke" or "identity"
    docDistro,      \* the distribution the doctor thinks it is on
    docAt,          \* the check it is at
    docStage,       \* where in that check
    docRound,       \* helper pods the check has finished with
    docVerdict,     \* the verdict so far
    docOK,          \* no check has failed
    docPod,         \* the helper pod: "none", "pending" or "finished"
    docLeft,        \* helper pods left behind: <<namespace, phase>>
    docSmoke,       \* the objects of the smoke server
    docPass,        \* what the operator still creates in its current pass
    docLasting,     \* the faults that were there from the start
    docTrouble,     \* faults and failed calls so far
    docUndeleted    \* a deletion failed

docVars == <<docCluster, docSuite, docDistro, docAt, docStage, docRound, docVerdict, docOK, docPod, docLeft,
             docSmoke, docPass, docLasting, docTrouble, docUndeleted>>
probeVars == <<docPod, docLeft, docSmoke, docPass, docUndeleted>>

Suites == {"doctor", "diagnostics", "smoke", "identity"}
Stages == {"detect", "check", "create", "wait", "logs", "delete", "apply", "deployment", "running", "service", "route",
           "delete server", "delete deployment", "delete service", "delete route", "delete traefik route", "done"}
SmokeObjects == {"server", "deployment", "service", "route"}

(* The specs of a suite.  A check that reads only has its verdict; one that runs *)
(* helper pods has the verdict of what it reads first, how many pods it runs one *)
(* after the other, in which namespace, and whether they get a good answer.      *)
Read(verdict) == [before |-> verdict, pods |-> 0, ns |-> "none", answer |-> TRUE]
Probe(verdict, n, ns, answer) == [before |-> verdict, pods |-> n, ns |-> ns, answer |-> answer]
LeftPhases(left) == {l[2] : l \in left}
InPlatform(left) == {l \in left : l[1] = "platform"}

RouteProbe(c, e, d) ==
    Probe(IF "servers" \notin c.has \/ e = "gate" THEN "skip"
          ELSE IF "tls route" \in c.has /\ Wrong(c, {"no secure port"}) THEN "fail" ELSE checkTraefikWebEntrypoint(c, e, d),
          1, "servers", checkIngressRouteProbe(c))
HealthProbe(c, e, part, down, unhealthy) ==
    Probe(Gated(c, e, part, {down}), 2, "platform", checkPlatformServiceHealthReadiness(c, unhealthy))

doctorCheckSpecs(c, e, d, left) == <<
    Read(checkClusterNodesReady(c, e)), Read(checkNamespaceExists(c, e)), Read(checkNamespaceDefaultServiceAccount(c, e)),
    Read(checkNamespacePolicyGuardrails(c, e)), Read(checkNamespacePodAdmission(c, e)), Read(checkMCPServerCRD(c, e)),
    Read(checkOperatorReady(c, e)), Read(checkOperatorWebhookCertExpiry(c, e)), Read(checkOperatorRegistryEndpoint(c, e)),
    Read(checkOperatorRecentReconcileErrors(c, e)), Read(checkOperatorEffectivePermissions(c, e)),
    Read(checkOperatorClusterRoleRules(c, e)), Read(checkTraefikIngressClass(c, e)), Read(checkTraefikDeploymentReady(c, e, d)),
    Read(checkTraefikWebEntrypoint(c, e, d)), Read(checkTraefikServiceExposure(c, e, d)), Read(checkIngressLoadBalancerStatus(c, e)),
    Read(checkPlatformAPILiveInventoryNetworkPolicy(c, e)),
    Probe("ok", 1, "servers", checkMCPServersDNSAndNetwork(c)), RouteProbe(c, e, d),
    Read(checkRegistryService(c, e)), Read(checkRegistryIngressHosts(c, e)),
    Probe("ok", 1, "registry", checkRegistryReachableFromCluster(c)),
    Read(checkRegistryServiceIPImageRefs(c, e)), Read(checkMCPServerImagePullSecrets(c, e)),
    Read(checkManagedTeamRegistryPullSecrets(c, e)), Read(checkManagedTeamWorkloadServiceAccounts(c, e)),
    Read(checkMCPServersImagePullSecrets(c, e)), Probe("ok", 1, "servers", checkMCPServersImagePullSmoke(c)),
    Read(checkRegistryHTTPPullMismatch(c, e)), Read(checkRegistryImagePullDiagnostics(c, e)),
    Read(checkPlatformKafkaReadiness(c, e)), Read(checkPlatformIngestReadiness(c, e)),
    HealthProbe(c, e, "platform", "platform-api down", "platform-api unhealthy"), Read(checkPlatformWorkloadHealth(c, e)),
    Read(checkPlatformStalePods(c, e, LeftPhases(InPlatform(left)))),
    Read(checkPlatformPostgresCredentialDrift(c, e)), HealthProbe(c, e, "observability", "analytics-api down", "analytics-api unhealthy"),
    Read(checkPlatformTelemetryPipeline(c, e)), Read(checkPlatformGrafanaProvisioning(c, e)), Read(checkPersistentVolumeClaims(c, e)),
    Read(checkRuntimeAPIKubernetesAPIEgress(c, e)), Read(checkClusterImageArchitecture(c, e)), Read(checkDNSNetworkPolicyPortability(c, e)),
    Read(checkStorageClassReadiness(c, e)), Read(checkSessionLocalDeploymentScaling(c, e)), Read(checkPlatformSecrets(c, e)),
    Read(checkPlatformSecretConsumerFreshness(c, e)), Read(checkPlatformOIDCConfiguration(c, e)), Read(checkIngestServiceAccountAuth(c, e)),
    Read(checkGatewayAnalyticsCredentials(c, e)), Read(checkGatewayAnalyticsDelivery(c, e)),
    Probe(Gated(c, e, "platform", {"api key missing"}), 1, "platform", checkPlatformAPIAuthProbe(c)),
    Probe(Gated(c, e, "platform", {"api key missing"}), 2, "platform", runPlatformAuthenticatedProbe(c)),
    Read(checkMCPAuthDeployment(c, e)), Read(checkMCPAuthSecrets(c, e)),
    Probe(Gated(c, e, "platform", {"api key missing"}), 1, "platform", checkRuntimeAPIImageDisplayRefs(c)),
    Read(checkNodeCapacity(c, e)), Read(checkNodeRuntimeHealth(c, e)), Read(checkNodeArchitectureCompatibility(c, e)),
    Read(checkRuntimeClassCompatibility(c, e)), Read(checkMCPServerTraefikEgress(c, e)), Read(checkStorageReadiness(c, e)),
    Read(checkPendingPodsByNamespace(c, e, LeftPhases(left))), Probe("ok", 0, "smoke", TRUE),
    Read(checkPlatformPullSecrets(c, e)), Read(checkPlatformGrafanaAdminCredentials(c, e)) >>

doctorSetupCheckSpecs(c, e, d) == <<
    Read(checkClusterNodesReady(c, e)), Read(checkNodeCapacity(c, e)), Read(checkNodeRuntimeHealth(c, e)),
    Read(checkNodeArchitectureCompatibility(c, e)), Read(checkRuntimeClassCompatibility(c, e)), Read(checkStorageClassReadiness(c, e)),
    Read(checkTraefikIngressClass(c, e)), Read(checkTraefikDeploymentReady(c, e, d)), Read(checkTraefikWebEntrypoint(c, e, d)),
    Read(checkTraefikServiceExposure(c, e, d)), Read(checkPublicIngressHostConfig(c)), Read(checkPublicIngressDNS(c)),
    Read(checkCertManagerCompatibility(c, e)), Read(checkCertManagerReadiness(c, e)), Read(checkDoctorTLSClusterIssuer(c, e)),
    Read(checkDoctorACMEHTTP01Exposure(c, e, d)) >>

doctorPostSetupCheckSpecs(c, e, left) == <<
    Read(checkClusterNodesReady(c, e)), Read(checkPersistentVolumeClaims(c, e)), Read(checkPendingPodsByNamespace(c, e, LeftPhases(left))),
    Read(checkPlatformSecrets(c, e)), Read(checkPlatformPostgresCredentialDrift(c, e)), HealthProbe(c, e, "platform", "platform-api down", "platform-api unhealthy"),
    Read(checkPlatformWorkloadHealth(c, e)),
    Probe(Gated(c, e, "platform", {"api key missing"}), 1, "platform", checkPlatformAPIAuthProbe(c)) >>

Specs(e) ==
    CASE docSuite = "diagnostics" -> doctorCheckSpecs(docCluster, e, docDistro, docLeft)
      [] docSuite = "doctor" -> doctorSetupCheckSpecs(docCluster, e, docDistro)
      [] docSuite = "smoke" -> doctorPostSetupCheckSpecs(docCluster, e, docLeft)
      [] docSuite = "identity" -> <<Read(CheckWorkloadIdentity(docCluster, e))>>
ThisSpec == Specs("none")[docAt]

------------------------------------------------------------------------------
(* The part of an installation a fault presupposes.                              *)
PlatformFaults == {"platform-api down", "platform-api unhealthy", "rollout stuck", "stale pod", "password drift", "egress blocked",
    "dns not allowed", "sessions in memory", "api key missing", "secret newer than pods", "no login provider", "key rejected",
    "catalog failing", "internal image shown"}
ObservabilityFaults == {"kafka down", "ingest down", "collector down", "dashboards missing", "grafana password", "grafana down",
    "ingest cannot review", "analytics-api down", "analytics-api unhealthy"}
WorkloadFaults == {"workload issuer not ready", "workload authority missing", "workload authority expiring", "route does not verify",
    "route trusts another authority"}
PreflightFaults == {"cert-manager too old", "cert-manager down", "issuer missing", "web port not 80", "hosts incomplete", "host unresolved"}
AllFaults == PlatformFaults \cup ObservabilityFaults \cup WorkloadFaults \cup PreflightFaults \cup
   {"node not ready", "node pressure", "no container runtime", "architecture unknown", "hot node", "runtime class missing", "no storage class",
    "local storage on many nodes", "claim pending", "architecture mismatch", "pod pending", "pull failing", "pull rejected", "pull over http",
    "no server namespace", "no service account", "admission denied", "no CRD", "operator down", "webhook certificate expired", "reconcile errors",
    "permission missing", "auth permission missing", "role rule missing", "no ingress class", "traefik down", "no web port", "not exposed",
    "ingress pending", "no registry service", "registry rule not certified", "registry host moved", "service address in image",
    "server pull secret missing", "team pull secret missing", "team account not wired", "default pull secret missing",
    "platform pull secret missing", "inventory denied", "gateway token missing", "events rejected", "auth server down", "auth key missing",
    "server egress not ready", "issuers differ", "registry down", "dns broken", "route not served", "no secure port", "smoke image unpullable",
    "helper image unpullable", "no room"}
FaultApplies(c, f) ==
    /\ f \in PlatformFaults => "platform" \in c.has
    /\ f \in ObservabilityFaults => "observability" \in c.has
    /\ f \in WorkloadFaults => "adapter certificates" \in c.has
    /\ f \in {"cert-manager too old", "cert-manager down"} => "tls" \in c.has
    /\ f = "issuer missing" => "issuer" \in c.has
    /\ f = "web port not 80" => "acme" \in c.has
    /\ f \in {"hosts incomplete", "host unresolved"} => "public hosts" \in c.has
    /\ f \in {"auth server down", "auth key missing", "auth permission missing"} => "mcp-auth" \in c.has
    /\ f \in {"no login provider", "auth key missing"} => "test mode" \notin c.has
    /\ f = "ingress pending" => "permissive readiness" \notin c.has
    /\ f = "not exposed" => c.exposure # "pending"
    /\ f \in {"route not served", "runtime class missing"} => "servers" \in c.has
    /\ f = "no secure port" => {"servers", "tls route"} \subseteq c.has
    /\ f = "platform pull secret missing" => "registry host" \in c.has
    /\ f = "architecture mismatch" => "image platform" \in c.has

\* The clusters the doctor is run on: nothing is wrong, Traefik is where their distribution has it and can be
\* reached the way it allows, and a registry that asks for credentials is behind the policy it is installed with.
HealthyCluster(c) ==
    /\ DOMAIN c = {"has", "bad", "distro", "traefik", "exposure"} /\ c.bad = {}
    /\ c.traefik = "managed" \/ (c.traefik = "bundled" /\ c.distro = "k3s")
    /\ c.exposure \in {"address", "nodePort"} \/ (c.exposure = "pending" /\ ingressDistroAllowsPortForwardExposure(c.distro))
    /\ "native registry" \in c.has => "registry policy" \in c.has
ASSUME DoctorAssumption ==
    /\ MaxTrouble \in Nat \ {0} /\ Faults \subseteq AllFaults
    /\ \A c \in Clusters : HealthyCluster(c)

DoctorInit ==
    /\ \E c \in Clusters, b \in {{}} \cup {{f} : f \in Faults} :
        (\A f \in b : FaultApplies(c, f)) /\ docCluster = [c EXCEPT !.bad = b]
    /\ docSuite \in Suites /\ docDistro = "unknown" /\ docAt = 1 /\ docStage = "detect" /\ docRound = 0 /\ docVerdict = "ok" /\ docOK = TRUE
    /\ docPod = "none" /\ docLeft = {} /\ docSmoke = {} /\ docPass = {} /\ docUndeleted = FALSE
    /\ docLasting = docCluster.bad /\ docTrouble = Cardinality(docCluster.bad)

Trouble(n) == docTrouble + n <= MaxTrouble /\ docTrouble' = docTrouble + n
Failing(e) == Trouble(IF e = "none" THEN 0 ELSE 1)
Steady == UNCHANGED <<docCluster, docSuite, docLasting>>

(* The distribution, from the context's name or from the nodes: best effort.    *)
DetectDistribution ==
    /\ docStage = "detect" /\ docStage' = "check"
    /\ \E e \in {"none", "read"} : Failing(e) /\ docDistro' \in {docCluster.distro} \cup (IF e = "none" THEN {} ELSE {"generic"})
    /\ Steady /\ UNCHANGED <<docAt, docRound, docVerdict, docOK, probeVars>>

(* A check's verdict goes into the report and the next check begins; only a node *)
(* list that cannot be read ends the run at once.                                *)
Record(verdict, stop) ==
    /\ docOK' = (docOK /\ verdict # "fail") /\ docRound' = 0 /\ docVerdict' = "ok"
    /\ IF stop \/ docAt = Len(Specs("none")) THEN docStage' = "done" /\ docAt' = docAt
       ELSE docStage' = "check" /\ docAt' = docAt + 1

(* A check reads the cluster; its pods, if any, follow if that went well.       *)
runDoctorChecksWithSpecs ==
    /\ docStage = "check"
    /\ \E e \in Errors :
        LET spec == Specs(e)[docAt] IN
        /\ Failing(e)
        /\ IF spec.before = "ok" /\ (spec.pods > 0 \/ spec.ns = "smoke")
           THEN docStage' = (IF spec.ns = "smoke" THEN "apply" ELSE "create") /\ UNCHANGED <<docAt, docRound, docVerdict, docOK>>
           ELSE Record(spec.before, docAt = 1 /\ e # "none" /\ docSuite # "identity")
    /\ Steady /\ UNCHANGED <<docDistro, probeVars>>

------------------------------------------------------------------------------
(* Helper pods                                                                  *)
Stuck == Wrong(docCluster, {"helper image unpullable", "no room"})
CreatePod ==
    /\ docStage = "create"
    /\ LET denied == ThisSpec.ns = "servers" /\ Wrong(docCluster, {"admission denied", "no server namespace", "no service account"}) IN
       \/ Failing("none") /\ ~denied /\ docStage' = "wait" /\ docPod' = "pending" /\ UNCHANGED docVerdict
       \/ Failing("none") /\ denied /\ docStage' = "delete" /\ docVerdict' = "fail" /\ UNCHANGED docPod
       \/ Failing("read") /\ docPod' \in {"none", "pending"} /\ docStage' = "delete" /\ docVerdict' = "fail"
    /\ Steady /\ UNCHANGED <<docDistro, docAt, docRound, docOK, docLeft, docSmoke, docPass, docUndeleted>>
RunPod ==               \* the kubelet
    /\ docPod = "pending" /\ ~Stuck /\ docPod' = "finished"
    /\ UNCHANGED <<docCluster, docSuite, docDistro, docAt, docStage, docRound, docVerdict, docOK, docLeft, docSmoke, docPass, docLasting,
                   docTrouble, docUndeleted>>
(* Polls until the pod has ended; an image that cannot be pulled, and 90 s, end  *)
(* the wait as well.                                                             *)
waitForDoctorPodSucceeded ==
    /\ docStage = "wait"
    /\ \/ docPod = "finished" /\ docStage' = "logs" /\ UNCHANGED docVerdict
       \/ docPod = "pending" /\ Stuck /\ docStage' = "delete" /\ docVerdict' = "fail"
    /\ Steady /\ UNCHANGED <<docDistro, docAt, docRound, docOK, docTrouble, probeVars>>
(* The image smoke reads no log, its answer is that the image came.             *)
ReadLogs ==
    /\ docStage = "logs" /\ docStage' = "delete"
    /\ \E e \in {"none", "read"} : Failing(e) /\ docVerdict' = (IF e = "none" /\ ThisSpec.answer THEN "ok" ELSE "fail")
    /\ Steady /\ UNCHANGED <<docDistro, docAt, docRound, docOK, probeVars>>
(* The deferred deletion, on every way out; its error is dropped.               *)
DeletePod ==
    /\ docStage = "delete" /\ docPod' = "none"
    /\ \/ Failing("none") /\ UNCHANGED <<docLeft, docUndeleted>>
       \/ docPod # "none" /\ Failing("read") /\ docLeft' = docLeft \cup {<<ThisSpec.ns, docPod>>} /\ docUndeleted' = TRUE
    /\ IF docVerdict = "ok" /\ docRound + 1 < ThisSpec.pods
       THEN docStage' = "create" /\ docRound' = docRound + 1 /\ UNCHANGED <<docAt, docVerdict, docOK>>
       ELSE Record(docVerdict, FALSE)
    /\ Steady /\ UNCHANGED <<docDistro, docSmoke, docPass>>

------------------------------------------------------------------------------
(* checkMCPServerReconcileSmoke: apply a server, wait for what the operator      *)
(* makes of it, delete the server and then each object.                          *)
ApplySmoke ==
    /\ docStage = "apply"
    /\ LET refused == Wrong(docCluster, {"no CRD", "no server namespace", "webhook certificate expired"}) IN
       \/ Failing("none") /\ ~refused /\ docSmoke' = {"server"} /\ docStage' = "deployment" /\ UNCHANGED docVerdict
       \/ Failing("none") /\ refused /\ docStage' = "delete server" /\ docVerdict' = "fail" /\ UNCHANGED docSmoke
       \/ Failing("read") /\ docSmoke' \in {{}, {"server"}} /\ docStage' = "delete server" /\ docVerdict' = "fail"
    /\ Steady /\ UNCHANGED <<docDistro, docAt, docRound, docOK, docPod, docLeft, docPass, docUndeleted>>
Missing(what) ==        \* it is not there and will not come
    /\ what \notin docSmoke /\ docPass = {} /\ Wrong(docCluster, {"operator down", "permission missing", "role rule missing"})
NotRunning == Wrong(docCluster, {"no room"} \cup (IF "servers" \in docCluster.has THEN {"smoke image unpullable"} ELSE {}))
WaitFor(stage, what, next) ==
    /\ docStage = stage
    /\ \/ what \in docSmoke /\ docStage' = next /\ UNCHANGED docVerdict
       \/ Missing(what) /\ docStage' = "delete server" /\ docVerdict' = "fail"
    /\ Steady /\ UNCHANGED <<docDistro, docAt, docRound, docOK, docTrouble, probeVars>>
waitForDoctorResource ==
    WaitFor("deployment", "deployment", "running") \/ WaitFor("service", "service", "route") \/ WaitFor("route", "route", "delete server")
waitForDoctorDeploymentReady ==
    /\ docStage = "running"
    /\ \/ ~NotRunning /\ docStage' = "service" /\ UNCHANGED docVerdict
       \/ NotRunning /\ docStage' = "delete server" /\ docVerdict' = "fail"
    /\ Steady /\ UNCHANGED <<docDistro, docAt, docRound, docOK, docTrouble, probeVars>>
CleanupOrder == <<"delete server", "delete deployment", "delete service", "delete route", "delete traefik route">>
Cleanup ==
    \E i \in DOMAIN CleanupOrder :
        LET object == <<"server", "deployment", "service", "route", "traefik route">>[i] IN  \* there is never the last
        /\ docStage = CleanupOrder[i]
        /\ \/ Failing("none") /\ docSmoke' = docSmoke \ {object} /\ UNCHANGED docUndeleted
           \/ object \in docSmoke /\ Failing("read") /\ docUndeleted' = TRUE /\ UNCHANGED docSmoke
        /\ IF i = Len(CleanupOrder) THEN Record(docVerdict, FALSE)
           ELSE docStage' = CleanupOrder[i + 1] /\ UNCHANGED <<docAt, docRound, docVerdict, docOK>>
        /\ Steady /\ UNCHANGED <<docDistro, docPod, docLeft, docPass>>

(* The operator: a pass begun while the server is there creates what is missing  *)
(* one object after the other, whatever happens to the server meanwhile; the     *)
(* garbage collector removes the objects of a server that is gone.               *)
OperatorWorks == ~Wrong(docCluster, {"operator down", "permission missing", "role rule missing"})
BeginPass ==
    /\ OperatorWorks /\ docPass = {} /\ "server" \in docSmoke /\ ~(SmokeObjects \subseteq docSmoke)
    /\ docPass' = SmokeObjects \ docSmoke
    /\ UNCHANGED <<docCluster, docSuite, docDistro, docAt, docStage, docRound, docVerdict, docOK, docPod, docLeft, docSmoke, docLasting,
                   docTrouble, docUndeleted>>
CreateObject ==
    /\ OperatorWorks /\ docPass # {}
    /\ LET next == CHOOSE o \in docPass : \A p \in docPass : p = "deployment" => o = p IN
       docPass' = docPass \ {next} /\ docSmoke' = docSmoke \cup {next}
    /\ UNCHANGED <<docCluster, docSuite, docDistro, docAt, docStage, docRound, docVerdict, docOK, docPod, docLeft, docLasting, docTrouble,
                   docUndeleted>>
OperatorStops ==        \* the pass dies with the operator
    /\ ~OperatorWorks /\ docPass # {} /\ docPass' = {}
    /\ UNCHANGED <<docCluster, docSuite, docDistro, docAt, docStage, docRound, docVerdict, docOK, docPod, docLeft, docSmoke, docLasting,
                   docTrouble, docUndeleted>>
CollectGarbage ==
    /\ "server" \notin docSmoke /\ docSmoke # {} /\ \E o \in docSmoke : docSmoke' = docSmoke \ {o}
    /\ UNCHANGED <<docCluster, docSuite, docDistro, docAt, docStage, docRound, docVerdict, docOK, docPod, docLeft, docPass, docLasting,
                   docTrouble, docUndeleted>>
GoesWrong ==            \* something breaks while the doctor looks
    /\ docStage \notin {"detect", "done"}
    /\ \E f \in LateFaults : FaultApplies(docCluster, f) /\ Trouble(1) /\ docCluster' = [docCluster EXCEPT !.bad = @ \cup {f}]
    /\ UNCHANGED <<docSuite, docDistro, docAt, docStage, docRound, docVerdict, docOK, docLasting, probeVars>>

DoctorNext ==
    \/ DetectDistribution \/ runDoctorChecksWithSpecs \/ CreatePod \/ RunPod \/ waitForDoctorPodSucceeded \/ ReadLogs \/ DeletePod
    \/ ApplySmoke \/ waitForDoctorResource \/ waitForDoctorDeploymentReady \/ Cleanup
    \/ BeginPass \/ CreateObject \/ OperatorStops \/ CollectGarbage \/ GoesWrong
DoctorSpec == DoctorInit /\ [][DoctorNext]_docVars

------------------------------------------------------------------------------
(* The doctor keeps to its suite, and at most one helper pod runs at a time, in a *)
(* namespace the check named.                                                    *)
DoctorTypeOK ==
    /\ docCluster.bad \subseteq Faults \cup LateFaults /\ docSuite \in Suites /\ docAt \in 1..Len(Specs("none")) /\ docStage \in Stages
    /\ docVerdict \in Verdicts /\ docOK \in BOOLEAN /\ docTrouble \in 0..MaxTrouble /\ docRound \in 0..1
    /\ docPod \in {"none", "pending", "finished"} /\ docLeft \subseteq {"servers", "registry", "platform"} \X {"pending", "finished"}
    /\ docSmoke \subseteq SmokeObjects /\ docPass \subseteq SmokeObjects \ {"server"} /\ docLasting \subseteq docCluster.bad
    /\ docPod # "none" => docStage \in {"wait", "logs", "delete"} /\ ThisSpec.pods > docRound

(* What each suite promises to look for. *)
SmokePromise == {"node not ready", "claim pending", "pod pending", "api key missing", "password drift", "platform-api down",
    "platform-api unhealthy", "rollout stuck", "key rejected"}
DoctorPromise == {"node not ready", "node pressure", "no container runtime", "architecture unknown", "hot node", "runtime class missing",
    "no storage class", "no ingress class", "traefik down", "no web port", "not exposed"} \cup PreflightFaults
IdentityPromise == {"issuers differ"} \cup WorkloadFaults
DiagnosticsPromise == Faults \ (PreflightFaults \cup IdentityPromise \cup {"grafana down"})
Promise == CASE docSuite = "smoke" -> SmokePromise [] docSuite = "doctor" -> DoctorPromise
             [] docSuite = "identity" -> IdentityPromise [] OTHER -> DiagnosticsPromise
(* A fault that is there the whole time is in the report: some check of the suite *)
(* that promises to look for it still finds it, behind the gates, the checks that *)
(* give way to others and the ones that accept what another rejects.             *)
FaultsReported == docStage = "done" /\ docTrouble = Cardinality(docLasting) /\ docLasting \cap Promise # {} => ~docOK
(* On a cluster with nothing wrong with it, and with every call answered, the    *)
(* report is clean: no check trips over the helper pods, the smoke server or the *)
(* answers of another.                                                           *)
NoFalseAlarm == docStage = "done" /\ docTrouble = 0 => docOK
(* The helper pods, the smoke server and what carries its name are gone once the *)
(* doctor has finished, the operator is idle and nothing is left to collect,      *)
(* unless a deletion failed: also when a pod never ran, a wait timed out, or the *)
(* operator was still creating objects while they were being deleted.  The       *)
(* namespace's mcp-workload account and pull secret, which the operator shares   *)
(* among all servers, stay if the smoke server was the first to need them.       *)
ProbesRemoved ==
    docStage = "done" /\ ~docUndeleted /\ docPass = {} /\ ("server" \notin docSmoke => docSmoke = {}) =>
        docPod = "none" /\ docLeft = {} /\ docSmoke = {}
(* The doctor's report can be relied on both ways, and it clears away its    *)
(* probes: lasting faults it promises to find fail it, a healthy cluster     *)
(* passes, and its helper pods and its smoke server are gone.                *)
DoctorSound == DoctorTypeOK /\ FaultsReported /\ NoFalseAlarm /\ ProbesRemoved
=============================================================================
