----------------------------- MODULE OperatorPass -----------------------------
(***************************************************************************)
(* The operator's reconciliation of one MCPServer: internal/operator       *)
(* (controller.go, deployment.go, service.go, traefik_egress.go, mtls.go,  *)
(* ingress.go, policy.go, status.go).                                      *)
(*                                                                         *)
(* A pass takes the specification as it is when it starts and brings one   *)
(* object after the other up to date; a failed call ends it and it is      *)
(* queued again, a crash ends it and the restarted operator sweeps egress  *)
(* policies of servers that are gone.  Meanwhile the specification changes *)
(* and pods and certificates come and go, also between what a call reads   *)
(* and what it writes (`found`).  Reads see the cluster as it is (the      *)
(* informer cache has caught up); what a deleted server owns is collected  *)
(* at once, and its name is not used again under a running pass.  The      *)
(* stable Deployment has a replica, the server routes through Traefik and  *)
(* names no pull secret of its own; the operator has a registry to pull    *)
(* from and an analytics service with a CA.  Who owns a public route is    *)
(* RouteOwnership's subject: here it is this server's or `contested`.        *)
(***************************************************************************)
EXTENDS Integers, FiniteSets

CONSTANTS
    ServerSpecs,        \* the specifications an owner may write
    ListenPorts,        \* the ports they name, not 0
    Absent,             \* no server
    MaxSpecEdits,       \* edits of the specification, its grants and Traefik's policy
    MaxOperatorFaults   \* failed calls and writes, crashes, failing pods, lost Secrets

ASSUME OperatorAssumption ==
    /\ ServerSpecs \subseteq [port : ListenPorts, gateway : BOOLEAN, tls : BOOLEAN,
                              recreate : BOOLEAN, canary : BOOLEAN, valid : BOOLEAN,
                              resolves : BOOLEAN, parses : BOOLEAN]
    /\ ListenPorts \subseteq Nat \ {0} /\ Absent \notin ServerSpecs
    /\ MaxSpecEdits \in Nat /\ MaxOperatorFaults \in Nat

VARIABLES
    spec,        \* the server's specification, or Absent
    granted,     \* a grant for this server's UID exists
    restricted,  \* a policy isolates Traefik's egress
    contested,     \* an older server has the route of this one
    objs,        \* the server's objects, and what its namespace's pods need
    doc,         \* the policy document carries the grant
    secrets,     \* what cert-manager has issued
    template,    \* the Deployment: port, strategy, mounted sources
    pod,         \* the state of the pod listening on each port
    svc,         \* the Service's target port, 0 when there is none
    egress,      \* the ports Traefik may reach the server on
    phase,       \* status.phase
    pass,        \* the pass under way
    passQueued,      \* the server is in the work queue, now or after a delay
    sweep,       \* the sweep of egress policies after a start, "failed" if that was its end
    portOnly,    \* history: nothing but ports has changed, no pod has failed
    opEdits, opFaults

clusterVars == <<spec, granted, restricted, contested, objs, doc, secrets, template, pod, svc, egress>>
operatorVars == <<clusterVars, phase, pass, passQueued, sweep, portOnly, opEdits, opFaults>>

NoTemplate == [port |-> 0, surge |-> FALSE, recreate |-> FALSE, mounts |-> {}]
NoPass == [pc |-> "idle", spec |-> Absent, found |-> FALSE, surge |-> FALSE, phase |-> ""]
OperatorStarted ==
    /\ granted = FALSE /\ restricted = TRUE /\ contested = FALSE
    /\ objs = {} /\ doc = FALSE /\ secrets = {}
    /\ template = NoTemplate /\ pod = [p \in ListenPorts |-> "none"] /\ svc = 0 /\ egress = {}
    /\ phase = "" /\ pass = NoPass /\ passQueued = (spec # Absent) /\ sweep = "no" /\ portOnly = TRUE
    /\ opEdits = 0 /\ opFaults = 0
OperatorInit == spec \in {s \in ServerSpecs : s.valid /\ s.resolves /\ s.parses} /\ OperatorStarted

usesAdapterCertificates(s) == s.gateway /\ s.tls
servingPort(s) == s.port

\* What the gateway mounts, and so the volumes of the pod: a pod waits for the
\* objects they come from.
buildGatewayContainer(s) == {"policy", "analyticsCA"} \cup (IF usesAdapterCertificates(s) THEN {"gatewaySecret"} ELSE {})
buildDeploymentContainers(s) == IF s.gateway THEN buildGatewayContainer(s) ELSE {}
applyContainerResources(s) == s.parses
canaryEnabled(s) == s.canary

PassAt(pc) == pass.pc = pc
\* The next call, with what one found for the next to use.
Finds(pc, b) == pass' = [pass EXCEPT !.pc = pc, !.found = b]
GoTo(pc) == Finds(pc, FALSE)
S == pass.spec
\* An object of a server that is gone is collected by its owner reference.
Owned(os) == IF spec = Absent THEN {} ELSE os
Put(os) == objs' = objs \cup Owned(os)
RemoveObject(os) == objs' = objs \ os
Ends == pass' = NoPass
\* A status write, which may be lost, and which a server that is gone does not get.
WriteStatus(p) == phase' \in {phase, IF spec = Absent THEN phase ELSE p}
\* The server is queued again, after an error with a growing delay.
Fails == Ends /\ passQueued' = TRUE
Rest == UNCHANGED <<spec, granted, restricted, contested, portOnly, opEdits, opFaults, sweep>>
-----------------------------------------------------------------------------
\* Reconcile: the server is read, defaulted and validated.
fetchMCPServer ==
    /\ PassAt("idle") /\ passQueued /\ passQueued' = FALSE
    /\ pass' = [pass EXCEPT !.spec = spec, !.pc = IF spec = Absent THEN "gone" ELSE "validate"]
    /\ UNCHANGED <<objs, doc, secrets, template, pod, svc, egress, phase>> /\ Rest

\* ... its egress policy, which no owner reference reaches, removed if it is gone.
deleteTraefikEgressPolicy ==
    /\ PassAt("gone")
    /\ egress' = {} /\ Ends
    /\ UNCHANGED <<objs, doc, secrets, template, pod, svc, phase, passQueued>> /\ Rest

\* An invalid specification: status Error, and the pass is tried again.
validateMCPServerSpec ==
    /\ PassAt("validate")
    /\ IF S.valid THEN GoTo("ownership") /\ UNCHANGED <<phase, passQueued>> ELSE WriteStatus("Error") /\ Fails
    /\ UNCHANGED <<objs, doc, secrets, template, pod, svc, egress>> /\ Rest

\* A server whose route another owns loses its Ingress; nothing tells it when the
\* route is free, so it is looked at again after a minute.
RouteChecked ==
    /\ PassAt("ownership")
    /\ IF contested THEN RemoveObject({"ingress"}) /\ WriteStatus("Error") /\ Fails
       ELSE GoTo("config") /\ UNCHANGED <<objs, phase, passQueued>>
    /\ UNCHANGED <<doc, secrets, template, pod, svc, egress>> /\ Rest

\* What the operator must supply is there: a host, the gateway's image, the
\* address of the analytics service.
validateGatewayConfig ==
    /\ PassAt("config")
    /\ IF S.resolves THEN GoTo("policy") /\ UNCHANGED <<phase, passQueued>> ELSE WriteStatus("Error") /\ Fails
    /\ UNCHANGED <<objs, doc, secrets, template, pod, svc, egress>> /\ Rest

\* The document for the grants there are, or none without a gateway.
renderGatewayPolicy ==
    /\ PassAt("policy") /\ S.gateway /\ Finds("configMap", granted)
    /\ UNCHANGED <<objs, doc, secrets, template, pod, svc, egress, phase, passQueued>> /\ Rest
reconcilePolicyConfigMap ==
    /\ \/ PassAt("policy") /\ ~ S.gateway /\ RemoveObject({"policy"}) /\ doc' = FALSE
       \/ PassAt("configMap") /\ Put({"policy"}) /\ doc' = (pass.found /\ spec # Absent)
    /\ GoTo("gatewayCert")
    /\ UNCHANGED <<secrets, template, pod, svc, egress, phase, passQueued>> /\ Rest

\* A certificate for one end of the hop from Traefik to the gateway; without
\* adapter certificates it is deleted, and then its Secret.
applyUnstructured(cert) == Put({cert})
ReconcileCertificate(cert, secretAt, secret, next) ==
    /\ \/ PassAt(cert) /\ usesAdapterCertificates(S) /\ applyUnstructured(cert) /\ GoTo(next) /\ UNCHANGED secrets
       \/ PassAt(cert) /\ ~ usesAdapterCertificates(S) /\ RemoveObject({cert}) /\ GoTo(secretAt) /\ UNCHANGED secrets
       \/ PassAt(secretAt) /\ secrets' = secrets \ {secret} /\ GoTo(next) /\ UNCHANGED objs
    /\ UNCHANGED <<doc, template, pod, svc, egress, phase, passQueued>> /\ Rest
reconcileGatewayCertificate == ReconcileCertificate("gatewayCert", "noGatewayCert", "gatewaySecret", "clientCert")
reconcileTraefikClientCertificate == ReconcileCertificate("clientCert", "noClientCert", "clientSecret", "boundary")

\* The workload's ingress boundary, before any pod.
reconcileMTLSNetworkPolicy ==
    /\ PassAt("boundary") /\ GoTo("analytics") /\ Put({"boundary"})
    /\ UNCHANGED <<doc, secrets, template, pod, svc, egress, phase, passQueued>> /\ Rest

\* The public CA of the analytics service; one that is there stays.
reconcileAnalyticsCA ==
    /\ PassAt("analytics") /\ GoTo("account") /\ Put(IF S.gateway THEN {"analyticsCA"} ELSE {})
    /\ UNCHANGED <<doc, secrets, template, pod, svc, egress, phase, passQueued>> /\ Rest

\* reconcileDeployment, from here on.  First what every pod of the namespace
\* runs with: no server owns it, and it stays when one is deleted.
OfNamespace == {"account", "pullSecret"}
ensureWorkloadServiceAccount ==
    /\ PassAt("account") /\ GoTo("pullSecret") /\ objs' = objs \cup {"account"}
    /\ UNCHANGED <<doc, secrets, template, pod, svc, egress, phase, passQueued>> /\ Rest
ensureRegistryPullSecret ==
    /\ PassAt("pullSecret") /\ GoTo("strategy") /\ objs' = objs \cup {"pullSecret"}
    /\ UNCHANGED <<doc, secrets, template, pod, svc, egress, phase, passQueued>> /\ Rest

\* Mutant: the owner's strategy holds for a change of port as well.
OwnersStrategy ==
    /\ PassAt("strategy") /\ pass' = [pass EXCEPT !.pc = "deployment", !.surge = FALSE]
    /\ UNCHANGED <<objs, doc, secrets, template, pod, svc, egress, phase, passQueued>> /\ Rest

\* A change of port surges, whatever strategy the owner chose.
servingDeploymentStrategy ==
    /\ PassAt("strategy")
    /\ pass' = [pass EXCEPT !.pc = "deployment", !.surge = svc # 0 /\ svc # servingPort(S)]
    /\ UNCHANGED <<objs, doc, secrets, template, pod, svc, egress, phase, passQueued>> /\ Rest

\* The template asked for.  One with the port of the old one and other volumes
\* replaces its pod, in place or with the old one serving until the new one does.
deploymentStrategy(s) == s.recreate
Template == [port |-> servingPort(S), surge |-> pass.surge, recreate |-> deploymentStrategy(S),
             mounts |-> buildDeploymentContainers(S)]
Recreates(t) == t.recreate /\ ~ t.surge
Rollout(new) ==
    IF new.port # template.port \/ new.mounts = template.mounts \/ pod[new.port] = "none" THEN pod
    ELSE [pod EXCEPT ![new.port] = IF Recreates(new) \/ @ = "starting" THEN "starting" ELSE "updating"]
\* A quantity that cannot be parsed is found out here, by no validation before.
reconcileDeployment ==
    /\ PassAt("deployment")
    /\ IF ~ applyContainerResources(S) THEN WriteStatus("Error") /\ Fails /\ UNCHANGED <<template, pod>>
       ELSE /\ GoTo("canary") /\ UNCHANGED phase
            /\ IF spec = Absent THEN UNCHANGED <<template, pod>> ELSE template' = Template /\ pod' = Rollout(Template)
            /\ passQueued' = (passQueued \/ template' # template)
    /\ UNCHANGED <<objs, doc, secrets, svc, egress>> /\ Rest

\* The canary's Deployment and the account it runs with, removed when no canary is asked for.
reconcileCanaryDeployment ==
    /\ PassAt("canary") /\ GoTo("service")
    /\ IF canaryEnabled(S) THEN objs' = objs \cup {"account"} \cup Owned({"canary"}) ELSE RemoveObject({"canary"})
    /\ UNCHANGED <<doc, secrets, template, pod, svc, egress, phase, passQueued>> /\ Rest

\* A ready pod of the template's revision, or of an older one with that port.
Serves(p) == pod[p] \in {"ready", "updating"}
RoutesElsewhere == svc \notin {0, servingPort(S)}

\* The pods are asked for before a Service that routes elsewhere is moved ...
hasReadyServingPod ==
    /\ PassAt("service") /\ RoutesElsewhere /\ Finds("serviceWrite", Serves(servingPort(S)))
    /\ UNCHANGED <<objs, doc, secrets, template, pod, svc, egress, phase, passQueued>> /\ Rest

\* ... and it stays as it is until the new port serves.
reconcileService ==
    /\ (PassAt("service") /\ ~ RoutesElsewhere) \/ PassAt("serviceWrite")
    /\ GoTo("egress")
    /\ svc' = IF spec = Absent THEN 0 ELSE IF PassAt("serviceWrite") /\ ~ pass.found THEN svc ELSE servingPort(S)
    /\ UNCHANGED <<objs, doc, secrets, template, pod, egress, phase, passQueued>> /\ Rest

\* The desired port and the one the Service still routes to.
traefikEgressPorts(s) == {servingPort(s)} \cup ({svc} \ {0})
traefikEgressRestricted ==
    /\ PassAt("egress") /\ Finds("egressWrite", restricted)
    /\ UNCHANGED <<objs, doc, secrets, template, pod, svc, egress, phase, passQueued>> /\ Rest
reconcileTraefikEgress ==
    /\ PassAt("egressWrite") /\ GoTo("bundle")
    /\ egress' = IF pass.found THEN traefikEgressPorts(S) ELSE {}
    /\ UNCHANGED <<objs, doc, secrets, template, pod, svc, phase, passQueued>> /\ Rest

\* Mutant: the bundle is made for a route that is there, which waits for the bundle.
BundleAfterRoute ==
    /\ PassAt("bundle") /\ GoTo("ingress")
    /\ IF ~ usesAdapterCertificates(S) THEN RemoveObject({"bundle"})
       ELSE Put(IF "gatewaySecret" \in secrets /\ "route" \in objs THEN {"bundle"} ELSE {})
    /\ UNCHANGED <<doc, secrets, template, pod, svc, egress, phase, passQueued>> /\ Rest

\* The trust bundle, from the gateway's certificate once that is issued.
reconcileMTLSTrustBundle ==
    /\ PassAt("bundle") /\ GoTo("ingress")
    /\ IF ~ usesAdapterCertificates(S) THEN RemoveObject({"bundle"})
       ELSE Put(IF "gatewaySecret" \in secrets THEN {"bundle"} ELSE {})
    /\ UNCHANGED <<doc, secrets, template, pod, svc, egress, phase, passQueued>> /\ Rest

mtlsBackendSecretsReady == "clientSecret" \in secrets /\ "bundle" \in objs

\* With adapter certificates the IngressRoute, made when its Secrets are there
\* and never taken down for want of them; else no IngressRoute.
deleteMTLSIngress == RemoveObject({"route"})
reconcileMTLSIngress ==
    /\ PassAt("ingress") /\ GoTo("oldIngress")
    /\ IF usesAdapterCertificates(S) THEN Put(IF mtlsBackendSecretsReady THEN {"route"} ELSE {}) ELSE deleteMTLSIngress
    /\ UNCHANGED <<doc, secrets, template, pod, svc, egress, phase, passQueued>> /\ Rest
\* ... and only then the plain Ingress, removed or made.
reconcileIngress ==
    /\ PassAt("oldIngress") /\ GoTo("readiness")
    /\ IF usesAdapterCertificates(S) THEN RemoveObject({"ingress"}) ELSE Put({"ingress"})
    /\ UNCHANGED <<doc, secrets, template, pod, svc, egress, phase, passQueued>> /\ Rest
-----------------------------------------------------------------------------
deploymentRevisionReady == \A p \in ListenPorts : pod[p] = (IF p = template.port THEN "ready" ELSE "none")
checkDeploymentReady == template # NoTemplate /\ deploymentRevisionReady
checkServiceReady(s) == svc = servingPort(s) /\ Serves(svc)
\* A plain Ingress is ready when the controller has given it an address, or by its
\* rules alone where the operator is told so.
checkIngressReady(s, published) ==
    IF usesAdapterCertificates(s) THEN mtlsBackendSecretsReady /\ "route" \in objs ELSE "ingress" \in objs /\ published
checkPolicyConfigMapReady(s) == s.gateway /\ "policy" \in objs
\* The canary's pods are not followed: they are ready or not.
checkCanaryDeploymentReady(s, up) == s.canary /\ "canary" \in objs /\ up

\* "Ready" when all that the server has is, "PartiallyReady" when some of it is.
determinePhase(s, published, up) ==
    LET readiness == <<checkDeploymentReady, checkServiceReady(s), checkIngressReady(s, published),
                       checkPolicyConfigMapReady(s), checkCanaryDeploymentReady(s, up)>>
        Needed == 1..3 \cup (IF s.gateway THEN {4} ELSE {}) \cup (IF s.canary THEN {5} ELSE {})
    IN IF \A i \in Needed : readiness[i] THEN "Ready"
       ELSE IF \E i \in Needed : readiness[i] THEN "PartiallyReady" ELSE "Pending"

checkResourceReadiness(published, up) ==
    /\ PassAt("readiness") /\ pass' = [pass EXCEPT !.pc = "status", !.phase = determinePhase(S, published, up)]
    /\ UNCHANGED <<objs, doc, secrets, template, pod, svc, egress, phase, passQueued>> /\ Rest

\* The phase found is written, or the write is lost; what was not ready is
\* looked at again after ten seconds.
updateStatus ==
    /\ PassAt("status") /\ Ends /\ WriteStatus(pass.phase)
    /\ passQueued' = (passQueued \/ pass.phase # "Ready")
    /\ UNCHANGED <<objs, doc, secrets, template, pod, svc, egress>> /\ Rest

\* A call fails: status Error, except for the calls that report no status, and
\* the server is queued again.
Unreported == {"gone", "analytics", "readiness"}
reconcileResourcesFails ==
    /\ pass.pc \notin {"idle", "validate", "config", "status"} /\ opFaults < MaxOperatorFaults /\ opFaults' = opFaults + 1
    /\ IF pass.pc \in Unreported THEN UNCHANGED phase ELSE WriteStatus("Error")
    /\ Fails /\ UNCHANGED <<clusterVars, sweep, portOnly, opEdits>>

\* The operator restarts: every server there is is queued, and the sweep runs.
OperatorRestarts ==
    /\ opFaults < MaxOperatorFaults /\ opFaults' = opFaults + 1
    /\ pass' = NoPass /\ passQueued' = (spec # Absent) /\ sweep' = "list"
    /\ UNCHANGED <<clusterVars, phase, portOnly, opEdits>>

\* sweepTraefikEgressPolicies: list, look the server up, delete.  A deletion is
\* an event about the policy's server.
Sweeping == sweep \in {"list", "check", "delete"}
sweepTraefikEgressPolicies ==
    /\ Sweeping
    /\ sweep' = CASE sweep = "list" -> (IF egress = {} THEN "no" ELSE "check")
                  [] sweep = "check" -> (IF spec = Absent THEN "delete" ELSE "no")
                  [] OTHER -> "no"
    /\ egress' = IF sweep = "delete" THEN {} ELSE egress
    /\ passQueued' = (passQueued \/ egress' # egress)
    /\ UNCHANGED <<spec, granted, restricted, contested, objs, doc, secrets, template, pod, svc, phase, pass, portOnly, opEdits, opFaults>>
\* A call of the sweep fails: it is not tried again before the next start.
sweepFails ==
    /\ Sweeping /\ opFaults < MaxOperatorFaults /\ opFaults' = opFaults + 1 /\ sweep' = "failed"
    /\ UNCHANGED <<clusterVars, phase, pass, passQueued, portOnly, opEdits>>
-----------------------------------------------------------------------------
\* What happens around the operator.
Edit == opEdits < MaxSpecEdits /\ opEdits' = opEdits + 1 /\ passQueued' = TRUE
Around == UNCHANGED <<contested, doc, secrets, egress, phase, pass, sweep, opFaults>>

SpecEdited(s) ==
    /\ spec # Absent /\ s # spec /\ Edit /\ spec' = s
    /\ portOnly' = (portOnly /\ s.gateway = spec.gateway /\ s.tls = spec.tls)
    /\ UNCHANGED <<granted, restricted, objs, template, pod, svc>> /\ Around
\* Everything the server owns goes with it; cert-manager's Secrets may stay.
ServerDeleted ==
    /\ spec # Absent /\ Edit /\ spec' = Absent /\ portOnly' = FALSE
    /\ objs' = objs \cap OfNamespace /\ doc' = FALSE /\ template' = NoTemplate /\ pod' = [p \in ListenPorts |-> "none"] /\ svc' = 0
    /\ secrets' \in {secrets, {}} /\ phase' = ""
    /\ UNCHANGED <<granted, restricted, contested, egress, pass, sweep, opFaults>>
ServerCreated(s) ==
    /\ spec = Absent /\ PassAt("idle") /\ Edit /\ spec' = s
    /\ UNCHANGED <<granted, restricted, objs, template, pod, svc, portOnly>> /\ Around
requestsForReferencedServer ==
    /\ Edit /\ granted' = ~ granted
    /\ UNCHANGED <<spec, restricted, objs, template, pod, svc, portOnly>> /\ Around
\* It queues the servers there are.  It lists them from the informers' cache: the error that would queue
\* none (and be logged alone) is left out, as a running cache does not give one.
requestsForTraefikEgressPolicy ==
    /\ opEdits < MaxSpecEdits /\ opEdits' = opEdits + 1 /\ restricted' = ~ restricted
    /\ passQueued' = (passQueued \/ spec # Absent)
    /\ UNCHANGED <<spec, granted, objs, template, pod, svc, portOnly>> /\ Around

\* An older server moves onto the route or off it, which no event tells this one.
RouteContested ==
    /\ opEdits < MaxSpecEdits /\ opEdits' = opEdits + 1 /\ contested' = ~ contested
    /\ UNCHANGED <<spec, granted, restricted, objs, doc, secrets, template, pod, svc, egress, phase, pass, passQueued, sweep, portOnly, opFaults>>

PodChanges == UNCHANGED <<spec, granted, restricted, objs, template, svc, opEdits>> /\ passQueued' = TRUE
Old == {p \in ListenPorts : p # template.port /\ pod[p] # "none"}
PodStarts ==
    /\ template # NoTemplate /\ pod[template.port] = "none" /\ (Recreates(template) => Old = {})
    /\ "account" \in objs
    /\ pod' = [pod EXCEPT ![template.port] = "starting"] /\ UNCHANGED portOnly /\ PodChanges /\ Around
PodReady(p) ==
    /\ pod[p] \in {"starting", "updating"}
    /\ p = template.port => template.mounts \cup {"pullSecret"} \subseteq objs \cup secrets
    /\ pod' = [pod EXCEPT ![p] = "ready"] /\ UNCHANGED portOnly /\ PodChanges /\ Around
PodDrained(p) ==
    /\ p \in Old /\ (Recreates(template) \/ Serves(template.port))
    /\ pod' = [pod EXCEPT ![p] = "none"] /\ UNCHANGED portOnly /\ PodChanges /\ Around
PodFails(p) ==
    /\ Serves(p) /\ opFaults < MaxOperatorFaults /\ opFaults' = opFaults + 1
    /\ pod' = [pod EXCEPT ![p] = "starting"] /\ portOnly' = FALSE /\ PodChanges
    /\ UNCHANGED <<contested, doc, secrets, egress, phase, pass, sweep>>

\* cert-manager fills the Secret of a Certificate; a Secret can go missing.
SecretIssued(o, x) ==
    /\ o \in objs /\ x \notin secrets /\ secrets' = secrets \cup {x}
    /\ UNCHANGED <<spec, granted, restricted, contested, objs, doc, template, pod, svc, egress, phase, pass, passQueued, sweep, portOnly, opEdits, opFaults>>
SecretLost ==
    /\ secrets # {} /\ opFaults < MaxOperatorFaults /\ opFaults' = opFaults + 1 /\ secrets' = {}
    /\ UNCHANGED <<spec, granted, restricted, contested, objs, doc, template, pod, svc, egress, phase, pass, passQueued, sweep, portOnly, opEdits>>

\* Any other event about the server or an object of its, the operator's own
\* writes included.
Woken ==
    /\ spec # Absent /\ ~ passQueued /\ passQueued' = TRUE
    /\ UNCHANGED <<clusterVars, phase, pass, sweep, portOnly, opEdits, opFaults>>

PassStep ==
    \/ fetchMCPServer \/ deleteTraefikEgressPolicy \/ validateMCPServerSpec \/ RouteChecked \/ validateGatewayConfig
    \/ renderGatewayPolicy \/ reconcilePolicyConfigMap
    \/ reconcileGatewayCertificate \/ reconcileTraefikClientCertificate \/ reconcileMTLSNetworkPolicy
    \/ reconcileAnalyticsCA \/ ensureWorkloadServiceAccount \/ ensureRegistryPullSecret \/ servingDeploymentStrategy
    \/ reconcileDeployment \/ reconcileCanaryDeployment \/ hasReadyServingPod \/ reconcileService
    \/ traefikEgressRestricted \/ reconcileTraefikEgress \/ reconcileMTLSTrustBundle \/ reconcileMTLSIngress
    \/ reconcileIngress \/ (\E published, up \in BOOLEAN : checkResourceReadiness(published, up)) \/ updateStatus
CertManager == SecretIssued("gatewayCert", "gatewaySecret") \/ SecretIssued("clientCert", "clientSecret")
Kubelet == PodStarts \/ \E p \in ListenPorts : PodReady(p) \/ PodDrained(p)
OperatorNext ==
    \/ PassStep \/ reconcileResourcesFails \/ OperatorRestarts \/ sweepTraefikEgressPolicies \/ sweepFails \/ Woken
    \/ \E s \in ServerSpecs : SpecEdited(s) \/ ServerCreated(s)
    \/ ServerDeleted \/ requestsForReferencedServer \/ requestsForTraefikEgressPolicy \/ RouteContested
    \/ Kubelet \/ (\E p \in ListenPorts : PodFails(p)) \/ CertManager \/ SecretLost
OperatorFairness ==
    /\ WF_operatorVars(PassStep) /\ WF_operatorVars(sweepTraefikEgressPolicies)
    /\ WF_operatorVars(Kubelet) /\ WF_operatorVars(CertManager)
-----------------------------------------------------------------------------
OperatorTypeOK ==
    /\ spec \in ServerSpecs \cup {Absent} /\ pass.spec \in ServerSpecs \cup {Absent}
    /\ svc \in ListenPorts \cup {0} /\ egress \subseteq ListenPorts
    /\ template.port \in ListenPorts \cup {0}
    /\ phase \in {"", "Error", "Pending", "PartiallyReady", "Ready"}
    /\ sweep \in {"no", "list", "check", "delete", "failed"}

\* No pod ever runs outside its ingress boundary, whatever fails or restarts
\* between two calls (reconcileResources).
BoundaryBeforePods == (\E p \in ListenPorts : pod[p] # "none") \/ "canary" \in objs => "boundary" \in objs

\* A change of port never takes service away: while clients are served, a step
\* leaves the Service on a serving pod or a ready candidate waiting to be routed
\* to, for Recreate rollouts and ports changed back and forth as well
\* (servingDeploymentStrategy, reconcileService).
ServedThroughPortChange ==
    [][svc # 0 /\ Serves(svc) /\ portOnly'
         => svc' # 0 /\ (Serves(svc)' \/ Serves(template.port)')]_operatorVars

\* What the cluster looks like when the operator has done its work.  The one
\* thing it may leave behind is the egress policy of a server deleted while it
\* was down, when the sweep of its start failed.
Reconciled ==
    IF spec = Absent THEN egress = {} \/ sweep = "failed"
    ELSE spec.valid /\ spec.resolves /\ spec.parses =>
         /\ svc = spec.port /\ Serves(svc)
         /\ egress = IF restricted THEN {svc} ELSE {}
         /\ (IF usesAdapterCertificates(spec) THEN "route" ELSE "ingress") \in objs
         /\ Cardinality(objs \cap {"route", "ingress"}) = 1
         /\ "canary" \in objs <=> spec.canary
         /\ doc = (spec.gateway /\ granted)

\* The operator never falls asleep on unfinished work: with nothing queued, no
\* pass and no sweep under way the cluster is reconciled.  Every change the
\* result depends on is an event or is polled for (Reconcile, SetupWithManager).
QuietMeansReconciled == PassAt("idle") /\ ~ passQueued /\ ~ Sweeping => Reconciled

\* ... and with an end of changes and failures it gets there, unless the route
\* is another's (Reconcile).
OperatorConverges == <>[](contested \/ Reconciled)

\* A live route survives missing Secrets: a pass for adapter certificates never
\* removes the IngressRoute (reconcileMTLSIngress).
RouteSurvivesSecretGaps ==
    [][~ PassAt("idle") /\ pass.spec # Absent /\ usesAdapterCertificates(pass.spec) /\ "route" \in objs
         => "route" \in objs' \/ spec' = Absent]_operatorVars
\* Whatever fails, restarts or changes between two calls of a pass, pods stay behind their boundary, served
\* ports and routes stay served, and the operator rests only on finished work.
OperatorSound ==
    [](OperatorTypeOK /\ BoundaryBeforePods /\ QuietMeansReconciled) /\ ServedThroughPortChange /\ RouteSurvivesSecretGaps
=============================================================================
