---------------------------- MODULE ClusterProofs ----------------------------
(***************************************************************************)
(* Proofs about what is done to the cluster and said of it: the operator's *)
(* pass over one server (OperatorPass), the public routes that servers     *)
(* compete for (RouteOwnership) and the doctor's report (Doctor).          *)
(*                                                                         *)
(* A pass works on a copy of the specification, while the specification,   *)
(* the pods, the certificates and the policies change around it and calls  *)
(* fail.  That it never rests on unfinished work is proved by saying what  *)
(* an unqueued server means all along the pass and not only at its end:    *)
(* the copy is current, and what the pass has written so far is still what *)
(* it would write now (UpToDate), because every change that would make it  *)
(* stale queues the server.  That a change of port keeps a served pod      *)
(* rests on the strategy of the template being the surging one whenever    *)
(* the Service is elsewhere (PortsKept), from the step that chooses it to  *)
(* the step that moves the Service.                                        *)
(*                                                                         *)
(* The doctor's lists of checks are constant-level: what each names, where *)
(* it runs its pods, and that a healthy cluster passes it.  Its run is     *)
(* sound because without trouble in between every check is answered as the *)
(* one cluster it all saw answers (DocQuiet), and without any trouble well *)
(* (DocCalm); and a pod left behind is a delete that failed (DocRemoved).  *)
(***************************************************************************)
EXTENDS OperatorPass, RouteOwnership, Doctor, TLAPS,
        FiniteSetTheorems, SequenceTheorems, WellFoundedInduction

-----------------------------------------------------------------------------
\* The pass over one server.

OperatorSpec == OperatorInit /\ [][OperatorNext]_operatorVars

Deciding == {"ownership", "config", "policy", "configMap"}
Working == Deciding \cup
           {"gatewayCert", "noGatewayCert", "clientCert", "noClientCert", "boundary", "analytics", "account", "pullSecret", "strategy",
            "deployment", "canary", "service", "serviceWrite", "egress", "egressWrite", "bundle", "ingress", "oldIngress", "readiness", "status"}
Phases == {"", "Error", "Pending", "PartiallyReady", "Ready"}
PassType == [pc : {"idle", "gone", "validate"} \cup Working, spec : ServerSpecs \cup {Absent},
             found : BOOLEAN, surge : BOOLEAN, phase : Phases]
TemplateType == [port : ListenPorts \cup {0}, surge : BOOLEAN, recreate : BOOLEAN,
                 mounts : SUBSET {"policy", "analyticsCA", "gatewaySecret"}]
Mounts(s) == buildDeploymentContainers(s)

ClusterTyped ==
    /\ spec \in ServerSpecs \cup {Absent} /\ template \in TemplateType
    /\ pod \in [ListenPorts -> {"none", "starting", "updating", "ready"}]
    /\ svc \in ListenPorts \cup {0} /\ egress \subseteq ListenPorts
    /\ granted \in BOOLEAN /\ restricted \in BOOLEAN /\ doc \in BOOLEAN
PassTyped ==
    /\ pass \in PassType /\ passQueued \in BOOLEAN /\ portOnly \in BOOLEAN
    /\ phase \in Phases /\ sweep \in {"no", "list", "check", "delete", "failed"}
    /\ pass.pc \in Working \cup {"validate"} => pass.spec \in ServerSpecs
    /\ pass.pc = "gone" => pass.spec = Absent

\* A server that is gone has nothing left but its egress policy.
NothingOwned ==
    spec = Absent => /\ objs \subseteq OfNamespace /\ template = NoTemplate /\ svc = 0
                     /\ \A p \in ListenPorts : pod[p] = "none"

\* Pods have a template, and a template, a canary, or a pass about to write one, has the boundary.
Bounded ==
    /\ (\E p \in ListenPorts : pod[p] # "none") => template # NoTemplate
    /\ template # NoTemplate => template.port # 0 /\ "boundary" \in objs
    /\ "canary" \in objs => "boundary" \in objs
    /\ pass.pc \in {"analytics", "account", "pullSecret", "strategy", "deployment", "canary"} /\ spec # Absent => "boundary" \in objs

\* What a pass has written so far, the route and the phase it is about to write, is so for the present server.
Entry(s) == IF usesAdapterCertificates(s) THEN "route" ELSE "ingress"
Written ==
    /\ pass.spec = spec
    /\ pass.pc = "configMap" => spec.gateway /\ pass.found = granted
    /\ pass.pc \in Working \ Deciding => doc = (spec.gateway /\ granted)
    /\ pass.pc = "egressWrite" => pass.found = restricted
    /\ pass.pc \in {"service", "serviceWrite", "egress", "egressWrite", "bundle", "ingress", "oldIngress", "readiness", "status"} =>
         ("canary" \in objs <=> spec.canary)
    /\ pass.pc \in {"bundle", "ingress", "oldIngress", "readiness", "status"} =>
         egress = IF restricted THEN {spec.port} \cup ({svc} \ {0}) ELSE {}
    /\ pass.pc \in {"oldIngress", "readiness", "status"} /\ ~ usesAdapterCertificates(spec) => "route" \notin objs
    /\ pass.pc \in {"readiness", "status"} /\ usesAdapterCertificates(spec) => "ingress" \notin objs
    /\ pass.pc = "status" /\ pass.phase = "Ready" => svc = spec.port /\ Serves(svc) /\ Entry(spec) \in objs
\* With nothing queued the pass works on what the server is now, and what it has done is still so.
UpToDate == passQueued = FALSE /\ pass.pc # "idle" => Written

\* Rest is for finished work; a sweep may still have a policy of a server that is gone to remove.
Rested ==
    /\ passQueued = FALSE /\ pass.pc = "idle" /\ spec # Absent => Reconciled
    /\ passQueued = FALSE /\ pass.pc = "idle" /\ spec = Absent => egress = {} \/ sweep # "no"

\* A Service that routes elsewhere than the template surges, and ports alone do not change what pods mount.
PortsKept ==
    /\ svc # 0 => svc = template.port \/ template.surge = TRUE
    /\ pass.pc = "deployment" /\ spec # Absent /\ svc # 0 => svc = pass.spec.port \/ pass.surge = TRUE
    /\ pass.pc \in {"canary", "service", "serviceWrite"} /\ spec # Absent => template.port = pass.spec.port
    /\ pass.pc = "serviceWrite" /\ pass.found = TRUE /\ portOnly = TRUE => Serves(pass.spec.port)
    /\ portOnly = TRUE => /\ spec # Absent
                          /\ template # NoTemplate => template.mounts = Mounts(spec)
                          /\ pass.spec # Absent => Mounts(pass.spec) = Mounts(spec)
OperatorInv == ClusterTyped /\ PassTyped /\ NothingOwned /\ Bounded /\ UpToDate /\ Rested /\ PortsKept

\* The empty template and pass are of their types; no specification is absent.
LEMMA OperatorConstants ==
    /\ NoTemplate \in TemplateType /\ NoTemplate.port = 0 /\ NoPass \in PassType /\ NoPass.pc = "idle" /\ NoPass.spec = Absent
    /\ 0 \notin ListenPorts
    /\ \A s \in ServerSpecs : s.port \in ListenPorts /\ s.gateway \in BOOLEAN /\ s.tls \in BOOLEAN /\ s.recreate \in BOOLEAN
                              /\ s.canary \in BOOLEAN /\ s.valid \in BOOLEAN /\ s.resolves \in BOOLEAN /\ s.parses \in BOOLEAN /\ s # Absent
                              /\ Mounts(s) \in SUBSET {"policy", "analyticsCA", "gatewaySecret"}
<1>1. \A s \in ServerSpecs : s \in [port : ListenPorts, gateway : BOOLEAN, tls : BOOLEAN,
                             recreate : BOOLEAN, canary : BOOLEAN, valid : BOOLEAN,
                             resolves : BOOLEAN, parses : BOOLEAN]
  BY OperatorAssumption
<1>2. \A s \in ServerSpecs : Mounts(s) \in SUBSET {"policy", "analyticsCA", "gatewaySecret"}
  BY DEF Mounts, buildDeploymentContainers, buildGatewayContainer
<1> QED
  BY <1>1, <1>2, OperatorAssumption DEF NoTemplate, TemplateType, NoPass, PassType, Phases

\* A server that was just created satisfies the invariant.
LEMMA OperatorInitially == OperatorInit => OperatorInv
<1> SUFFICES ASSUME OperatorInit PROVE OperatorInv
  OBVIOUS
<1>1. spec \in ServerSpecs /\ spec # Absent
  BY OperatorConstants DEF OperatorInit
<1>2. ClusterTyped /\ PassTyped
  BY <1>1, OperatorConstants DEF OperatorInit, OperatorStarted, ClusterTyped, PassTyped, Working, Deciding, Phases
<1>3. NothingOwned /\ Bounded /\ UpToDate /\ Rested
  BY <1>1, OperatorConstants DEF OperatorInit, OperatorStarted, NothingOwned, Bounded, UpToDate, Rested, Working, Deciding
<1>4. PortsKept
  BY <1>1, OperatorConstants DEF OperatorInit, OperatorStarted, PortsKept
<1> QED
  BY <1>2, <1>3, <1>4 DEF OperatorInv
-----------------------------------------------------------------------------
\* The pass, call by call.

\* The pass reads the server.
LEMMA FetchingKept == ASSUME OperatorInv, fetchMCPServer PROVE OperatorInv'
<1> USE OperatorConstants DEF OperatorInv, fetchMCPServer, clusterVars, Rest, GoTo, Finds, PassAt, S
<1>1. ClusterTyped'
  BY DEF ClusterTyped, PassTyped, TemplateType, PassType, Mounts
<1>2. PassTyped'
  BY DEF ClusterTyped, PassTyped, PassType, Working, Deciding, Phases
<1>3. NothingOwned' /\ Bounded'
  BY DEF ClusterTyped, PassTyped, PassType, NothingOwned, Bounded, Working, Deciding
<1>4. UpToDate' /\ Rested'
  BY DEF ClusterTyped, PassTyped, PassType, NothingOwned, UpToDate, Written, Rested, Working, Deciding, Reconciled, usesAdapterCertificates, Entry, Serves
<1>5. PortsKept'
  BY DEF ClusterTyped, PassTyped, PassType, PortsKept, NothingOwned, Working, Deciding, Serves
<1> QED
  BY <1>1, <1>2, <1>3, <1>4, <1>5

\* The server is gone: its egress policy is removed.
LEMMA ForgettingKept == ASSUME OperatorInv, deleteTraefikEgressPolicy PROVE OperatorInv'
<1> USE OperatorConstants DEF OperatorInv, deleteTraefikEgressPolicy, Ends, clusterVars, Rest, GoTo, Finds, PassAt, S
<1>1. ClusterTyped'
  BY DEF ClusterTyped, PassTyped, TemplateType, PassType, Mounts
<1>2. PassTyped'
  BY DEF ClusterTyped, PassTyped, PassType, Working, Deciding, Phases
<1>3. NothingOwned' /\ Bounded'
  BY DEF ClusterTyped, PassTyped, PassType, NothingOwned, Bounded, Working, Deciding
<1>4. UpToDate' /\ Rested'
  BY DEF ClusterTyped, PassTyped, PassType, NothingOwned, UpToDate, Written, Rested, Working, Deciding, Reconciled, usesAdapterCertificates, Entry, Serves
<1>5. PortsKept'
  BY DEF ClusterTyped, PassTyped, PassType, PortsKept, NothingOwned, Working, Deciding, Serves
<1> QED
  BY <1>1, <1>2, <1>3, <1>4, <1>5

\* A pass that is given up and queued again leaves nothing that was relied on.
LEMMA GivenUp ==
    ASSUME OperatorInv, pass' = NoPass, passQueued' = TRUE, phase' \in {phase, "Error"},
           objs' \in {objs, objs \ {"ingress"}},
           UNCHANGED <<spec, granted, restricted, doc, template, pod, svc, egress, portOnly, sweep>>
    PROVE  OperatorInv'
<1> USE OperatorConstants DEF OperatorInv
<1>1. ClusterTyped'
  BY DEF ClusterTyped
<1>2. phase' \in Phases /\ NoPass.pc \notin Working \cup {"validate"}
  BY DEF PassTyped, Phases, Working, Deciding
<1>3. PassTyped'
  BY <1>2 DEF PassTyped
<1>4. NothingOwned' /\ Bounded'
  BY DEF NothingOwned, Bounded
<1>5. UpToDate' /\ Rested' /\ PortsKept'
  BY DEF UpToDate, Rested, PortsKept
<1> QED
  BY <1>1, <1>3, <1>4, <1>5

\* The specification is valid, or the pass ends.
LEMMA ValidatingKept == ASSUME OperatorInv, validateMCPServerSpec PROVE OperatorInv'
<1> USE OperatorConstants DEF OperatorInv, PassAt, S
<1>a. pass.pc = "validate" /\ UNCHANGED <<spec, granted, restricted, doc, template, pod, svc, egress, portOnly, sweep>>
  BY DEF validateMCPServerSpec, Rest
<1>1. CASE S.valid
  <2>1. UNCHANGED <<objs, phase, passQueued>> /\ pass' = [pass EXCEPT !.pc = "ownership", !.found = FALSE]
    BY <1>1 DEF validateMCPServerSpec, GoTo, Finds
  <2>2. pass' \in PassType /\ pass'.pc = "ownership" /\ pass'.spec = pass.spec
    BY <2>1 DEF PassTyped, PassType, Working, Deciding
  <2>3. ClusterTyped' /\ PassTyped' /\ NothingOwned' /\ Bounded'
    BY <1>a, <2>1, <2>2 DEF ClusterTyped, PassTyped, Working, Deciding, NothingOwned, Bounded
  <2>4. UpToDate' /\ Rested' /\ PortsKept'
    BY <1>a, <2>1, <2>2 DEF UpToDate, Written, Rested, PortsKept, Deciding
  <2> QED
    BY <2>3, <2>4
<1>2. CASE ~ (S.valid)
  <2>1. pass' = NoPass /\ passQueued' = TRUE /\ phase' \in {phase, "Error"} /\ objs' = objs
    BY <1>2 DEF validateMCPServerSpec, Fails, Ends, WriteStatus, RemoveObject
  <2> QED
    BY <1>a, <2>1, GivenUp
<1> QED
  BY <1>1, <1>2

\* The route is the server's, or the pass ends and its Ingress goes.
LEMMA RouteCheckedKept == ASSUME OperatorInv, RouteChecked PROVE OperatorInv'
<1> USE OperatorConstants DEF OperatorInv, PassAt, S
<1>a. pass.pc = "ownership" /\ UNCHANGED <<spec, granted, restricted, doc, template, pod, svc, egress, portOnly, sweep>>
  BY DEF RouteChecked, Rest
<1>1. CASE ~ contested
  <2>1. UNCHANGED <<objs, phase, passQueued>> /\ pass' = [pass EXCEPT !.pc = "config", !.found = FALSE]
    BY <1>1 DEF RouteChecked, GoTo, Finds
  <2>2. pass' \in PassType /\ pass'.pc = "config" /\ pass'.spec = pass.spec
    BY <2>1 DEF PassTyped, PassType, Working, Deciding
  <2>3. ClusterTyped' /\ PassTyped' /\ NothingOwned' /\ Bounded'
    BY <1>a, <2>1, <2>2 DEF ClusterTyped, PassTyped, Working, Deciding, NothingOwned, Bounded
  <2>4. UpToDate' /\ Rested' /\ PortsKept'
    BY <1>a, <2>1, <2>2 DEF UpToDate, Written, Rested, PortsKept, Deciding
  <2> QED
    BY <2>3, <2>4
<1>2. CASE ~ (~ contested)
  <2>1. pass' = NoPass /\ passQueued' = TRUE /\ phase' \in {phase, "Error"} /\ objs' = objs \ {"ingress"}
    BY <1>2 DEF RouteChecked, Fails, Ends, WriteStatus, RemoveObject
  <2> QED
    BY <1>a, <2>1, GivenUp
<1> QED
  BY <1>1, <1>2

\* What the operator supplies is there, or the pass ends.
LEMMA ConfigKept == ASSUME OperatorInv, validateGatewayConfig PROVE OperatorInv'
<1> USE OperatorConstants DEF OperatorInv, PassAt, S
<1>a. pass.pc = "config" /\ UNCHANGED <<spec, granted, restricted, doc, template, pod, svc, egress, portOnly, sweep>>
  BY DEF validateGatewayConfig, Rest
<1>1. CASE S.resolves
  <2>1. UNCHANGED <<objs, phase, passQueued>> /\ pass' = [pass EXCEPT !.pc = "policy", !.found = FALSE]
    BY <1>1 DEF validateGatewayConfig, GoTo, Finds
  <2>2. pass' \in PassType /\ pass'.pc = "policy" /\ pass'.spec = pass.spec
    BY <2>1 DEF PassTyped, PassType, Working, Deciding
  <2>3. ClusterTyped' /\ PassTyped' /\ NothingOwned' /\ Bounded'
    BY <1>a, <2>1, <2>2 DEF ClusterTyped, PassTyped, Working, Deciding, NothingOwned, Bounded
  <2>4. UpToDate' /\ Rested' /\ PortsKept'
    BY <1>a, <2>1, <2>2 DEF UpToDate, Written, Rested, PortsKept, Deciding
  <2> QED
    BY <2>3, <2>4
<1>2. CASE ~ (S.resolves)
  <2>1. pass' = NoPass /\ passQueued' = TRUE /\ phase' \in {phase, "Error"} /\ objs' = objs
    BY <1>2 DEF validateGatewayConfig, Fails, Ends, WriteStatus, RemoveObject
  <2> QED
    BY <1>a, <2>1, GivenUp
<1> QED
  BY <1>1, <1>2

\* The grants are read.
LEMMA RenderingKept == ASSUME OperatorInv, renderGatewayPolicy PROVE OperatorInv'
<1> USE OperatorConstants DEF OperatorInv, renderGatewayPolicy, clusterVars, Rest, GoTo, Finds, PassAt, S
<1>1. ClusterTyped'
  BY DEF ClusterTyped, PassTyped, TemplateType, PassType, Mounts
<1>2. PassTyped'
  BY DEF ClusterTyped, PassTyped, PassType, Working, Deciding, Phases
<1>3. NothingOwned' /\ Bounded'
  BY DEF ClusterTyped, PassTyped, PassType, NothingOwned, Bounded, Working, Deciding
<1>4. UpToDate' /\ Rested'
  BY DEF ClusterTyped, PassTyped, PassType, NothingOwned, UpToDate, Written, Rested, Working, Deciding, Reconciled, usesAdapterCertificates, Entry, Serves
<1>5. PortsKept'
  BY DEF ClusterTyped, PassTyped, PassType, PortsKept, NothingOwned, Working, Deciding, Serves
<1> QED
  BY <1>1, <1>2, <1>3, <1>4, <1>5

\* The policy ConfigMap is written.
LEMMA PolicyKept == ASSUME OperatorInv, reconcilePolicyConfigMap PROVE OperatorInv'
<1> USE OperatorConstants DEF OperatorInv, reconcilePolicyConfigMap, Put, Owned, RemoveObject, clusterVars, Rest, GoTo, Finds, PassAt, S
<1>1. ClusterTyped'
  BY DEF ClusterTyped, PassTyped, TemplateType, PassType, Mounts
<1>2. PassTyped'
  BY DEF ClusterTyped, PassTyped, PassType, Working, Deciding, Phases
<1>3. NothingOwned' /\ Bounded'
  BY DEF ClusterTyped, PassTyped, PassType, NothingOwned, Bounded, Working, Deciding
<1>a. pass'.pc = "gatewayCert" /\ pass'.spec = pass.spec /\ pass.spec \in ServerSpecs
  BY DEF PassTyped, PassType, Working, Deciding
<1>b. UNCHANGED <<spec, granted, passQueued>>
  OBVIOUS
<1>c. passQueued = FALSE => pass.spec = spec /\ doc' = (spec.gateway /\ granted)
  <2> SUFFICES ASSUME passQueued = FALSE PROVE pass.spec = spec /\ doc' = (spec.gateway /\ granted)
    OBVIOUS
  <2>1. pass.spec = spec /\ spec \in ServerSpecs /\ (pass.pc = "configMap" => spec.gateway /\ pass.found = granted)
    BY <1>a DEF UpToDate, Written
  <2>2. CASE pass.pc = "policy"
    BY <2>1, <2>2
  <2>3. CASE pass.pc = "configMap"
    <3>1. doc' = (pass.found /\ TRUE)
      BY <2>1, <2>3
    <3> HIDE DEF reconcilePolicyConfigMap, OperatorInv
    <3> QED
      BY <2>1, <2>3, <3>1
  <2> QED
    BY <2>2, <2>3
<1>4. UpToDate' /\ Rested'
  <2> HIDE DEF reconcilePolicyConfigMap
  <2>1. UpToDate'
    BY <1>a, <1>b, <1>c DEF UpToDate, Written, Deciding
  <2> QED
    BY <1>a, <2>1 DEF Rested
<1>5. PortsKept'
  BY DEF ClusterTyped, PassTyped, PassType, PortsKept, NothingOwned, Working, Deciding, Serves
<1> QED
  BY <1>1, <1>2, <1>3, <1>4, <1>5

\* The calls for a certificate and its Secret touch nothing else.
LEMMA CertificateKept ==
    ASSUME OperatorInv, NEW n, n = "noGatewayCert" \/ n = "clientCert" \/ n = "noClientCert" \/ n = "boundary",
           pass.pc = "gatewayCert" \/ pass.pc = "noGatewayCert" \/ pass.pc = "clientCert" \/ pass.pc = "noClientCert",
           pass' = [pass EXCEPT !.pc = n, !.found = FALSE], NEW c, c = "gatewayCert" \/ c = "clientCert",
           objs' = objs \/ objs' = objs \cup Owned({c}) \/ objs' = objs \ {c},
           UNCHANGED <<spec, granted, restricted, doc, template, pod, svc, egress, phase, passQueued, portOnly, sweep>>
    PROVE  OperatorInv'
<1> USE OperatorConstants DEF OperatorInv
<1>a. pass.spec \in ServerSpecs /\ pass \in PassType
  BY DEF PassTyped, Working, Deciding
<1>b. n \in Working \ Deciding /\ pass.pc \in Working \ Deciding
  BY DEF Working, Deciding
<1>c. pass' \in PassType /\ pass'.pc = n /\ pass'.spec = pass.spec
  BY <1>a, <1>b DEF PassType
<1>1. ClusterTyped' /\ PassTyped'
  BY <1>a, <1>b, <1>c DEF ClusterTyped, PassTyped
<1>2. NothingOwned' /\ Bounded'
  BY <1>c DEF NothingOwned, Bounded, Owned
<1>3. UpToDate' /\ Rested'
  <2>1. pass.pc # "idle" /\ pass'.pc # "idle"
    BY <1>c
  <2>2. UpToDate'
    BY <1>b, <1>c, <2>1 DEF UpToDate, Written
  <2> QED
    BY <2>1, <2>2 DEF Rested
<1>4. PortsKept'
  BY <1>c DEF PortsKept, Serves
<1> QED
  BY <1>1, <1>2, <1>3, <1>4

\* The gateway's certificate is asked for, or removed.
LEMMA GatewayCertificateKept == ASSUME OperatorInv, reconcileGatewayCertificate PROVE OperatorInv'
BY CertificateKept
   DEF reconcileGatewayCertificate, ReconcileCertificate, applyUnstructured, Put, RemoveObject, Rest, GoTo, Finds, PassAt

\* Traefik's certificate is asked for, or removed.
LEMMA ClientCertificateKept == ASSUME OperatorInv, reconcileTraefikClientCertificate PROVE OperatorInv'
BY CertificateKept
   DEF reconcileTraefikClientCertificate, ReconcileCertificate, applyUnstructured, Put, RemoveObject, Rest, GoTo, Finds, PassAt

\* The network policy comes before the pods.
LEMMA BoundaryKept == ASSUME OperatorInv, reconcileMTLSNetworkPolicy PROVE OperatorInv'
<1> USE OperatorConstants DEF OperatorInv, reconcileMTLSNetworkPolicy, Put, Owned, RemoveObject, clusterVars, Rest, GoTo, Finds, PassAt, S
<1>1. ClusterTyped'
  BY DEF ClusterTyped, PassTyped, TemplateType, PassType, Mounts
<1>2. PassTyped'
  BY DEF ClusterTyped, PassTyped, PassType, Working, Deciding, Phases
<1>3. NothingOwned' /\ Bounded'
  BY DEF ClusterTyped, PassTyped, PassType, NothingOwned, Bounded, Working, Deciding
<1>4. UpToDate' /\ Rested'
  BY DEF ClusterTyped, PassTyped, PassType, NothingOwned, UpToDate, Written, Rested, Working, Deciding, Reconciled, usesAdapterCertificates, Entry, Serves
<1>5. PortsKept'
  BY DEF ClusterTyped, PassTyped, PassType, PortsKept, NothingOwned, Working, Deciding, Serves
<1> QED
  BY <1>1, <1>2, <1>3, <1>4, <1>5

\* The analytics CA.
LEMMA AnalyticsKept == ASSUME OperatorInv, reconcileAnalyticsCA PROVE OperatorInv'
<1> USE OperatorConstants DEF OperatorInv, reconcileAnalyticsCA, Put, Owned, RemoveObject, clusterVars, Rest, GoTo, Finds, PassAt, S
<1>1. ClusterTyped'
  BY DEF ClusterTyped, PassTyped, TemplateType, PassType, Mounts
<1>2. PassTyped'
  BY DEF ClusterTyped, PassTyped, PassType, Working, Deciding, Phases
<1>3. NothingOwned' /\ Bounded'
  BY DEF ClusterTyped, PassTyped, PassType, NothingOwned, Bounded, Working, Deciding
<1>4. UpToDate' /\ Rested'
  BY DEF ClusterTyped, PassTyped, PassType, NothingOwned, UpToDate, Written, Rested, Working, Deciding, Reconciled, usesAdapterCertificates, Entry, Serves
<1>5. PortsKept'
  BY DEF ClusterTyped, PassTyped, PassType, PortsKept, NothingOwned, Working, Deciding, Serves
<1> QED
  BY <1>1, <1>2, <1>3, <1>4, <1>5

\* The account of the namespace.
LEMMA AccountKept == ASSUME OperatorInv, ensureWorkloadServiceAccount PROVE OperatorInv'
<1> USE OperatorConstants DEF OperatorInv, ensureWorkloadServiceAccount, OfNamespace, clusterVars, Rest, GoTo, Finds, PassAt, S
<1>1. ClusterTyped'
  BY DEF ClusterTyped, PassTyped, TemplateType, PassType, Mounts
<1>2. PassTyped'
  BY DEF ClusterTyped, PassTyped, PassType, Working, Deciding, Phases
<1>3. NothingOwned' /\ Bounded'
  BY DEF ClusterTyped, PassTyped, PassType, NothingOwned, Bounded, Working, Deciding
<1>4. UpToDate' /\ Rested'
  BY DEF ClusterTyped, PassTyped, PassType, NothingOwned, UpToDate, Written, Rested, Working, Deciding, Reconciled, usesAdapterCertificates, Entry, Serves
<1>5. PortsKept'
  BY DEF ClusterTyped, PassTyped, PassType, PortsKept, NothingOwned, Working, Deciding, Serves
<1> QED
  BY <1>1, <1>2, <1>3, <1>4, <1>5

\* The pull secret of the namespace.
LEMMA PullSecretKept == ASSUME OperatorInv, ensureRegistryPullSecret PROVE OperatorInv'
<1> USE OperatorConstants DEF OperatorInv, ensureRegistryPullSecret, OfNamespace, clusterVars, Rest, GoTo, Finds, PassAt, S
<1>1. ClusterTyped'
  BY DEF ClusterTyped, PassTyped, TemplateType, PassType, Mounts
<1>2. PassTyped'
  BY DEF ClusterTyped, PassTyped, PassType, Working, Deciding, Phases
<1>3. NothingOwned' /\ Bounded'
  BY DEF ClusterTyped, PassTyped, PassType, NothingOwned, Bounded, Working, Deciding
<1>4. UpToDate' /\ Rested'
  BY DEF ClusterTyped, PassTyped, PassType, NothingOwned, UpToDate, Written, Rested, Working, Deciding, Reconciled, usesAdapterCertificates, Entry, Serves
<1>5. PortsKept'
  BY DEF ClusterTyped, PassTyped, PassType, PortsKept, NothingOwned, Working, Deciding, Serves
<1> QED
  BY <1>1, <1>2, <1>3, <1>4, <1>5

\* The strategy is chosen, the Deployment written and the Service moved: between these the ports are kept.
LEMMA StrategyKept == ASSUME OperatorInv, servingDeploymentStrategy PROVE OperatorInv'
<1> USE OperatorConstants DEF OperatorInv, servingDeploymentStrategy, servingPort, clusterVars, Rest, GoTo, Finds, PassAt, S
<1>1. ClusterTyped'
  BY DEF ClusterTyped, PassTyped, TemplateType, PassType, Mounts
<1>2. PassTyped'
  BY DEF ClusterTyped, PassTyped, PassType, Working, Deciding, Phases
<1>3. NothingOwned' /\ Bounded'
  BY DEF ClusterTyped, PassTyped, PassType, NothingOwned, Bounded, Working, Deciding
<1>4. UpToDate' /\ Rested'
  BY DEF ClusterTyped, PassTyped, PassType, NothingOwned, UpToDate, Written, Rested, Working, Deciding, Reconciled, usesAdapterCertificates, Entry, Serves
<1>5. PortsKept'
  BY DEF ClusterTyped, PassTyped, PassType, PortsKept, NothingOwned, Working, Deciding, Serves
<1> QED
  BY <1>1, <1>2, <1>3, <1>4, <1>5

\* The Deployment gets its template.
LEMMA DeploymentKept == ASSUME OperatorInv, reconcileDeployment PROVE OperatorInv'
<1> USE OperatorConstants DEF OperatorInv, PassAt, S
<1>a. pass.spec \in ServerSpecs /\ pass \in PassType /\ pass.pc = "deployment"
  BY DEF PassTyped, Working, Deciding, reconcileDeployment
<1>b. UNCHANGED <<spec, granted, restricted, objs, doc, svc, egress, portOnly, sweep>>
  BY DEF reconcileDeployment, Rest
<1>1. CASE ~ applyContainerResources(S)
  <2>1. pass' = NoPass /\ passQueued' = TRUE /\ phase' \in {phase, "Error"} /\ UNCHANGED <<template, pod>>
    BY <1>1 DEF reconcileDeployment, Fails, Ends, WriteStatus
  <2> QED
    BY <1>b, <2>1, GivenUp
<1>2. CASE applyContainerResources(S)
  <2>1. pass' = [pass EXCEPT !.pc = "canary", !.found = FALSE] /\ phase' = phase /\ passQueued' = (passQueued \/ template' # template)
    BY <1>2 DEF reconcileDeployment, GoTo, Finds
  <2>2. pass'.pc = "canary" /\ pass'.spec = pass.spec /\ pass' \in PassType
    BY <1>a, <2>1 DEF PassType, Working, Deciding
  <2>3. CASE spec = Absent
    <3>1. UNCHANGED <<template, pod>>
      BY <1>2, <2>3 DEF reconcileDeployment
    <3>2. ClusterTyped' /\ PassTyped' /\ NothingOwned' /\ Bounded'
      BY <1>a, <1>b, <2>1, <2>2, <2>3, <3>1 DEF ClusterTyped, PassTyped, NothingOwned, Bounded, Working, Deciding
    <3>3. UpToDate' /\ Rested'
      BY <1>a, <1>b, <2>1, <2>2, <2>3, <3>1 DEF PassTyped, UpToDate, Written, Rested
    <3>4. PortsKept'
      BY <1>a, <1>b, <2>1, <2>2, <2>3, <3>1 DEF PortsKept, NothingOwned
    <3> QED
      BY <3>2, <3>3, <3>4
  <2>4. CASE spec # Absent
    <3>1. template' = Template /\ pod' = Rollout(Template)
      BY <1>2, <2>4 DEF reconcileDeployment
    <3>2. /\ template' \in TemplateType /\ template'.port = pass.spec.port /\ template'.surge = pass.surge
          /\ template'.mounts = Mounts(pass.spec) /\ template' # NoTemplate
      BY <1>a, <3>1 DEF Template, Mounts, TemplateType, PassType, servingPort, deploymentStrategy, NoTemplate
    <3>3. pod' \in [ListenPorts -> {"none", "starting", "updating", "ready"}]
      BY <3>1 DEF ClusterTyped, Rollout
    <3>4. ClusterTyped' /\ PassTyped' /\ NothingOwned'
      BY <1>a, <1>b, <2>1, <2>2, <2>4, <3>2, <3>3 DEF ClusterTyped, PassTyped, NothingOwned, Working, Deciding
    <3>5. Bounded'
      BY <1>a, <1>b, <2>2, <2>4, <3>2 DEF Bounded
    <3>6. UpToDate' /\ Rested'
      BY <1>a, <1>b, <2>1, <2>2 DEF PassTyped, UpToDate, Written, Rested, Working, Deciding
    <3>7. PortsKept'
      BY <1>a, <1>b, <2>1, <2>2, <2>4, <3>2 DEF PortsKept
    <3> QED
      BY <3>4, <3>5, <3>6, <3>7
  <2> QED
    BY <2>3, <2>4
<1> QED
  BY <1>1, <1>2

\* The canary is asked for, or removed.
LEMMA CanaryKept == ASSUME OperatorInv, reconcileCanaryDeployment PROVE OperatorInv'
<1> USE OperatorConstants DEF OperatorInv, reconcileCanaryDeployment, canaryEnabled, OfNamespace, Owned, RemoveObject, clusterVars, Rest, GoTo, Finds, PassAt, S
<1>1. ClusterTyped'
  BY DEF ClusterTyped, PassTyped, TemplateType, PassType, Mounts
<1>2. PassTyped'
  BY DEF ClusterTyped, PassTyped, PassType, Working, Deciding, Phases
<1>3. NothingOwned' /\ Bounded'
  BY DEF ClusterTyped, PassTyped, PassType, NothingOwned, Bounded, Working, Deciding
<1>4. UpToDate' /\ Rested'
  BY DEF ClusterTyped, PassTyped, PassType, NothingOwned, UpToDate, Written, Rested, Working, Deciding, Reconciled, usesAdapterCertificates, Entry, Serves
<1>5. PortsKept'
  BY DEF ClusterTyped, PassTyped, PassType, PortsKept, NothingOwned, Working, Deciding, Serves
<1> QED
  BY <1>1, <1>2, <1>3, <1>4, <1>5

\* Asking for the pods of the new port only notes whether one serves.
LEMMA PodFound == ASSUME hasReadyServingPod
                  PROVE \E b \in BOOLEAN : pass' = [pass EXCEPT !.pc = "serviceWrite", !.found = b]
<1>1. Serves(servingPort(S)) \in BOOLEAN
  BY DEF Serves
<1>2. pass' = [pass EXCEPT !.pc = "serviceWrite", !.found = Serves(servingPort(S))]
  BY DEF hasReadyServingPod, Finds
<1> QED
  BY <1>1, <1>2

\* The pods of the new port are asked for.
LEMMA ServingPodKept == ASSUME OperatorInv, hasReadyServingPod PROVE OperatorInv'
<1> USE OperatorConstants DEF OperatorInv, hasReadyServingPod, servingPort, RoutesElsewhere, Serves, clusterVars, Rest, GoTo, Finds, PassAt, S
<1>1. ClusterTyped'
  BY DEF ClusterTyped, PassTyped, TemplateType, PassType, Mounts
<1>2. PassTyped'
  <2>1. PICK b \in BOOLEAN : pass' = [pass EXCEPT !.pc = "serviceWrite", !.found = b]
    BY PodFound
  <2>a. pass.pc = "service"
    OBVIOUS
  <2> HIDE DEF hasReadyServingPod
  <2>2. pass' \in PassType /\ pass'.pc = "serviceWrite" /\ pass'.spec = pass.spec
    BY <2>1 DEF PassTyped, PassType, Working, Deciding
  <2>3. passQueued' = passQueued /\ portOnly' = portOnly /\ phase' = phase /\ sweep' = sweep
    BY DEF hasReadyServingPod
  <2> QED
    BY <2>a, <2>2, <2>3 DEF PassTyped, Working, Deciding
<1>3. NothingOwned' /\ Bounded'
  BY DEF ClusterTyped, PassTyped, PassType, NothingOwned, Bounded, Working, Deciding
<1>4. UpToDate' /\ Rested'
  BY DEF ClusterTyped, PassTyped, PassType, NothingOwned, UpToDate, Written, Rested, Working, Deciding, Reconciled, usesAdapterCertificates, Entry, Serves
<1>5. PortsKept'
  BY DEF ClusterTyped, PassTyped, PassType, PortsKept, NothingOwned, Working, Deciding, Serves
<1> QED
  BY <1>1, <1>2, <1>3, <1>4, <1>5

\* The Service turns to another port once a pod listens there.
LEMMA ServiceKept == ASSUME OperatorInv, reconcileService PROVE OperatorInv'
<1> USE OperatorConstants DEF OperatorInv, reconcileService, servingPort, RoutesElsewhere, clusterVars, Rest, GoTo, Finds, PassAt, S
<1>1. ClusterTyped'
  BY DEF ClusterTyped, PassTyped, TemplateType, PassType, Mounts
<1>2. PassTyped'
  BY DEF ClusterTyped, PassTyped, PassType, Working, Deciding, Phases
<1>3. NothingOwned' /\ Bounded'
  BY DEF ClusterTyped, PassTyped, PassType, NothingOwned, Bounded, Working, Deciding
<1>4. UpToDate' /\ Rested'
  BY DEF ClusterTyped, PassTyped, PassType, NothingOwned, UpToDate, Written, Rested, Working, Deciding, Reconciled, usesAdapterCertificates, Entry, Serves
<1>5. PortsKept'
  BY DEF ClusterTyped, PassTyped, PassType, PortsKept, NothingOwned, Working, Deciding, Serves
<1> QED
  BY <1>1, <1>2, <1>3, <1>4, <1>5

\* It is found out whether Traefik's egress is restricted.
LEMMA EgressReadKept == ASSUME OperatorInv, traefikEgressRestricted PROVE OperatorInv'
<1> USE OperatorConstants DEF OperatorInv, traefikEgressRestricted, clusterVars, Rest, GoTo, Finds, PassAt, S
<1>1. ClusterTyped'
  BY DEF ClusterTyped, PassTyped, TemplateType, PassType, Mounts
<1>2. PassTyped'
  BY DEF ClusterTyped, PassTyped, PassType, Working, Deciding, Phases
<1>3. NothingOwned' /\ Bounded'
  BY DEF ClusterTyped, PassTyped, PassType, NothingOwned, Bounded, Working, Deciding
<1>4. UpToDate' /\ Rested'
  BY DEF ClusterTyped, PassTyped, PassType, NothingOwned, UpToDate, Written, Rested, Working, Deciding, Reconciled, usesAdapterCertificates, Entry, Serves
<1>5. PortsKept'
  BY DEF ClusterTyped, PassTyped, PassType, PortsKept, NothingOwned, Working, Deciding, Serves
<1> QED
  BY <1>1, <1>2, <1>3, <1>4, <1>5

\* The egress of the ingress controller.
LEMMA EgressKept == ASSUME OperatorInv, reconcileTraefikEgress PROVE OperatorInv'
<1> USE OperatorConstants DEF OperatorInv, reconcileTraefikEgress, traefikEgressPorts, servingPort, clusterVars, Rest, GoTo, Finds, PassAt, S
<1>a. pass.spec \in ServerSpecs /\ servingPort(S) \in ListenPorts
  BY DEF PassTyped, Working, Deciding
<1>b. traefikEgressPorts(S) \subseteq ListenPorts
  BY <1>a DEF ClusterTyped
<1>1. ClusterTyped'
  BY <1>a, <1>b DEF ClusterTyped
<1>2. PassTyped'
  BY DEF ClusterTyped, PassTyped, PassType, Working, Deciding, Phases
<1>3. NothingOwned' /\ Bounded'
  BY DEF ClusterTyped, PassTyped, PassType, NothingOwned, Bounded, Working, Deciding
<1>4. UpToDate' /\ Rested'
  BY DEF ClusterTyped, PassTyped, PassType, NothingOwned, UpToDate, Written, Rested, Working, Deciding, Reconciled, usesAdapterCertificates, Entry, Serves
<1>5. PortsKept'
  BY DEF ClusterTyped, PassTyped, PassType, PortsKept, NothingOwned, Working, Deciding, Serves
<1> QED
  BY <1>1, <1>2, <1>3, <1>4, <1>5

\* The trust bundle.
LEMMA BundleKept == ASSUME OperatorInv, reconcileMTLSTrustBundle PROVE OperatorInv'
<1> USE OperatorConstants DEF OperatorInv, reconcileMTLSTrustBundle, Put, Owned, RemoveObject, clusterVars, Rest, GoTo, Finds, PassAt, S
<1>1. ClusterTyped'
  BY DEF ClusterTyped, PassTyped, TemplateType, PassType, Mounts
<1>2. PassTyped'
  BY DEF ClusterTyped, PassTyped, PassType, Working, Deciding, Phases
<1>3. NothingOwned' /\ Bounded'
  BY DEF ClusterTyped, PassTyped, PassType, NothingOwned, Bounded, Working, Deciding
<1>4. UpToDate' /\ Rested'
  BY DEF ClusterTyped, PassTyped, PassType, NothingOwned, UpToDate, Written, Rested, Working, Deciding, Reconciled, usesAdapterCertificates, Entry, Serves
<1>5. PortsKept'
  BY DEF ClusterTyped, PassTyped, PassType, PortsKept, NothingOwned, Working, Deciding, Serves
<1> QED
  BY <1>1, <1>2, <1>3, <1>4, <1>5

\* The IngressRoute of the server.
LEMMA RouteKept == ASSUME OperatorInv, reconcileMTLSIngress PROVE OperatorInv'
<1> USE OperatorConstants DEF OperatorInv, reconcileMTLSIngress, deleteMTLSIngress, Put, Owned, RemoveObject, clusterVars, Rest, GoTo, Finds, PassAt, S
<1>1. ClusterTyped'
  BY DEF ClusterTyped, PassTyped, TemplateType, PassType, Mounts
<1>2. PassTyped'
  BY DEF ClusterTyped, PassTyped, PassType, Working, Deciding, Phases
<1>3. NothingOwned' /\ Bounded'
  BY DEF ClusterTyped, PassTyped, PassType, NothingOwned, Bounded, Working, Deciding
<1>4. UpToDate' /\ Rested'
  BY DEF ClusterTyped, PassTyped, PassType, NothingOwned, UpToDate, Written, Rested, Working, Deciding, Reconciled, usesAdapterCertificates, Entry, Serves
<1>5. PortsKept'
  BY DEF ClusterTyped, PassTyped, PassType, PortsKept, NothingOwned, Working, Deciding, Serves
<1> QED
  BY <1>1, <1>2, <1>3, <1>4, <1>5

\* The Ingress of the server.
LEMMA IngressKept == ASSUME OperatorInv, reconcileIngress PROVE OperatorInv'
<1> USE OperatorConstants DEF OperatorInv, reconcileIngress, Put, Owned, RemoveObject, clusterVars, Rest, GoTo, Finds, PassAt, S
<1>1. ClusterTyped'
  BY DEF ClusterTyped, PassTyped, TemplateType, PassType, Mounts
<1>2. PassTyped'
  BY DEF ClusterTyped, PassTyped, PassType, Working, Deciding, Phases
<1>3. NothingOwned' /\ Bounded'
  BY DEF ClusterTyped, PassTyped, PassType, NothingOwned, Bounded, Working, Deciding
<1>4. UpToDate' /\ Rested'
  BY DEF ClusterTyped, PassTyped, PassType, NothingOwned, UpToDate, Written, Rested, Working, Deciding, Reconciled, usesAdapterCertificates, Entry, Serves
<1>5. PortsKept'
  BY DEF ClusterTyped, PassTyped, PassType, PortsKept, NothingOwned, Working, Deciding, Serves
<1> QED
  BY <1>1, <1>2, <1>3, <1>4, <1>5

\* What determinePhase asks for before it says "Ready".
LEMMA ReadyMeans == \A s \in ServerSpecs, published, up \in BOOLEAN :
                        determinePhase(s, published, up) = "Ready" => svc = s.port /\ Serves(svc) /\ Entry(s) \in objs
<1> SUFFICES ASSUME NEW s \in ServerSpecs, NEW published \in BOOLEAN, NEW up \in BOOLEAN, determinePhase(s, published, up) = "Ready"
             PROVE  svc = s.port /\ Serves(svc) /\ Entry(s) \in objs
  OBVIOUS
<1> DEFINE ready == <<checkDeploymentReady, checkServiceReady(s), checkIngressReady(s, published),
                      checkPolicyConfigMapReady(s), checkCanaryDeploymentReady(s, up)>>
           needed == 1..3 \cup (IF s.gateway THEN {4} ELSE {}) \cup (IF s.canary THEN {5} ELSE {})
<1>1. \A i \in needed : ready[i]
  BY DEF determinePhase
<1>2. ready[2] /\ ready[3]
  BY <1>1
<1>3. checkServiceReady(s) /\ checkIngressReady(s, published)
  BY <1>2
<1> QED
  BY <1>3 DEF checkServiceReady, checkIngressReady, servingPort, Entry

\* The readiness found is the present one.
LEMMA ReadinessKept == ASSUME OperatorInv, NEW published \in BOOLEAN, NEW up \in BOOLEAN, checkResourceReadiness(published, up)
                       PROVE OperatorInv'
<1> USE OperatorConstants DEF OperatorInv, clusterVars, PassAt, S
<1>a. pass.pc = "readiness" /\ pass.spec \in ServerSpecs /\ pass \in PassType
  BY DEF checkResourceReadiness, PassTyped, Working, Deciding
<1>b. pass' = [pass EXCEPT !.pc = "status", !.phase = determinePhase(pass.spec, published, up)]
  BY DEF checkResourceReadiness
<1>c. determinePhase(pass.spec, published, up) \in Phases
  BY DEF determinePhase, Phases
<1>d. UNCHANGED <<clusterVars, phase, passQueued, portOnly, sweep>>
  BY DEF checkResourceReadiness, Rest
<1>e. pass' \in PassType /\ pass'.pc = "status" /\ pass'.spec = pass.spec /\ pass'.phase = determinePhase(pass.spec, published, up)
  BY <1>a, <1>b, <1>c DEF PassType, Working, Deciding
<1>1. ClusterTyped' /\ PassTyped' /\ NothingOwned' /\ Bounded'
  BY <1>a, <1>d, <1>e DEF ClusterTyped, PassTyped, NothingOwned, Bounded, Working, Deciding
<1>2. UpToDate' /\ Rested'
  <2>1. determinePhase(pass.spec, published, up) = "Ready" => svc = pass.spec.port /\ Serves(svc) /\ Entry(pass.spec) \in objs
    <3> HIDE DEF OperatorInv
    <3> QED
      BY <1>a, ReadyMeans, Zenon
  <2> QED
    BY <1>a, <1>d, <1>e, <2>1 DEF UpToDate, Written, Rested, Working, Deciding, Serves, Entry, usesAdapterCertificates
<1>3. PortsKept'
  BY <1>a, <1>d, <1>e DEF PortsKept
<1> QED
  BY <1>1, <1>2, <1>3

\* The only step that rests on a server: everything determinePhase asked for is still so.
LEMMA StatusKept == ASSUME OperatorInv, updateStatus PROVE OperatorInv'
<1> USE OperatorConstants DEF OperatorInv, clusterVars, PassAt, S
<1>a. pass.pc = "status" /\ pass.spec \in ServerSpecs /\ pass \in PassType
  BY DEF updateStatus, PassTyped, Working, Deciding
<1>b. pass' = NoPass /\ passQueued' = (passQueued \/ pass.phase # "Ready") /\ phase' \in {phase, pass.phase}
  BY DEF updateStatus, Ends, WriteStatus
<1>c. UNCHANGED <<clusterVars, portOnly, sweep>>
  BY DEF updateStatus, Rest
<1>1. ClusterTyped' /\ PassTyped' /\ NothingOwned' /\ Bounded'
  BY <1>a, <1>b, <1>c DEF ClusterTyped, PassTyped, PassType, NothingOwned, Bounded, Working, Deciding
<1>2. UpToDate'
  BY <1>b DEF UpToDate
<1>3. Rested'
  <2> SUFFICES ASSUME passQueued' = FALSE PROVE spec # Absent /\ Reconciled
    BY <1>c DEF Rested, Reconciled, Serves
  <2>1. Written /\ pass.phase = "Ready"
    BY <1>a, <1>b DEF PassTyped, UpToDate
  <2>2. svc = spec.port /\ svc # 0 /\ Serves(svc) /\ Entry(spec) \in objs /\ spec \in ServerSpecs /\ pass.spec = spec
    BY <1>a, <2>1 DEF Written
  <2>3. egress = IF restricted THEN {svc} ELSE {}
    BY <1>a, <2>1, <2>2 DEF Written
  <2>4. doc = (spec.gateway /\ granted) /\ ("canary" \in objs <=> spec.canary)
    BY <1>a, <2>1 DEF Written, Working, Deciding
  <2>5. objs \cap {"route", "ingress"} = {Entry(spec)}
    BY <1>a, <2>1, <2>2 DEF Written, Entry
  <2>6. Cardinality(objs \cap {"route", "ingress"}) = 1
    BY <2>5, FS_Singleton
  <2> QED
    BY <2>2, <2>3, <2>4, <2>6 DEF Reconciled, Entry
<1>4. PortsKept'
  BY <1>b, <1>c DEF PortsKept
<1> QED
  BY <1>1, <1>2, <1>3, <1>4

\* Failures: the server is queued again, or there is a sweep.
LEMMA FailingKept == ASSUME OperatorInv, reconcileResourcesFails PROVE OperatorInv'
<1>1. pass' = NoPass /\ passQueued' = TRUE /\ phase' \in {phase, "Error"}
  BY DEF reconcileResourcesFails, Fails, Ends, WriteStatus
<1>2. UNCHANGED <<clusterVars, sweep, portOnly>>
  BY DEF reconcileResourcesFails
<1> QED
  BY <1>1, <1>2, GivenUp DEF clusterVars

\* The operator restarts: every server is queued and the sweep is due.
LEMMA RestartingKept == ASSUME OperatorInv, OperatorRestarts PROVE OperatorInv'
<1> USE OperatorConstants DEF OperatorInv, OperatorRestarts, clusterVars, Rest, GoTo, Finds, PassAt, S
<1>1. ClusterTyped'
  BY DEF ClusterTyped, PassTyped, TemplateType, PassType, Mounts
<1>2. PassTyped'
  BY DEF ClusterTyped, PassTyped, PassType, Working, Deciding, Phases
<1>3. NothingOwned' /\ Bounded'
  BY DEF ClusterTyped, PassTyped, PassType, NothingOwned, Bounded, Working, Deciding
<1>4. UpToDate' /\ Rested'
  BY DEF ClusterTyped, PassTyped, PassType, NothingOwned, UpToDate, Written, Rested, Working, Deciding, Reconciled, usesAdapterCertificates, Entry, Serves
<1>5. PortsKept'
  BY DEF ClusterTyped, PassTyped, PassType, PortsKept, NothingOwned, Working, Deciding, Serves
<1> QED
  BY <1>1, <1>2, <1>3, <1>4, <1>5

\* The sweep of a restarted operator.
LEMMA SweepingKept == ASSUME OperatorInv, sweepTraefikEgressPolicies PROVE OperatorInv'
<1> USE OperatorConstants DEF OperatorInv, sweepTraefikEgressPolicies, Sweeping, clusterVars, Rest, GoTo, Finds, PassAt, S
<1>1. ClusterTyped'
  BY DEF ClusterTyped, PassTyped, TemplateType, PassType, Mounts
<1>2. PassTyped'
  BY DEF PassTyped
<1>3. NothingOwned' /\ Bounded'
  BY DEF ClusterTyped, PassTyped, PassType, NothingOwned, Bounded, Working, Deciding
<1>4. UpToDate' /\ Rested'
  <2>1. UNCHANGED <<spec, granted, restricted, objs, doc, template, pod, svc, pass>>
    OBVIOUS
  <2>2. passQueued' = FALSE => passQueued = FALSE /\ egress' = egress
    BY DEF PassTyped
  <2>3. egress' # {} => egress' = egress /\ sweep # "delete"
    BY DEF ClusterTyped
  <2>4. spec = Absent /\ egress' # {} => sweep' \in {"check", "delete"}
    BY <2>3
  <2> HIDE DEF sweepTraefikEgressPolicies
  <2>5. UpToDate'
    BY <2>1, <2>2 DEF UpToDate, Written, Entry, Serves, usesAdapterCertificates
  <2>6. Rested'
    BY <2>1, <2>2, <2>4 DEF Rested, Reconciled, Serves
  <2> QED
    BY <2>5, <2>6
<1>5. PortsKept'
  BY DEF ClusterTyped, PassTyped, PassType, PortsKept, NothingOwned, Working, Deciding, Serves
<1> QED
  BY <1>1, <1>2, <1>3, <1>4, <1>5

\* The sweep ends early.
LEMMA SweepFailingKept == ASSUME OperatorInv, sweepFails PROVE OperatorInv'
<1> USE OperatorConstants DEF OperatorInv, sweepFails, Sweeping, clusterVars, Rest, GoTo, Finds, PassAt, S
<1>1. ClusterTyped'
  BY DEF ClusterTyped, PassTyped, TemplateType, PassType, Mounts
<1>2. PassTyped'
  BY DEF PassTyped
<1>3. NothingOwned' /\ Bounded'
  BY DEF ClusterTyped, PassTyped, PassType, NothingOwned, Bounded, Working, Deciding
<1>4. UpToDate' /\ Rested'
  BY DEF ClusterTyped, PassTyped, PassType, NothingOwned, UpToDate, Written, Rested, Working, Deciding, Reconciled, usesAdapterCertificates, Entry, Serves
<1>5. PortsKept'
  BY DEF ClusterTyped, PassTyped, PassType, PortsKept, NothingOwned, Working, Deciding, Serves
<1> QED
  BY <1>1, <1>2, <1>3, <1>4, <1>5

-----------------------------------------------------------------------------
\* What happens around the operator: an event queues the server.

\* The specification is edited.
LEMMA EditedKept == ASSUME OperatorInv, NEW s \in ServerSpecs, SpecEdited(s) PROVE OperatorInv'
<1> USE OperatorConstants DEF OperatorInv, SpecEdited, Edit, Around, clusterVars, Rest, GoTo, Finds, PassAt, S
<1>a. portOnly' = TRUE => portOnly = TRUE /\ Mounts(s) = Mounts(spec)
  BY DEF PassTyped, Mounts, buildDeploymentContainers, buildGatewayContainer, usesAdapterCertificates
<1>b. UNCHANGED <<template, svc, pod, pass>> /\ spec' = s /\ spec # Absent
  OBVIOUS
<1>1. ClusterTyped'
  BY DEF ClusterTyped, PassTyped, TemplateType, PassType, Mounts
<1>2. PassTyped'
  BY DEF PassTyped
<1>3. NothingOwned' /\ Bounded'
  BY DEF ClusterTyped, PassTyped, PassType, NothingOwned, Bounded, Working, Deciding
<1>4. UpToDate' /\ Rested'
  BY DEF ClusterTyped, PassTyped, PassType, NothingOwned, UpToDate, Written, Rested, Working, Deciding, Reconciled, usesAdapterCertificates, Entry, Serves
<1>5. PortsKept'
  <2> HIDE DEF SpecEdited, Edit, Around
  <2> QED
    BY <1>a, <1>b DEF PortsKept, PassTyped, ClusterTyped, Serves
<1> QED
  BY <1>1, <1>2, <1>3, <1>4, <1>5

\* The server is deleted; its owner references take its objects with it.
LEMMA DeletedKept == ASSUME OperatorInv, ServerDeleted PROVE OperatorInv'
<1> USE OperatorConstants DEF OperatorInv, ServerDeleted, Edit, OfNamespace, clusterVars, Rest, GoTo, Finds, PassAt, S
<1>1. ClusterTyped'
  BY DEF ClusterTyped, PassTyped, TemplateType, PassType, Mounts
<1>2. PassTyped'
  BY DEF PassTyped, Phases
<1>3. NothingOwned' /\ Bounded'
  BY DEF ClusterTyped, PassTyped, PassType, NothingOwned, Bounded, Working, Deciding
<1>4. UpToDate' /\ Rested'
  BY DEF ClusterTyped, PassTyped, PassType, NothingOwned, UpToDate, Written, Rested, Working, Deciding, Reconciled, usesAdapterCertificates, Entry, Serves
<1>5. PortsKept'
  BY DEF ClusterTyped, PassTyped, PassType, PortsKept, NothingOwned, Working, Deciding, Serves
<1> QED
  BY <1>1, <1>2, <1>3, <1>4, <1>5

\* A server of that name is created again.
LEMMA CreatedKept == ASSUME OperatorInv, NEW s \in ServerSpecs, ServerCreated(s) PROVE OperatorInv'
<1> USE OperatorConstants DEF OperatorInv, ServerCreated, Edit, Around, OfNamespace, clusterVars, Rest, GoTo, Finds, PassAt, S
<1>1. ClusterTyped'
  BY DEF ClusterTyped, PassTyped, TemplateType, PassType, Mounts
<1>2. PassTyped'
  BY DEF ClusterTyped, PassTyped, PassType, Working, Deciding, Phases
<1>3. NothingOwned' /\ Bounded'
  BY DEF ClusterTyped, PassTyped, PassType, NothingOwned, Bounded, Working, Deciding
<1>4. UpToDate' /\ Rested'
  BY DEF ClusterTyped, PassTyped, PassType, NothingOwned, UpToDate, Written, Rested, Working, Deciding, Reconciled, usesAdapterCertificates, Entry, Serves
<1>5. PortsKept'
  BY DEF ClusterTyped, PassTyped, PassType, PortsKept, NothingOwned, Working, Deciding, Serves
<1> QED
  BY <1>1, <1>2, <1>3, <1>4, <1>5

\* A grant or a session changes and wakes the server.
LEMMA GrantedKept == ASSUME OperatorInv, requestsForReferencedServer PROVE OperatorInv'
<1> USE OperatorConstants DEF OperatorInv, requestsForReferencedServer, Edit, Around, clusterVars, Rest, GoTo, Finds, PassAt, S
<1>1. ClusterTyped'
  BY DEF ClusterTyped, PassTyped, TemplateType, PassType, Mounts
<1>2. PassTyped'
  BY DEF PassTyped
<1>3. NothingOwned' /\ Bounded'
  BY DEF ClusterTyped, PassTyped, PassType, NothingOwned, Bounded, Working, Deciding
<1>4. UpToDate' /\ Rested'
  BY DEF ClusterTyped, PassTyped, PassType, NothingOwned, UpToDate, Written, Rested, Working, Deciding, Reconciled, usesAdapterCertificates, Entry, Serves
<1>5. PortsKept'
  BY DEF ClusterTyped, PassTyped, PassType, PortsKept, NothingOwned, Working, Deciding, Serves
<1> QED
  BY <1>1, <1>2, <1>3, <1>4, <1>5

\* A network policy changes and wakes the server.
LEMMA RestrictedKept == ASSUME OperatorInv, requestsForTraefikEgressPolicy PROVE OperatorInv'
<1> USE OperatorConstants DEF OperatorInv, requestsForTraefikEgressPolicy, Edit, Around, clusterVars, Rest, GoTo, Finds, PassAt, S
<1>1. ClusterTyped'
  BY DEF ClusterTyped, PassTyped, TemplateType, PassType, Mounts
<1>2. PassTyped'
  BY DEF PassTyped
<1>3. NothingOwned' /\ Bounded'
  BY DEF ClusterTyped, PassTyped, PassType, NothingOwned, Bounded, Working, Deciding
<1>4. UpToDate' /\ Rested'
  BY DEF ClusterTyped, PassTyped, PassType, NothingOwned, UpToDate, Written, Rested, Working, Deciding, Reconciled, usesAdapterCertificates, Entry, Serves
<1>5. PortsKept'
  BY DEF ClusterTyped, PassTyped, PassType, PortsKept, NothingOwned, Working, Deciding, Serves
<1> QED
  BY <1>1, <1>2, <1>3, <1>4, <1>5

\* The route becomes another's, or free.
LEMMA ContestedKept == ASSUME OperatorInv, RouteContested PROVE OperatorInv'
<1> USE OperatorConstants DEF OperatorInv, RouteContested, clusterVars, Rest, GoTo, Finds, PassAt, S
<1>1. ClusterTyped'
  BY DEF ClusterTyped, PassTyped, TemplateType, PassType, Mounts
<1>2. PassTyped'
  BY DEF PassTyped
<1>3. NothingOwned' /\ Bounded'
  BY DEF ClusterTyped, PassTyped, PassType, NothingOwned, Bounded, Working, Deciding
<1>4. UpToDate' /\ Rested'
  BY DEF ClusterTyped, PassTyped, PassType, NothingOwned, UpToDate, Written, Rested, Working, Deciding, Reconciled, usesAdapterCertificates, Entry, Serves
<1>5. PortsKept'
  BY DEF ClusterTyped, PassTyped, PassType, PortsKept, NothingOwned, Working, Deciding, Serves
<1> QED
  BY <1>1, <1>2, <1>3, <1>4, <1>5

\* A pod starts.
LEMMA StartsKept == ASSUME OperatorInv, PodStarts PROVE OperatorInv'
<1> USE OperatorConstants DEF OperatorInv, PodStarts, PodChanges, Around, clusterVars, Rest, GoTo, Finds, PassAt, S
<1>1. ClusterTyped'
  BY DEF ClusterTyped, PassTyped, TemplateType, PassType, Mounts
<1>2. PassTyped'
  BY DEF PassTyped
<1>3. NothingOwned' /\ Bounded'
  BY DEF ClusterTyped, PassTyped, PassType, NothingOwned, Bounded, Working, Deciding
<1>4. UpToDate' /\ Rested'
  BY DEF ClusterTyped, PassTyped, PassType, NothingOwned, UpToDate, Written, Rested, Working, Deciding, Reconciled, usesAdapterCertificates, Entry, Serves
<1>5. PortsKept'
  BY DEF ClusterTyped, PassTyped, PassType, PortsKept, NothingOwned, Working, Deciding, Serves
<1> QED
  BY <1>1, <1>2, <1>3, <1>4, <1>5

\* A pod becomes ready.
LEMMA ReadiesKept == ASSUME OperatorInv, NEW p \in ListenPorts, PodReady(p) PROVE OperatorInv'
<1> USE OperatorConstants DEF OperatorInv, PodReady, PodChanges, Around, clusterVars, Rest, GoTo, Finds, PassAt, S
<1>1. ClusterTyped'
  BY DEF ClusterTyped, PassTyped, TemplateType, PassType, Mounts
<1>2. PassTyped'
  BY DEF PassTyped
<1>3. NothingOwned' /\ Bounded'
  BY DEF ClusterTyped, PassTyped, PassType, NothingOwned, Bounded, Working, Deciding
<1>4. UpToDate' /\ Rested'
  BY DEF ClusterTyped, PassTyped, PassType, NothingOwned, UpToDate, Written, Rested, Working, Deciding, Reconciled, usesAdapterCertificates, Entry, Serves
<1>5. PortsKept'
  BY DEF ClusterTyped, PassTyped, PassType, PortsKept, NothingOwned, Working, Deciding, Serves
<1> QED
  BY <1>1, <1>2, <1>3, <1>4, <1>5

\* A pod of an older template ends.
LEMMA DrainsKept == ASSUME OperatorInv, NEW p \in ListenPorts, PodDrained(p) PROVE OperatorInv'
<1> USE OperatorConstants DEF OperatorInv, PodDrained, PodChanges, Around, Old, clusterVars, Rest, GoTo, Finds, PassAt, S
<1>1. ClusterTyped'
  BY DEF ClusterTyped, PassTyped, TemplateType, PassType, Mounts
<1>2. PassTyped'
  BY DEF PassTyped
<1>3. NothingOwned' /\ Bounded'
  BY DEF ClusterTyped, PassTyped, PassType, NothingOwned, Bounded, Working, Deciding
<1>4. UpToDate' /\ Rested'
  BY DEF ClusterTyped, PassTyped, PassType, NothingOwned, UpToDate, Written, Rested, Working, Deciding, Reconciled, usesAdapterCertificates, Entry, Serves
<1>5. PortsKept'
  BY DEF ClusterTyped, PassTyped, PassType, PortsKept, NothingOwned, Working, Deciding, Serves
<1> QED
  BY <1>1, <1>2, <1>3, <1>4, <1>5

\* A ready pod fails.
LEMMA FailsKept == ASSUME OperatorInv, NEW p \in ListenPorts, PodFails(p) PROVE OperatorInv'
<1> USE OperatorConstants DEF OperatorInv, PodFails, PodChanges, clusterVars, Rest, GoTo, Finds, PassAt, S
<1>1. ClusterTyped'
  BY DEF ClusterTyped, PassTyped, TemplateType, PassType, Mounts
<1>2. PassTyped'
  BY DEF PassTyped
<1>3. NothingOwned' /\ Bounded'
  BY DEF ClusterTyped, PassTyped, PassType, NothingOwned, Bounded, Working, Deciding, Serves
<1>4. UpToDate' /\ Rested'
  BY DEF ClusterTyped, PassTyped, PassType, NothingOwned, UpToDate, Written, Rested, Working, Deciding, Reconciled, usesAdapterCertificates, Entry, Serves
<1>5. PortsKept'
  BY DEF ClusterTyped, PassTyped, PassType, PortsKept, NothingOwned, Working, Deciding, Serves
<1> QED
  BY <1>1, <1>2, <1>3, <1>4, <1>5

\* Secrets come and go without an event; nothing that is finished depends on them.
LEMMA IssuedKept == ASSUME OperatorInv, NEW o, NEW x, SecretIssued(o, x) PROVE OperatorInv'
<1> USE OperatorConstants DEF OperatorInv, SecretIssued, clusterVars, Rest, GoTo, Finds, PassAt, S
<1>1. ClusterTyped'
  BY DEF ClusterTyped, PassTyped, TemplateType, PassType, Mounts
<1>2. PassTyped'
  BY DEF PassTyped
<1>3. NothingOwned' /\ Bounded'
  BY DEF ClusterTyped, PassTyped, PassType, NothingOwned, Bounded, Working, Deciding
<1>4. UpToDate' /\ Rested'
  BY DEF ClusterTyped, PassTyped, PassType, NothingOwned, UpToDate, Written, Rested, Working, Deciding, Reconciled, usesAdapterCertificates, Entry, Serves
<1>5. PortsKept'
  BY DEF ClusterTyped, PassTyped, PassType, PortsKept, NothingOwned, Working, Deciding, Serves
<1> QED
  BY <1>1, <1>2, <1>3, <1>4, <1>5

\* A Secret is lost.
LEMMA LostKept == ASSUME OperatorInv, SecretLost PROVE OperatorInv'
<1> USE OperatorConstants DEF OperatorInv, SecretLost, clusterVars, Rest, GoTo, Finds, PassAt, S
<1>1. ClusterTyped'
  BY DEF ClusterTyped, PassTyped, TemplateType, PassType, Mounts
<1>2. PassTyped'
  BY DEF PassTyped
<1>3. NothingOwned' /\ Bounded'
  BY DEF ClusterTyped, PassTyped, PassType, NothingOwned, Bounded, Working, Deciding
<1>4. UpToDate' /\ Rested'
  BY DEF ClusterTyped, PassTyped, PassType, NothingOwned, UpToDate, Written, Rested, Working, Deciding, Reconciled, usesAdapterCertificates, Entry, Serves
<1>5. PortsKept'
  BY DEF ClusterTyped, PassTyped, PassType, PortsKept, NothingOwned, Working, Deciding, Serves
<1> QED
  BY <1>1, <1>2, <1>3, <1>4, <1>5

\* The server is queued for something else.
LEMMA WokenKept == ASSUME OperatorInv, Woken PROVE OperatorInv'
<1> USE OperatorConstants DEF OperatorInv, Woken, clusterVars, Rest, GoTo, Finds, PassAt, S
<1>1. ClusterTyped'
  BY DEF ClusterTyped, PassTyped, TemplateType, PassType, Mounts
<1>2. PassTyped'
  BY DEF PassTyped
<1>3. NothingOwned' /\ Bounded'
  BY DEF ClusterTyped, PassTyped, PassType, NothingOwned, Bounded, Working, Deciding
<1>4. UpToDate' /\ Rested'
  BY DEF ClusterTyped, PassTyped, PassType, NothingOwned, UpToDate, Written, Rested, Working, Deciding, Reconciled, usesAdapterCertificates, Entry, Serves
<1>5. PortsKept'
  BY DEF ClusterTyped, PassTyped, PassType, PortsKept, NothingOwned, Working, Deciding, Serves
<1> QED
  BY <1>1, <1>2, <1>3, <1>4, <1>5

\* A step that changes nothing here.
LEMMA IdleKept == ASSUME OperatorInv, UNCHANGED operatorVars PROVE OperatorInv'
<1> USE OperatorConstants DEF OperatorInv, operatorVars, clusterVars, Rest, GoTo, Finds, PassAt, S
<1>1. ClusterTyped'
  BY DEF ClusterTyped, PassTyped, TemplateType, PassType, Mounts
<1>2. PassTyped'
  BY DEF PassTyped
<1>3. NothingOwned' /\ Bounded'
  BY DEF ClusterTyped, PassTyped, PassType, NothingOwned, Bounded, Working, Deciding
<1>4. UpToDate' /\ Rested'
  BY DEF ClusterTyped, PassTyped, PassType, NothingOwned, UpToDate, Written, Rested, Working, Deciding, Reconciled, usesAdapterCertificates, Entry, Serves
<1>5. PortsKept'
  BY DEF ClusterTyped, PassTyped, PassType, PortsKept, NothingOwned, Working, Deciding, Serves
<1> QED
  BY <1>1, <1>2, <1>3, <1>4, <1>5

\* Every step preserves the invariant, action by action.
LEMMA OperatorStep == ASSUME OperatorInv, OperatorNext PROVE OperatorInv'
<1>1. CASE PassStep
  <2>1. CASE \E published, up \in BOOLEAN : checkResourceReadiness(published, up)
    BY <2>1, ReadinessKept
  <2> QED
    BY <1>1, <2>1, FetchingKept, ForgettingKept, ValidatingKept, RouteCheckedKept, ConfigKept, RenderingKept, PolicyKept,
       GatewayCertificateKept, ClientCertificateKept, BoundaryKept, AnalyticsKept, AccountKept, PullSecretKept, StrategyKept,
       DeploymentKept, CanaryKept, ServingPodKept, ServiceKept, EgressReadKept, EgressKept,
       BundleKept, RouteKept, IngressKept, StatusKept DEF PassStep
<1>2. CASE reconcileResourcesFails \/ OperatorRestarts \/ sweepTraefikEgressPolicies \/ sweepFails \/ Woken
  BY <1>2, FailingKept, RestartingKept, SweepingKept, SweepFailingKept, WokenKept
<1>3. CASE (\E s \in ServerSpecs : SpecEdited(s) \/ ServerCreated(s)) \/ ServerDeleted
  BY <1>3, EditedKept, CreatedKept, DeletedKept
<1>4. CASE requestsForReferencedServer \/ requestsForTraefikEgressPolicy \/ RouteContested
  BY <1>4, GrantedKept, RestrictedKept, ContestedKept
<1>5. CASE Kubelet \/ \E p \in ListenPorts : PodFails(p)
  BY <1>5, StartsKept, ReadiesKept, DrainsKept, FailsKept DEF Kubelet
<1>6. CASE CertManager \/ SecretLost
  BY <1>6, IssuedKept, LostKept DEF CertManager
<1> QED
  BY <1>1, <1>2, <1>3, <1>4, <1>5, <1>6 DEF OperatorNext

\* Clients stay served through a change of ports: a template that surges drains the pod the Service is on
\* only for a ready one, and the same mounts make no new pod on the same port.
LEMMA ServedStep == ASSUME OperatorInv, OperatorNext, svc # 0, Serves(svc), portOnly'
                    PROVE svc' # 0 /\ (Serves(svc)' \/ Serves(template.port)')
<1> USE DEF OperatorInv, Serves
<1>1. svc \in ListenPorts /\ pod \in [ListenPorts -> {"none", "starting", "updating", "ready"}]
  BY DEF ClusterTyped
<1>2. spec # Absent /\ template # NoTemplate
  BY <1>1, OperatorConstants DEF NothingOwned, Bounded
<1>3. CASE UNCHANGED <<svc, pod>>
  BY <1>3
<1>4. CASE reconcileDeployment
  <2>1. pass.spec # Absent /\ portOnly = TRUE /\ pass.pc = "deployment" /\ svc' = svc
    BY <1>4, OperatorConstants DEF reconcileDeployment, Rest, PassAt, PassTyped, Working, Deciding
  <2>2. Mounts(pass.spec) = template.mounts
    BY <1>2, <2>1 DEF PortsKept
  <2>3. Rollout(Template) = pod
    BY <2>2 DEF Rollout, Template, S, Mounts
  <2>4. pod' = pod
    BY <1>2, <1>4, <2>3 DEF reconcileDeployment
  <2> QED
    BY <2>1, <2>4
<1>5. CASE reconcileService
  <2>1. pass.spec.port \in ListenPorts /\ UNCHANGED pod
    BY <1>5, OperatorConstants DEF reconcileService, PassAt, PassTyped, Working, Deciding
  <2>2. pass.found \in BOOLEAN /\ portOnly = TRUE
    BY <1>5 DEF PassTyped, PassType, reconcileService, Rest
  <2>3. svc' = svc \/ (svc' = pass.spec.port /\ (svc = pass.spec.port \/ Serves(pass.spec.port)))
    BY <1>1, <1>2, <1>5, <2>2, OperatorConstants DEF reconcileService, PortsKept, PassAt, S, servingPort, RoutesElsewhere
  <2> QED
    BY <1>1, <2>1, <2>3, OperatorConstants
<1>6. CASE ServerDeleted \/ \E p \in ListenPorts : PodFails(p)
  BY <1>6 DEF ServerDeleted, PodFails
<1>7. CASE PodStarts
  BY <1>1, <1>7 DEF PodStarts, PodChanges
<1>8. ASSUME NEW p \in ListenPorts, PodReady(p) PROVE svc' # 0 /\ Serves(svc)'
  BY <1>1, <1>8 DEF PodReady, PodChanges
<1>9. ASSUME NEW p \in ListenPorts, PodDrained(p) PROVE svc' # 0 /\ (Serves(svc)' \/ Serves(template.port)')
  <2>1. /\ p # template.port /\ (Recreates(template) \/ Serves(template.port))
        /\ pod' = [pod EXCEPT ![p] = "none"] /\ UNCHANGED <<svc, template>>
    BY <1>9 DEF PodDrained, Old, PodChanges
  <2>2. CASE p # svc
    BY <1>1, <2>1, <2>2
  <2>3. CASE p = svc
    <3>1. ~ Recreates(template)
      BY <2>1, <2>3 DEF PortsKept, Recreates
    <3>2. template.port \in ListenPorts
      BY <1>2 DEF ClusterTyped, TemplateType, Bounded
    <3> QED
      BY <1>1, <2>1, <2>3, <3>1, <3>2, OperatorConstants
  <2> QED
    BY <2>2, <2>3
<1>10. CASE PassStep
  <2>1. PassStep => UNCHANGED <<svc, pod>> \/ reconcileDeployment \/ reconcileService
    BY DEF PassStep, fetchMCPServer, deleteTraefikEgressPolicy, validateMCPServerSpec, reconcilePolicyConfigMap,
       reconcileGatewayCertificate, reconcileTraefikClientCertificate, ReconcileCertificate, reconcileMTLSNetworkPolicy,
       reconcileAnalyticsCA, ensureWorkloadServiceAccount, ensureRegistryPullSecret, servingDeploymentStrategy, reconcileCanaryDeployment,
       RouteChecked, validateGatewayConfig, renderGatewayPolicy, hasReadyServingPod, traefikEgressRestricted, reconcileTraefikEgress,
       reconcileMTLSTrustBundle, reconcileMTLSIngress, reconcileIngress, checkResourceReadiness, updateStatus
  <2> QED
    BY <1>3, <1>4, <1>5, <1>10, <2>1
<1>11. CASE reconcileResourcesFails \/ OperatorRestarts \/ sweepTraefikEgressPolicies \/ sweepFails \/ Woken
  BY <1>3, <1>11 DEF reconcileResourcesFails, OperatorRestarts, sweepTraefikEgressPolicies, sweepFails, Woken, clusterVars
<1>12. CASE \E s \in ServerSpecs : SpecEdited(s) \/ ServerCreated(s)
  BY <1>3, <1>12 DEF SpecEdited, ServerCreated
<1>13. CASE requestsForReferencedServer \/ requestsForTraefikEgressPolicy \/ RouteContested \/ CertManager \/ SecretLost
  BY <1>3, <1>13 DEF requestsForReferencedServer, requestsForTraefikEgressPolicy, RouteContested, CertManager, SecretIssued, SecretLost
<1> QED
  BY <1>6, <1>7, <1>8, <1>9, <1>10, <1>11, <1>12, <1>13 DEF OperatorNext, Kubelet

\* Only a pass without adapter certificates takes a live route down.
LEMMA LiveRouteStep == ASSUME OperatorNext, usesAdapterCertificates(pass.spec), "route" \in objs
                   PROVE "route" \in objs' \/ spec' = Absent
<1>1. CASE PassStep
  <2> USE <1>1 DEF PassAt, Put, RemoveObject, S
  <2>1. CASE reconcilePolicyConfigMap \/ reconcileMTLSNetworkPolicy \/ reconcileAnalyticsCA \/ RouteChecked
    BY <2>1 DEF reconcilePolicyConfigMap, reconcileMTLSNetworkPolicy, reconcileAnalyticsCA, RouteChecked
  <2>5. CASE ensureWorkloadServiceAccount \/ ensureRegistryPullSecret
    BY <2>5 DEF ensureWorkloadServiceAccount, ensureRegistryPullSecret
  <2>2. CASE reconcileGatewayCertificate \/ reconcileTraefikClientCertificate
    BY <2>2 DEF reconcileGatewayCertificate, reconcileTraefikClientCertificate, ReconcileCertificate, applyUnstructured
  <2>3. CASE reconcileCanaryDeployment \/ reconcileMTLSTrustBundle
    BY <2>3 DEF reconcileCanaryDeployment, reconcileMTLSTrustBundle
  <2>4. CASE reconcileMTLSIngress \/ reconcileIngress
    BY <2>4 DEF reconcileMTLSIngress, reconcileIngress
  <2> QED
    BY <2>1, <2>2, <2>3, <2>4, <2>5 DEF PassStep, fetchMCPServer, deleteTraefikEgressPolicy, validateMCPServerSpec, validateGatewayConfig,
       renderGatewayPolicy, servingDeploymentStrategy, reconcileDeployment, hasReadyServingPod, reconcileService,
       traefikEgressRestricted, reconcileTraefikEgress, checkResourceReadiness, updateStatus
<1>2. CASE ServerDeleted
  BY <1>2 DEF ServerDeleted
<1>3. CASE reconcileResourcesFails \/ OperatorRestarts \/ sweepTraefikEgressPolicies \/ sweepFails \/ Woken
  BY <1>3 DEF reconcileResourcesFails, OperatorRestarts, sweepTraefikEgressPolicies, sweepFails, Woken, clusterVars
<1>4. CASE \E s \in ServerSpecs : SpecEdited(s) \/ ServerCreated(s)
  BY <1>4 DEF SpecEdited, ServerCreated
<1>5. CASE requestsForReferencedServer \/ requestsForTraefikEgressPolicy \/ RouteContested \/ CertManager \/ SecretLost
  BY <1>5 DEF requestsForReferencedServer, requestsForTraefikEgressPolicy, RouteContested, CertManager, SecretIssued, SecretLost
<1>6. CASE Kubelet \/ \E p \in ListenPorts : PodFails(p)
  BY <1>6 DEF Kubelet, PodStarts, PodReady, PodDrained, PodFails, PodChanges
<1> QED
  BY <1>1, <1>2, <1>3, <1>4, <1>5, <1>6 DEF OperatorNext

\* The invariant gives the state properties of the run.
LEMMA OperatorImplies == OperatorInv => OperatorTypeOK /\ BoundaryBeforePods /\ QuietMeansReconciled
<1> SUFFICES ASSUME OperatorInv PROVE OperatorTypeOK /\ BoundaryBeforePods /\ QuietMeansReconciled
  OBVIOUS
<1>1. OperatorTypeOK
  BY DEF OperatorInv, ClusterTyped, PassTyped, PassType, TemplateType, Phases, OperatorTypeOK
<1>2. BoundaryBeforePods
  BY DEF OperatorInv, Bounded, BoundaryBeforePods
<1>3. QuietMeansReconciled
  <2> SUFFICES ASSUME pass.pc = "idle", ~ passQueued, ~ Sweeping PROVE Reconciled
    BY DEF QuietMeansReconciled, PassAt
  <2>1. passQueued = FALSE
    BY DEF OperatorInv, PassTyped
  <2>2. spec = Absent => egress = {} \/ sweep = "failed"
    BY <2>1 DEF OperatorInv, PassTyped, Rested, Sweeping
  <2> QED
    BY <2>1, <2>2 DEF OperatorInv, Rested, Reconciled
<1> QED
  BY <1>1, <1>2, <1>3

\* OperatorSound holds of every behaviour: whatever fails, restarts or changes between two calls of a pass,
\* pods stay behind their boundary, served ports and routes stay served, and the operator rests only on
\* finished work (Reconcile, reconcileResources).
THEOREM OperatorIsSound == OperatorSpec => OperatorSound
<1>1. OperatorSpec => []OperatorInv
  <2>1. OperatorInv /\ [OperatorNext]_operatorVars => OperatorInv'
    BY OperatorStep, IdleKept
  <2> QED
    BY OperatorInitially, <2>1, PTL DEF OperatorSpec
<1>2. OperatorSpec => [](OperatorTypeOK /\ BoundaryBeforePods /\ QuietMeansReconciled)
  BY OperatorImplies, <1>1, PTL
<1>3. OperatorSpec => ServedThroughPortChange
  <2>1. OperatorInv /\ [OperatorNext]_operatorVars
          => [svc # 0 /\ Serves(svc) /\ portOnly' => svc' # 0 /\ (Serves(svc)' \/ Serves(template.port)')]_operatorVars
    BY ServedStep
  <2> QED
    BY <1>1, <2>1, PTL DEF OperatorSpec, ServedThroughPortChange
<1>4. OperatorSpec => RouteSurvivesSecretGaps
  <2>1. [OperatorNext]_operatorVars
          => [~ PassAt("idle") /\ pass.spec # Absent /\ usesAdapterCertificates(pass.spec) /\ "route" \in objs
                => "route" \in objs' \/ spec' = Absent]_operatorVars
    BY LiveRouteStep
  <2> QED
    BY <2>1, PTL DEF OperatorSpec, RouteSurvivesSecretGaps
<1> QED
  BY <1>2, <1>3, <1>4 DEF OperatorSound

-----------------------------------------------------------------------------
\* The routes of several servers.

RoutesSpec == RoutesInit /\ [][RoutesNext]_routeVars

\* Of two servers one is the older: that is an order, however many were created together.
LEMMA OlderIsTotal ==
  ASSUME NEW a \in Claimants, NEW b \in Claimants, a # b
  PROVE  olderServer(a, b) <=> ~ olderServer(b, a)
<1>1. Born[a] \in Nat /\ Born[b] \in Nat /\ NameOrder[a] \in Nat /\ NameOrder[b] \in Nat /\ NameOrder[a] # NameOrder[b]
  BY RouteAssumption
<1> QED
  BY <1>1 DEF olderServer

\* No two servers own routes that answer for the same requests.
LEMMA OwnersAreDisjoint == OwnersDisjoint
<1> SUFFICES ASSUME NEW a \in Claimants, NEW b \in Claimants, a # b, Owns(a), Owns(b), Overlaps(claim[a], claim[b]) PROVE FALSE
  BY DEF OwnersDisjoint
<1>1. Overlaps(claim[b], claim[a])
  BY DEF Overlaps
<1>2. claim[a] # NoRoute /\ claim[b] # NoRoute /\ publicRouteOwner(a) = {} /\ publicRouteOwner(b) = {}
  BY DEF Owns
<1>3. CASE olderServer(a, b)
  BY <1>2, <1>3 DEF publicRouteOwner
<1>4. CASE olderServer(b, a)
  BY <1>1, <1>2, <1>4 DEF publicRouteOwner
<1> QED
  BY <1>3, <1>4, OlderIsTotal

\* Two that publish one audience are on one path, so that each has a host of its own and it is neither's.
LEMMA AudiencesAreUnshared == AudiencesUnshared
<1> SUFFICES ASSUME NEW a, NEW s \in Publishers(a), NEW o \in Publishers(a), s # o
             PROVE  a.host = DefaultIngressHost /\ AnyHost \notin {claim[s].host, claim[o].host}
  BY DEF AudiencesUnshared
<1>1. s \in Claimants /\ o \in Claimants /\ Owns(s) /\ Owns(o) /\ audienceServedByPlatform(s, a) /\ audienceServedByPlatform(o, a)
  BY DEF Publishers
<1>2. claim[s].path = claim[o].path
  BY <1>1 DEF audienceServedByPlatform
<1>3. claim[s].host # claim[o].host /\ claim[s].host # AnyHost /\ claim[o].host # AnyHost
  BY <1>1, <1>2, OwnersAreDisjoint DEF OwnersDisjoint, Overlaps
<1>4. a.host \in {claim[s].host, DefaultIngressHost} /\ a.host \in {claim[o].host, DefaultIngressHost}
  BY <1>1, <1>3 DEF audienceServedByPlatform
<1> QED
  BY <1>3, <1>4

\* No two servers ever own routes that answer for the same requests, in whatever order they are created,
\* moved and deleted, and whatever audiences their owners name, two of them publish the same one only on the
\* default host (publicRouteOwner, audienceServedByPlatform).
THEOREM OwnersStayDisjoint == RoutesSpec => [](OwnersDisjoint /\ AudiencesUnshared)
BY OwnersAreDisjoint, AudiencesAreUnshared, PTL

-----------------------------------------------------------------------------
\* The doctor's report and what it leaves behind.

\* What a suite is made of depends on the cluster only in its verdicts: the place of a check in the list, and
\* how many helper pods it runs and where, do not.
Checks(suite, c, e, d, left) ==
    CASE suite = "diagnostics" -> doctorCheckSpecs(c, e, d, left)
      [] suite = "doctor" -> doctorSetupCheckSpecs(c, e, d)
      [] suite = "smoke" -> doctorPostSetupCheckSpecs(c, e, left)
      [] suite = "identity" -> <<Read(CheckWorkloadIdentity(c, e))>>
SuiteLength(suite) == CASE suite = "diagnostics" -> 67 [] suite = "doctor" -> 16 [] suite = "smoke" -> 8 [] OTHER -> 1
Has(k, n, ns) == k.pods = n /\ k.ns = ns
PodsAt(suite, i) ==
    CASE suite = "diagnostics" -> IF i \in {34, 38, 54} THEN 2 ELSE IF i \in {19, 20, 23, 29, 53, 57} THEN 1 ELSE 0
      [] suite = "smoke" -> IF i = 6 THEN 2 ELSE IF i = 8 THEN 1 ELSE 0
      [] OTHER -> 0
WhereAt(suite, i) ==
    CASE suite = "diagnostics" -> IF i \in {19, 20, 29} THEN "servers" ELSE IF i = 23 THEN "registry"
                                  ELSE IF i \in {34, 38, 53, 54, 57} THEN "platform" ELSE IF i = 65 THEN "smoke" ELSE "none"
      [] suite = "smoke" -> IF i \in {6, 8} THEN "platform" ELSE "none"
      [] OTHER -> "none"
PodNamespaces == {"servers", "registry", "platform"}
Clean(k) == k.before # "fail" /\ k.answer = TRUE

\* The lists, position by position.
FirstChecks(s, c, e, d, left) ==
    /\ s[1] = Read(checkClusterNodesReady(c, e)) /\ s[2] = Read(checkNamespaceExists(c, e))
    /\ s[3] = Read(checkNamespaceDefaultServiceAccount(c, e)) /\ s[4] = Read(checkNamespacePolicyGuardrails(c, e))
    /\ s[5] = Read(checkNamespacePodAdmission(c, e)) /\ s[6] = Read(checkMCPServerCRD(c, e))
    /\ s[7] = Read(checkOperatorReady(c, e)) /\ s[8] = Read(checkOperatorWebhookCertExpiry(c, e))
    /\ s[9] = Read(checkOperatorRegistryEndpoint(c, e)) /\ s[10] = Read(checkOperatorRecentReconcileErrors(c, e))
    /\ s[11] = Read(checkOperatorEffectivePermissions(c, e)) /\ s[12] = Read(checkOperatorClusterRoleRules(c, e))
    /\ s[13] = Read(checkTraefikIngressClass(c, e)) /\ s[14] = Read(checkTraefikDeploymentReady(c, e, d))
    /\ s[15] = Read(checkTraefikWebEntrypoint(c, e, d)) /\ s[16] = Read(checkTraefikServiceExposure(c, e, d))
    /\ s[17] = Read(checkIngressLoadBalancerStatus(c, e))
SecondChecks(s, c, e, d, left) ==
    /\ s[18] = Read(checkPlatformAPILiveInventoryNetworkPolicy(c, e))
    /\ s[19] = Probe("ok", 1, "servers", checkMCPServersDNSAndNetwork(c)) /\ s[20] = RouteProbe(c, e, d)
    /\ s[21] = Read(checkRegistryService(c, e)) /\ s[22] = Read(checkRegistryIngressHosts(c, e))
    /\ s[23] = Probe("ok", 1, "registry", checkRegistryReachableFromCluster(c))
    /\ s[24] = Read(checkRegistryServiceIPImageRefs(c, e)) /\ s[25] = Read(checkMCPServerImagePullSecrets(c, e))
    /\ s[26] = Read(checkManagedTeamRegistryPullSecrets(c, e)) /\ s[27] = Read(checkManagedTeamWorkloadServiceAccounts(c, e))
    /\ s[28] = Read(checkMCPServersImagePullSecrets(c, e))
    /\ s[29] = Probe("ok", 1, "servers", checkMCPServersImagePullSmoke(c)) /\ s[30] = Read(checkRegistryHTTPPullMismatch(c, e))
    /\ s[31] = Read(checkRegistryImagePullDiagnostics(c, e)) /\ s[32] = Read(checkPlatformKafkaReadiness(c, e))
    /\ s[33] = Read(checkPlatformIngestReadiness(c, e))
    /\ s[34] = HealthProbe(c, e, "platform", "platform-api down", "platform-api unhealthy")
ThirdChecks(s, c, e, d, left) ==
    /\ s[35] = Read(checkPlatformWorkloadHealth(c, e))
    /\ s[36] = Read(checkPlatformStalePods(c, e, LeftPhases(InPlatform(left))))
    /\ s[37] = Read(checkPlatformPostgresCredentialDrift(c, e))
    /\ s[38] = HealthProbe(c, e, "observability", "analytics-api down", "analytics-api unhealthy")
    /\ s[39] = Read(checkPlatformTelemetryPipeline(c, e)) /\ s[40] = Read(checkPlatformGrafanaProvisioning(c, e))
    /\ s[41] = Read(checkPersistentVolumeClaims(c, e)) /\ s[42] = Read(checkRuntimeAPIKubernetesAPIEgress(c, e))
    /\ s[43] = Read(checkClusterImageArchitecture(c, e)) /\ s[44] = Read(checkDNSNetworkPolicyPortability(c, e))
    /\ s[45] = Read(checkStorageClassReadiness(c, e)) /\ s[46] = Read(checkSessionLocalDeploymentScaling(c, e))
    /\ s[47] = Read(checkPlatformSecrets(c, e)) /\ s[48] = Read(checkPlatformSecretConsumerFreshness(c, e))
    /\ s[49] = Read(checkPlatformOIDCConfiguration(c, e)) /\ s[50] = Read(checkIngestServiceAccountAuth(c, e))
    /\ s[51] = Read(checkGatewayAnalyticsCredentials(c, e))
FourthChecks(s, c, e, d, left) ==
    /\ s[52] = Read(checkGatewayAnalyticsDelivery(c, e))
    /\ s[53] = Probe(Gated(c, e, "platform", {"api key missing"}), 1, "platform", checkPlatformAPIAuthProbe(c))
    /\ s[54] = Probe(Gated(c, e, "platform", {"api key missing"}), 2, "platform", runPlatformAuthenticatedProbe(c))
    /\ s[55] = Read(checkMCPAuthDeployment(c, e)) /\ s[56] = Read(checkMCPAuthSecrets(c, e))
    /\ s[57] = Probe(Gated(c, e, "platform", {"api key missing"}), 1, "platform", checkRuntimeAPIImageDisplayRefs(c))
    /\ s[58] = Read(checkNodeCapacity(c, e)) /\ s[59] = Read(checkNodeRuntimeHealth(c, e))
    /\ s[60] = Read(checkNodeArchitectureCompatibility(c, e)) /\ s[61] = Read(checkRuntimeClassCompatibility(c, e))
    /\ s[62] = Read(checkMCPServerTraefikEgress(c, e)) /\ s[63] = Read(checkStorageReadiness(c, e))
    /\ s[64] = Read(checkPendingPodsByNamespace(c, e, LeftPhases(left))) /\ s[65] = Probe("ok", 0, "smoke", TRUE)
    /\ s[66] = Read(checkPlatformPullSecrets(c, e)) /\ s[67] = Read(checkPlatformGrafanaAdminCredentials(c, e))
PreflightChecks(s, c, e, d, left) ==
    /\ s[1] = Read(checkClusterNodesReady(c, e)) /\ s[2] = Read(checkNodeCapacity(c, e))
    /\ s[3] = Read(checkNodeRuntimeHealth(c, e)) /\ s[4] = Read(checkNodeArchitectureCompatibility(c, e))
    /\ s[5] = Read(checkRuntimeClassCompatibility(c, e)) /\ s[6] = Read(checkStorageClassReadiness(c, e))
    /\ s[7] = Read(checkTraefikIngressClass(c, e)) /\ s[8] = Read(checkTraefikDeploymentReady(c, e, d))
    /\ s[9] = Read(checkTraefikWebEntrypoint(c, e, d)) /\ s[10] = Read(checkTraefikServiceExposure(c, e, d))
    /\ s[11] = Read(checkPublicIngressHostConfig(c)) /\ s[12] = Read(checkPublicIngressDNS(c))
    /\ s[13] = Read(checkCertManagerCompatibility(c, e)) /\ s[14] = Read(checkCertManagerReadiness(c, e))
    /\ s[15] = Read(checkDoctorTLSClusterIssuer(c, e)) /\ s[16] = Read(checkDoctorACMEHTTP01Exposure(c, e, d))
SmokeChecks(s, c, e, d, left) ==
    /\ s[1] = Read(checkClusterNodesReady(c, e)) /\ s[2] = Read(checkPersistentVolumeClaims(c, e))
    /\ s[3] = Read(checkPendingPodsByNamespace(c, e, LeftPhases(left))) /\ s[4] = Read(checkPlatformSecrets(c, e))
    /\ s[5] = Read(checkPlatformPostgresCredentialDrift(c, e))
    /\ s[6] = HealthProbe(c, e, "platform", "platform-api down", "platform-api unhealthy")
    /\ s[7] = Read(checkPlatformWorkloadHealth(c, e))
    /\ s[8] = Probe(Gated(c, e, "platform", {"api key missing"}), 1, "platform", checkPlatformAPIAuthProbe(c))

\* A list is as long as its chapters say, whatever the answers are.
LEMMA ChecksListed ==
    ASSUME NEW c, NEW e, NEW d, NEW left
    PROVE  /\ DOMAIN doctorCheckSpecs(c, e, d, left) = 1..67 /\ DOMAIN doctorSetupCheckSpecs(c, e, d) = 1..16
           /\ DOMAIN doctorPostSetupCheckSpecs(c, e, left) = 1..8
           /\ Len(doctorCheckSpecs(c, e, d, left)) = 67 /\ Len(doctorSetupCheckSpecs(c, e, d)) = 16
           /\ Len(doctorPostSetupCheckSpecs(c, e, left)) = 8
           /\ FirstChecks(doctorCheckSpecs(c, e, d, left), c, e, d, left)
           /\ SecondChecks(doctorCheckSpecs(c, e, d, left), c, e, d, left)
           /\ ThirdChecks(doctorCheckSpecs(c, e, d, left), c, e, d, left)
           /\ FourthChecks(doctorCheckSpecs(c, e, d, left), c, e, d, left)
           /\ PreflightChecks(doctorSetupCheckSpecs(c, e, d), c, e, d, left)
           /\ SmokeChecks(doctorPostSetupCheckSpecs(c, e, left), c, e, d, left)
<1>1. DOMAIN doctorCheckSpecs(c, e, d, left) = 1..67 /\ Len(doctorCheckSpecs(c, e, d, left)) = 67
  BY DEF doctorCheckSpecs
<1>2. DOMAIN doctorSetupCheckSpecs(c, e, d) = 1..16 /\ Len(doctorSetupCheckSpecs(c, e, d)) = 16
  BY DEF doctorSetupCheckSpecs
<1>3. DOMAIN doctorPostSetupCheckSpecs(c, e, left) = 1..8 /\ Len(doctorPostSetupCheckSpecs(c, e, left)) = 8
  BY DEF doctorPostSetupCheckSpecs
<1>4. FirstChecks(doctorCheckSpecs(c, e, d, left), c, e, d, left)
  BY DEF doctorCheckSpecs, FirstChecks
<1>5. SecondChecks(doctorCheckSpecs(c, e, d, left), c, e, d, left)
  BY DEF doctorCheckSpecs, SecondChecks
<1>6. ThirdChecks(doctorCheckSpecs(c, e, d, left), c, e, d, left)
  BY DEF doctorCheckSpecs, ThirdChecks
<1>7. FourthChecks(doctorCheckSpecs(c, e, d, left), c, e, d, left)
  BY DEF doctorCheckSpecs, FourthChecks
<1>8. PreflightChecks(doctorSetupCheckSpecs(c, e, d), c, e, d, left)
  BY DEF doctorSetupCheckSpecs, PreflightChecks
<1>9. SmokeChecks(doctorPostSetupCheckSpecs(c, e, left), c, e, d, left)
  BY DEF doctorPostSetupCheckSpecs, SmokeChecks
<1> QED BY <1>1, <1>2, <1>3, <1>4, <1>5, <1>6, <1>7, <1>8, <1>9

\* The two ways to write a check down.
LEMMA ReadAndProbe ==
    /\ \A v : Read(v).before = v /\ Read(v).pods = 0 /\ Read(v).ns = "none" /\ Read(v).answer = TRUE
    /\ \A v, n, ns, a : /\ Probe(v, n, ns, a).before = v /\ Probe(v, n, ns, a).pods = n
                        /\ Probe(v, n, ns, a).ns = ns /\ Probe(v, n, ns, a).answer = a
  BY DEF Read, Probe

\* A check that only reads runs no pod, a probe as many as it names.
LEMMA Shapes ==
    /\ \A v : Has(Read(v), 0, "none")
    /\ \A v, n, ns, a : Has(Probe(v, n, ns, a), n, ns)
    /\ \A c, e, d : Has(RouteProbe(c, e, d), 1, "servers")
    /\ \A c, e, p, x, y : Has(HealthProbe(c, e, p, x, y), 2, "platform")
<1>1. (\A v : Has(Read(v), 0, "none")) /\ (\A v, n, ns, a : Has(Probe(v, n, ns, a), n, ns))
  BY DEF Read, Probe, Has
<1>2. \A c, e, d : Has(RouteProbe(c, e, d), 1, "servers")
  BY DEF RouteProbe, Probe, Has
<1>3. \A c, e, p, x, y : Has(HealthProbe(c, e, p, x, y), 2, "platform")
  BY DEF HealthProbe, Probe, Has
<1> QED BY <1>1, <1>2, <1>3

\* How many helper pods the first checks of the diagnostics run, and where ...
LEMMA FirstShape ==
    ASSUME NEW s, NEW c, NEW e, NEW d, NEW left, FirstChecks(s, c, e, d, left), NEW i \in 1..17
    PROVE  Has(s[i], 0, "none")
<1>1. Has(s[1], 0, "none")  BY Shapes DEF FirstChecks
<1>2. Has(s[2], 0, "none")  BY Shapes DEF FirstChecks
<1>3. Has(s[3], 0, "none")  BY Shapes DEF FirstChecks
<1>4. Has(s[4], 0, "none")  BY Shapes DEF FirstChecks
<1>5. Has(s[5], 0, "none")  BY Shapes DEF FirstChecks
<1>6. Has(s[6], 0, "none")  BY Shapes DEF FirstChecks
<1>7. Has(s[7], 0, "none")  BY Shapes DEF FirstChecks
<1>8. Has(s[8], 0, "none")  BY Shapes DEF FirstChecks
<1>9. Has(s[9], 0, "none")  BY Shapes DEF FirstChecks
<1>10. Has(s[10], 0, "none")  BY Shapes DEF FirstChecks
<1>11. Has(s[11], 0, "none")  BY Shapes DEF FirstChecks
<1>12. Has(s[12], 0, "none")  BY Shapes DEF FirstChecks
<1>13. Has(s[13], 0, "none")  BY Shapes DEF FirstChecks
<1>14. Has(s[14], 0, "none")  BY Shapes DEF FirstChecks
<1>15. Has(s[15], 0, "none")  BY Shapes DEF FirstChecks
<1>16. Has(s[16], 0, "none")  BY Shapes DEF FirstChecks
<1>17. Has(s[17], 0, "none")  BY Shapes DEF FirstChecks
<1>i. \/ i = 1 \/ i = 2 \/ i = 3 \/ i = 4 \/ i = 5 \/ i = 6 \/ i = 7 \/ i = 8 \/ i = 9
      \/ i = 10 \/ i = 11 \/ i = 12 \/ i = 13 \/ i = 14 \/ i = 15 \/ i = 16 \/ i = 17
  OBVIOUS
<1> QED BY <1>i, <1>1, <1>2, <1>3, <1>4, <1>5, <1>6, <1>7, <1>8, <1>9, <1>10, <1>11, <1>12, <1>13, <1>14, <1>15, <1>16, <1>17

\* ... those about routes, registry and services ...
LEMMA SecondShape ==
    ASSUME NEW s, NEW c, NEW e, NEW d, NEW left, SecondChecks(s, c, e, d, left), NEW i \in 18..34
    PROVE  /\ (i \in {23} => Has(s[i], 1, "registry"))
           /\ (i \in {19, 20, 29} => Has(s[i], 1, "servers"))
           /\ (i \in {34} => Has(s[i], 2, "platform"))
           /\ (i \notin {19, 20, 23, 29, 34} => Has(s[i], 0, "none"))
<1>18. Has(s[18], 0, "none")  BY Shapes DEF SecondChecks
<1>19. Has(s[19], 1, "servers")
  BY Shapes DEF SecondChecks
<1>20. Has(s[20], 1, "servers")
  BY Shapes DEF SecondChecks
<1>21. Has(s[21], 0, "none")  BY Shapes DEF SecondChecks
<1>22. Has(s[22], 0, "none")  BY Shapes DEF SecondChecks
<1>23. Has(s[23], 1, "registry")
  BY Shapes DEF SecondChecks
<1>24. Has(s[24], 0, "none")  BY Shapes DEF SecondChecks
<1>25. Has(s[25], 0, "none")  BY Shapes DEF SecondChecks
<1>26. Has(s[26], 0, "none")  BY Shapes DEF SecondChecks
<1>27. Has(s[27], 0, "none")  BY Shapes DEF SecondChecks
<1>28. Has(s[28], 0, "none")  BY Shapes DEF SecondChecks
<1>29. Has(s[29], 1, "servers")
  BY Shapes DEF SecondChecks
<1>30. Has(s[30], 0, "none")  BY Shapes DEF SecondChecks
<1>31. Has(s[31], 0, "none")  BY Shapes DEF SecondChecks
<1>32. Has(s[32], 0, "none")  BY Shapes DEF SecondChecks
<1>33. Has(s[33], 0, "none")  BY Shapes DEF SecondChecks
<1>34. Has(s[34], 2, "platform")
  BY Shapes DEF SecondChecks
<1>i. \/ i = 18 \/ i = 19 \/ i = 20 \/ i = 21 \/ i = 22 \/ i = 23 \/ i = 24 \/ i = 25 \/ i = 26
      \/ i = 27 \/ i = 28 \/ i = 29 \/ i = 30 \/ i = 31 \/ i = 32 \/ i = 33 \/ i = 34
  OBVIOUS
<1> QED BY <1>i, <1>18, <1>19, <1>20, <1>21, <1>22, <1>23, <1>24, <1>25, <1>26, <1>27, <1>28, <1>29, <1>30, <1>31, <1>32, <1>33, <1>34

\* ... those about the platform ...
LEMMA ThirdShape ==
    ASSUME NEW s, NEW c, NEW e, NEW d, NEW left, ThirdChecks(s, c, e, d, left), NEW i \in 35..51
    PROVE  /\ (i \in {38} => Has(s[i], 2, "platform"))
           /\ (i \notin {38} => Has(s[i], 0, "none"))
<1>35. Has(s[35], 0, "none")  BY Shapes DEF ThirdChecks
<1>36. Has(s[36], 0, "none")  BY Shapes DEF ThirdChecks
<1>37. Has(s[37], 0, "none")  BY Shapes DEF ThirdChecks
<1>38. Has(s[38], 2, "platform")
  <2>1. s[38] = HealthProbe(c, e, "observability", "analytics-api down", "analytics-api unhealthy")
    BY DEF ThirdChecks
  <2> QED BY <2>1, Shapes
<1>39. Has(s[39], 0, "none")  BY Shapes DEF ThirdChecks
<1>40. Has(s[40], 0, "none")  BY Shapes DEF ThirdChecks
<1>41. Has(s[41], 0, "none")  BY Shapes DEF ThirdChecks
<1>42. Has(s[42], 0, "none")  BY Shapes DEF ThirdChecks
<1>43. Has(s[43], 0, "none")  BY Shapes DEF ThirdChecks
<1>44. Has(s[44], 0, "none")  BY Shapes DEF ThirdChecks
<1>45. Has(s[45], 0, "none")  BY Shapes DEF ThirdChecks
<1>46. Has(s[46], 0, "none")  BY Shapes DEF ThirdChecks
<1>47. Has(s[47], 0, "none")  BY Shapes DEF ThirdChecks
<1>48. Has(s[48], 0, "none")  BY Shapes DEF ThirdChecks
<1>49. Has(s[49], 0, "none")  BY Shapes DEF ThirdChecks
<1>50. Has(s[50], 0, "none")  BY Shapes DEF ThirdChecks
<1>51. Has(s[51], 0, "none")  BY Shapes DEF ThirdChecks
<1>i. \/ i = 35 \/ i = 36 \/ i = 37 \/ i = 38 \/ i = 39 \/ i = 40 \/ i = 41 \/ i = 42 \/ i = 43
      \/ i = 44 \/ i = 45 \/ i = 46 \/ i = 47 \/ i = 48 \/ i = 49 \/ i = 50 \/ i = 51
  OBVIOUS
<1> QED BY <1>i, <1>35, <1>36, <1>37, <1>38, <1>39, <1>40, <1>41, <1>42, <1>43, <1>44, <1>45, <1>46, <1>47, <1>48, <1>49, <1>50, <1>51

\* ... and the last ones.
LEMMA FourthShape ==
    ASSUME NEW s, NEW c, NEW e, NEW d, NEW left, FourthChecks(s, c, e, d, left), NEW i \in 52..67
    PROVE  /\ (i \in {65} => Has(s[i], 0, "smoke"))
           /\ (i \in {53, 57} => Has(s[i], 1, "platform"))
           /\ (i \in {54} => Has(s[i], 2, "platform"))
           /\ (i \notin {53, 54, 57, 65} => Has(s[i], 0, "none"))
<1>52. Has(s[52], 0, "none")  BY Shapes DEF FourthChecks
<1>53. Has(s[53], 1, "platform")
  <2>1. s[53] = Probe(Gated(c, e, "platform", {"api key missing"}), 1, "platform", checkPlatformAPIAuthProbe(c))
    BY DEF FourthChecks
  <2> QED BY <2>1, Shapes
<1>54. Has(s[54], 2, "platform")
  <2>1. s[54] = Probe(Gated(c, e, "platform", {"api key missing"}), 2, "platform", runPlatformAuthenticatedProbe(c))
    BY DEF FourthChecks
  <2> QED BY <2>1, Shapes
<1>55. Has(s[55], 0, "none")  BY Shapes DEF FourthChecks
<1>56. Has(s[56], 0, "none")  BY Shapes DEF FourthChecks
<1>57. Has(s[57], 1, "platform")
  <2>1. s[57] = Probe(Gated(c, e, "platform", {"api key missing"}), 1, "platform", checkRuntimeAPIImageDisplayRefs(c))
    BY DEF FourthChecks
  <2> QED BY <2>1, Shapes
<1>58. Has(s[58], 0, "none")  BY Shapes DEF FourthChecks
<1>59. Has(s[59], 0, "none")  BY Shapes DEF FourthChecks
<1>60. Has(s[60], 0, "none")  BY Shapes DEF FourthChecks
<1>61. Has(s[61], 0, "none")  BY Shapes DEF FourthChecks
<1>62. Has(s[62], 0, "none")  BY Shapes DEF FourthChecks
<1>63. Has(s[63], 0, "none")  BY Shapes DEF FourthChecks
<1>64. Has(s[64], 0, "none")  BY Shapes DEF FourthChecks
<1>65. Has(s[65], 0, "smoke")
  <2>1. s[65] = Probe("ok", 0, "smoke", TRUE)
    BY DEF FourthChecks
  <2> QED BY <2>1, Shapes
<1>66. Has(s[66], 0, "none")  BY Shapes DEF FourthChecks
<1>67. Has(s[67], 0, "none")  BY Shapes DEF FourthChecks
<1>i. \/ i = 52 \/ i = 53 \/ i = 54 \/ i = 55 \/ i = 56 \/ i = 57 \/ i = 58 \/ i = 59
      \/ i = 60 \/ i = 61 \/ i = 62 \/ i = 63 \/ i = 64 \/ i = 65 \/ i = 66 \/ i = 67
  OBVIOUS
<1> QED BY <1>i, <1>52, <1>53, <1>54, <1>55, <1>56, <1>57, <1>58, <1>59, <1>60, <1>61, <1>62, <1>63, <1>64, <1>65, <1>66, <1>67

\* The checks before setup run none.
LEMMA PreflightShape ==
    ASSUME NEW s, NEW c, NEW e, NEW d, NEW left, PreflightChecks(s, c, e, d, left), NEW i \in 1..16
    PROVE  Has(s[i], 0, "none")
<1>1. Has(s[1], 0, "none")  BY Shapes DEF PreflightChecks
<1>2. Has(s[2], 0, "none")  BY Shapes DEF PreflightChecks
<1>3. Has(s[3], 0, "none")  BY Shapes DEF PreflightChecks
<1>4. Has(s[4], 0, "none")  BY Shapes DEF PreflightChecks
<1>5. Has(s[5], 0, "none")  BY Shapes DEF PreflightChecks
<1>6. Has(s[6], 0, "none")  BY Shapes DEF PreflightChecks
<1>7. Has(s[7], 0, "none")  BY Shapes DEF PreflightChecks
<1>8. Has(s[8], 0, "none")  BY Shapes DEF PreflightChecks
<1>9. Has(s[9], 0, "none")  BY Shapes DEF PreflightChecks
<1>10. Has(s[10], 0, "none")  BY Shapes DEF PreflightChecks
<1>11. Has(s[11], 0, "none")  BY Shapes DEF PreflightChecks
<1>12. Has(s[12], 0, "none")  BY Shapes DEF PreflightChecks
<1>13. Has(s[13], 0, "none")  BY Shapes DEF PreflightChecks
<1>14. Has(s[14], 0, "none")  BY Shapes DEF PreflightChecks
<1>15. Has(s[15], 0, "none")  BY Shapes DEF PreflightChecks
<1>16. Has(s[16], 0, "none")  BY Shapes DEF PreflightChecks
<1>i. \/ i = 1 \/ i = 2 \/ i = 3 \/ i = 4 \/ i = 5 \/ i = 6 \/ i = 7 \/ i = 8
      \/ i = 9 \/ i = 10 \/ i = 11 \/ i = 12 \/ i = 13 \/ i = 14 \/ i = 15 \/ i = 16
  OBVIOUS
<1> QED BY <1>i, <1>1, <1>2, <1>3, <1>4, <1>5, <1>6, <1>7, <1>8, <1>9, <1>10, <1>11, <1>12, <1>13, <1>14, <1>15, <1>16

\* Those after setup, the last of which deploys the smoke server.
LEMMA SmokeShape ==
    ASSUME NEW s, NEW c, NEW e, NEW d, NEW left, SmokeChecks(s, c, e, d, left), NEW i \in 1..8
    PROVE  /\ (i \in {8} => Has(s[i], 1, "platform"))
           /\ (i \in {6} => Has(s[i], 2, "platform"))
           /\ (i \notin {6, 8} => Has(s[i], 0, "none"))
<1>1. Has(s[1], 0, "none")  BY Shapes DEF SmokeChecks
<1>2. Has(s[2], 0, "none")  BY Shapes DEF SmokeChecks
<1>3. Has(s[3], 0, "none")  BY Shapes DEF SmokeChecks
<1>4. Has(s[4], 0, "none")  BY Shapes DEF SmokeChecks
<1>5. Has(s[5], 0, "none")  BY Shapes DEF SmokeChecks
<1>6. Has(s[6], 2, "platform")
  BY Shapes DEF SmokeChecks
<1>7. Has(s[7], 0, "none")  BY Shapes DEF SmokeChecks
<1>8. Has(s[8], 1, "platform")
  BY Shapes DEF SmokeChecks
<1>i. \/ i = 1 \/ i = 2 \/ i = 3 \/ i = 4
      \/ i = 5 \/ i = 6 \/ i = 7 \/ i = 8
  OBVIOUS
<1> QED BY <1>i, <1>1, <1>2, <1>3, <1>4, <1>5, <1>6, <1>7, <1>8

\* So the position in a suite fixes the pods and the namespace of a check, for every cluster and error.
LEMMA SuiteShape ==
    ASSUME NEW suite \in Suites, NEW c, NEW e, NEW d, NEW left, NEW i \in 1..SuiteLength(suite)
    PROVE  Has(Checks(suite, c, e, d, left)[i], PodsAt(suite, i), WhereAt(suite, i))
<1>1. CASE suite = "diagnostics"
  <2> DEFINE s == doctorCheckSpecs(c, e, d, left)
  <2>1. Checks(suite, c, e, d, left) = s /\ i \in 1..67
    BY <1>1 DEF Checks, SuiteLength
  <2>2. FirstChecks(s, c, e, d, left) /\ SecondChecks(s, c, e, d, left) /\ ThirdChecks(s, c, e, d, left)
        /\ FourthChecks(s, c, e, d, left)
    BY ChecksListed
  <2> HIDE DEF s
  <2>3. i \in 1..17 \/ i \in 18..34 \/ i \in 35..51 \/ i \in 52..67
    BY <2>1
  <2>4. CASE i \in 1..17
    <3>1. Has(s[i], 0, "none")
      BY <2>2, <2>4, FirstShape
    <3> QED BY <1>1, <2>1, <2>4, <3>1 DEF PodsAt, WhereAt
  <2>5. CASE i \in 18..34
    <3>1. /\ i \in {23} => Has(s[i], 1, "registry")
          /\ i \in {19, 20, 29} => Has(s[i], 1, "servers")
          /\ i \in {34} => Has(s[i], 2, "platform")
          /\ i \notin {19, 20, 23, 29, 34} => Has(s[i], 0, "none")
      BY <2>2, <2>5, SecondShape
    <3> QED BY <1>1, <2>1, <2>5, <3>1 DEF PodsAt, WhereAt
  <2>6. CASE i \in 35..51
    <3>1. (i \in {38} => Has(s[i], 2, "platform")) /\ (i \notin {38} => Has(s[i], 0, "none"))
      BY <2>2, <2>6, ThirdShape
    <3> QED BY <1>1, <2>1, <2>6, <3>1 DEF PodsAt, WhereAt
  <2>7. CASE i \in 52..67
    <3>1. /\ i \in {65} => Has(s[i], 0, "smoke")
          /\ i \in {53, 57} => Has(s[i], 1, "platform")
          /\ i \in {54} => Has(s[i], 2, "platform")
          /\ i \notin {53, 54, 57, 65} => Has(s[i], 0, "none")
      BY <2>2, <2>7, FourthShape
    <3> QED BY <1>1, <2>1, <2>7, <3>1 DEF PodsAt, WhereAt
  <2> QED BY <2>3, <2>4, <2>5, <2>6, <2>7
<1>2. CASE suite = "doctor"
  <2> DEFINE s == doctorSetupCheckSpecs(c, e, d)
  <2>1. Checks(suite, c, e, d, left) = s /\ i \in 1..16
    BY <1>2 DEF Checks, SuiteLength
  <2>2. PreflightChecks(s, c, e, d, left)
    BY ChecksListed
  <2> HIDE DEF s
  <2>3. Has(s[i], 0, "none")
    BY <2>1, <2>2, PreflightShape
  <2> QED BY <1>2, <2>1, <2>3 DEF PodsAt, WhereAt
<1>3. CASE suite = "smoke"
  <2> DEFINE s == doctorPostSetupCheckSpecs(c, e, left)
  <2>1. Checks(suite, c, e, d, left) = s /\ i \in 1..8
    BY <1>3 DEF Checks, SuiteLength
  <2>2. SmokeChecks(s, c, e, d, left)
    BY ChecksListed
  <2> HIDE DEF s
  <2>3. /\ i \in {8} => Has(s[i], 1, "platform")
        /\ i \in {6} => Has(s[i], 2, "platform")
        /\ i \notin {6, 8} => Has(s[i], 0, "none")
    BY <2>1, <2>2, SmokeShape
  <2> QED BY <1>3, <2>1, <2>3 DEF PodsAt, WhereAt
<1>4. CASE suite = "identity"
  <2>1. i = 1
    BY <1>4 DEF SuiteLength
  <2>2. Checks(suite, c, e, d, left)[1] = Read(CheckWorkloadIdentity(c, e))
    BY <1>4 DEF Checks
  <2>3. Has(Read(CheckWorkloadIdentity(c, e)), 0, "none")
    BY Shapes
  <2> QED BY <1>4, <2>1, <2>2, <2>3 DEF PodsAt, WhereAt
<1> QED BY <1>1, <1>2, <1>3, <1>4 DEF Suites

\* No suite is empty and its length does not depend on the answers.
LEMMA SuiteLengths ==
    ASSUME NEW suite \in Suites, NEW c, NEW e, NEW d, NEW left
    PROVE  Len(Checks(suite, c, e, d, left)) = SuiteLength(suite) /\ SuiteLength(suite) \in Nat \ {0}
<1>1. CASE suite = "identity"
  BY <1>1 DEF Checks, SuiteLength
<1>2. CASE suite = "diagnostics"
  BY <1>2, ChecksListed DEF Checks, SuiteLength
<1>3. CASE suite = "doctor"
  BY <1>3, ChecksListed DEF Checks, SuiteLength
<1>4. CASE suite = "smoke"
  BY <1>4, ChecksListed DEF Checks, SuiteLength
<1> QED BY <1>1, <1>2, <1>3, <1>4 DEF Suites

\* No check runs more than two pods, and those that do run them in a namespace the properties look at.
LEMMA PodsSound ==
    ASSUME NEW suite \in Suites, NEW i \in Nat
    PROVE  /\ PodsAt(suite, i) \in 0..2
           /\ PodsAt(suite, i) > 0 => WhereAt(suite, i) \in PodNamespaces
           /\ PodsAt(suite, i) = 0 => WhereAt(suite, i) \in {"none", "smoke"}
  BY DEF PodsAt, WhereAt, PodNamespaces, Suites

-----------------------------------------------------------------------------
\* What a check says of a cluster with nothing wrong with it, and of one with a single fault.
\* Traefik is where one of the endpoints has it.
LEMMA Endpoints ==
    ASSUME NEW c, NEW d, NEW good \in BOOLEAN
    PROVE  /\ Traefik(c, "none", d, good) \in {"ok", "fail"}
           /\ ~good => Traefik(c, "none", d, good) = "fail"
           /\ good /\ HealthyCluster(c) /\ d = c.distro => Traefik(c, "none", d, good) = "ok"
<1>1. ~good => ~Endpoint(c, d, good)
  BY DEF Endpoint
<1>2. ASSUME good, HealthyCluster(c), d = c.distro  PROVE Endpoint(c, d, good)
  <2>1. CASE c.traefik = "managed" /\ d = "k3s"
    <3>1. 2 \in DOMAIN doctorTraefikEndpoints(d) /\ doctorTraefikEndpoints(d)[2] = "managed"
      BY <2>1 DEF doctorTraefikEndpoints
    <3> QED BY <1>2, <2>1, <3>1 DEF Endpoint
  <2>2. CASE c.traefik = "managed" /\ d # "k3s"
    <3>1. 1 \in DOMAIN doctorTraefikEndpoints(d) /\ doctorTraefikEndpoints(d)[1] = "managed"
      BY <2>2 DEF doctorTraefikEndpoints
    <3> QED BY <1>2, <2>2, <3>1 DEF Endpoint
  <2>3. CASE c.traefik = "bundled" /\ d = "k3s"
    <3>1. 1 \in DOMAIN doctorTraefikEndpoints(d) /\ doctorTraefikEndpoints(d)[1] = "bundled"
      BY <2>3 DEF doctorTraefikEndpoints
    <3> QED BY <1>2, <2>3, <3>1 DEF Endpoint
  <2>4. (c.traefik = "managed") \/ (c.traefik = "bundled" /\ d = "k3s")
    BY <1>2 DEF HealthyCluster
  <2> QED BY <2>1, <2>2, <2>3, <2>4
<1> QED BY <1>1, <1>2 DEF Traefik

\* The cluster and its nodes, the server namespace and the operator.
LEMMA ClusterWell ==
    ASSUME NEW c, HealthyCluster(c), NEW d, d = c.distro
    PROVE  /\ checkClusterNodesReady(c, "none") # "fail"
           /\ checkNodeCapacity(c, "none") # "fail"
           /\ checkNodeRuntimeHealth(c, "none") # "fail"
           /\ checkNodeArchitectureCompatibility(c, "none") # "fail"
           /\ checkRuntimeClassCompatibility(c, "none") # "fail"
           /\ checkStorageReadiness(c, "none") # "fail"
           /\ checkStorageClassReadiness(c, "none") # "fail"
           /\ checkClusterImageArchitecture(c, "none") # "fail"
           /\ checkPersistentVolumeClaims(c, "none") # "fail"
           /\ checkPendingPodsByNamespace(c, "none", {}) # "fail"
           /\ checkNamespaceExists(c, "none") # "fail"
           /\ checkNamespaceDefaultServiceAccount(c, "none") # "fail"
           /\ checkNamespacePolicyGuardrails(c, "none") # "fail"
           /\ checkNamespacePodAdmission(c, "none") # "fail"
           /\ checkMCPServerCRD(c, "none") # "fail"
           /\ checkOperatorReady(c, "none") # "fail"
           /\ checkOperatorWebhookCertExpiry(c, "none") # "fail"
           /\ checkOperatorRegistryEndpoint(c, "none") # "fail"
           /\ checkOperatorRecentReconcileErrors(c, "none") # "fail"
           /\ checkOperatorEffectivePermissions(c, "none") # "fail"
           /\ checkOperatorClusterRoleRules(c, "none") # "fail"
<1>0. c.bad = {}
  BY DEF HealthyCluster
<1>1. checkClusterNodesReady(c, "none") # "fail"
  BY <1>0 DEF checkClusterNodesReady, Strict, Wrong
<1>2. checkNodeCapacity(c, "none") # "fail"
  BY <1>0 DEF checkNodeCapacity, Strict, Wrong
<1>3. checkNodeRuntimeHealth(c, "none") # "fail"
  BY <1>0 DEF checkNodeRuntimeHealth, Strict, Wrong
<1>4. checkNodeArchitectureCompatibility(c, "none") # "fail"
  BY <1>0 DEF checkNodeArchitectureCompatibility, Strict, Wrong
<1>5. checkRuntimeClassCompatibility(c, "none") # "fail"
  BY <1>0 DEF checkRuntimeClassCompatibility, Strict, Wrong
<1>6. checkStorageReadiness(c, "none") # "fail"
  BY <1>0 DEF checkStorageReadiness, Strict, Wrong
<1>7. checkStorageClassReadiness(c, "none") # "fail"
  BY <1>0 DEF checkStorageClassReadiness, Strict, Wrong
<1>8. checkClusterImageArchitecture(c, "none") # "fail"
  BY <1>0 DEF checkClusterImageArchitecture, Gated, Strict, Wrong
<1>9. checkPersistentVolumeClaims(c, "none") # "fail"
  BY <1>0 DEF checkPersistentVolumeClaims, Strict, Wrong
<1>10. checkPendingPodsByNamespace(c, "none", {}) # "fail"
  BY <1>0 DEF checkPendingPodsByNamespace, Strict, Wrong
<1>11. checkNamespaceExists(c, "none") # "fail"
  BY <1>0 DEF checkNamespaceExists, Strict, Wrong
<1>12. checkNamespaceDefaultServiceAccount(c, "none") # "fail"
  BY <1>0 DEF checkNamespaceDefaultServiceAccount, Strict, Wrong
<1>13. checkNamespacePolicyGuardrails(c, "none") # "fail"
  BY <1>0 DEF checkNamespacePolicyGuardrails, Strict, Wrong
<1>14. checkNamespacePodAdmission(c, "none") # "fail"
  BY <1>0 DEF checkNamespacePodAdmission, Strict, Wrong
<1>15. checkMCPServerCRD(c, "none") # "fail"
  BY <1>0 DEF checkMCPServerCRD, Strict, Wrong
<1>16. checkOperatorReady(c, "none") # "fail"
  BY <1>0 DEF checkOperatorReady, Strict, Wrong
<1>17. checkOperatorWebhookCertExpiry(c, "none") # "fail"
  BY <1>0 DEF checkOperatorWebhookCertExpiry, Strict, Wrong
<1>18. checkOperatorRegistryEndpoint(c, "none") # "fail"
  BY <1>0 DEF checkOperatorRegistryEndpoint, Strict, Wrong
<1>19. checkOperatorRecentReconcileErrors(c, "none") # "fail"
  BY <1>0 DEF checkOperatorRecentReconcileErrors, Strict, Wrong
<1>20. checkOperatorEffectivePermissions(c, "none") # "fail"
  BY <1>0 DEF checkOperatorEffectivePermissions, Strict, Wrong
<1>21. checkOperatorClusterRoleRules(c, "none") # "fail"
  BY <1>0 DEF checkOperatorClusterRoleRules, Strict, Wrong
<1> QED BY <1>1, <1>2, <1>3, <1>4, <1>5, <1>6, <1>7, <1>8, <1>9, <1>10, <1>11, <1>12, <1>13, <1>14, <1>15, <1>16, <1>17, <1>18, <1>19, <1>20, <1>21

\* A single fault of the nodes, the operator or its permissions fails the check that looks for it ...
LEMMA ClusterIll ==
    ASSUME NEW c, NEW f, c.bad = {f}, FaultApplies(c, f), NEW d
    PROVE  /\ f = "node not ready" => checkClusterNodesReady(c, "none") = "fail"
           /\ f = "hot node" => checkNodeCapacity(c, "none") = "fail"
           /\ f = "node pressure" => checkNodeRuntimeHealth(c, "none") = "fail"
           /\ f = "no container runtime" => checkNodeRuntimeHealth(c, "none") = "fail"
           /\ f = "architecture unknown" => checkNodeArchitectureCompatibility(c, "none") = "fail"
           /\ f = "runtime class missing" => checkRuntimeClassCompatibility(c, "none") = "fail"
           /\ f = "no storage class" => checkStorageClassReadiness(c, "none") = "fail"
           /\ f = "local storage on many nodes" => checkStorageClassReadiness(c, "none") = "fail"
           /\ f = "architecture mismatch" => checkClusterImageArchitecture(c, "none") = "fail"
           /\ f = "claim pending" => checkPersistentVolumeClaims(c, "none") = "fail"
           /\ f = "pod pending" => checkPendingPodsByNamespace(c, "none", {}) = "fail"
           /\ f = "pull failing" => checkPendingPodsByNamespace(c, "none", {}) = "fail"
           /\ f = "pull rejected" => checkPendingPodsByNamespace(c, "none", {}) = "fail"
           /\ f = "pull over http" => checkPendingPodsByNamespace(c, "none", {}) = "fail"
           /\ f = "no server namespace" => checkNamespaceExists(c, "none") = "fail"
           /\ f = "no service account" => checkNamespaceDefaultServiceAccount(c, "none") = "fail"
           /\ f = "admission denied" => checkNamespacePodAdmission(c, "none") = "fail"
           /\ f = "no CRD" => checkMCPServerCRD(c, "none") = "fail"
           /\ f = "operator down" => checkOperatorReady(c, "none") = "fail"
           /\ f = "webhook certificate expired" => checkOperatorWebhookCertExpiry(c, "none") = "fail"
           /\ f = "reconcile errors" => checkOperatorRecentReconcileErrors(c, "none") = "fail"
           /\ f = "permission missing" => checkOperatorEffectivePermissions(c, "none") = "fail"
           /\ f = "auth permission missing" => checkOperatorEffectivePermissions(c, "none") = "fail"
           /\ f = "role rule missing" => checkOperatorClusterRoleRules(c, "none") = "fail"
<1>1. f = "node not ready" => checkClusterNodesReady(c, "none") = "fail"
  BY DEF checkClusterNodesReady, Strict, Wrong
<1>2. f = "hot node" => checkNodeCapacity(c, "none") = "fail"
  BY DEF checkNodeCapacity, Strict, Wrong
<1>3. f = "node pressure" => checkNodeRuntimeHealth(c, "none") = "fail"
  BY DEF checkNodeRuntimeHealth, Strict, Wrong
<1>4. f = "no container runtime" => checkNodeRuntimeHealth(c, "none") = "fail"
  BY DEF checkNodeRuntimeHealth, Strict, Wrong
<1>5. f = "architecture unknown" => checkNodeArchitectureCompatibility(c, "none") = "fail"
  BY DEF checkNodeArchitectureCompatibility, Strict, Wrong
<1>6. f = "runtime class missing" => checkRuntimeClassCompatibility(c, "none") = "fail"
  BY DEF checkRuntimeClassCompatibility, Strict, Wrong
<1>7. f = "no storage class" => checkStorageClassReadiness(c, "none") = "fail"
  BY DEF checkStorageClassReadiness, Strict, Wrong
<1>8. f = "local storage on many nodes" => checkStorageClassReadiness(c, "none") = "fail"
  BY DEF checkStorageClassReadiness, Strict, Wrong
<1>9. f = "architecture mismatch" => checkClusterImageArchitecture(c, "none") = "fail"
  BY DEF checkClusterImageArchitecture, Gated, Strict, Wrong, FaultApplies
<1>10. f = "claim pending" => checkPersistentVolumeClaims(c, "none") = "fail"
  BY DEF checkPersistentVolumeClaims, Strict, Wrong
<1>11. f = "pod pending" => checkPendingPodsByNamespace(c, "none", {}) = "fail"
  BY DEF checkPendingPodsByNamespace, Strict, Wrong
<1>12. f = "pull failing" => checkPendingPodsByNamespace(c, "none", {}) = "fail"
  BY DEF checkPendingPodsByNamespace, Strict, Wrong
<1>13. f = "pull rejected" => checkPendingPodsByNamespace(c, "none", {}) = "fail"
  BY DEF checkPendingPodsByNamespace, Strict, Wrong
<1>14. f = "pull over http" => checkPendingPodsByNamespace(c, "none", {}) = "fail"
  BY DEF checkPendingPodsByNamespace, Strict, Wrong
<1>15. f = "no server namespace" => checkNamespaceExists(c, "none") = "fail"
  BY DEF checkNamespaceExists, Strict, Wrong
<1>16. f = "no service account" => checkNamespaceDefaultServiceAccount(c, "none") = "fail"
  BY DEF checkNamespaceDefaultServiceAccount, Strict, Wrong
<1>17. f = "admission denied" => checkNamespacePodAdmission(c, "none") = "fail"
  BY DEF checkNamespacePodAdmission, Strict, Wrong
<1>18. f = "no CRD" => checkMCPServerCRD(c, "none") = "fail"
  BY DEF checkMCPServerCRD, Strict, Wrong
<1>19. f = "operator down" => checkOperatorReady(c, "none") = "fail"
  BY DEF checkOperatorReady, Strict, Wrong
<1>20. f = "webhook certificate expired" => checkOperatorWebhookCertExpiry(c, "none") = "fail"
  BY DEF checkOperatorWebhookCertExpiry, Strict, Wrong
<1>21. f = "reconcile errors" => checkOperatorRecentReconcileErrors(c, "none") = "fail"
  BY DEF checkOperatorRecentReconcileErrors, Strict, Wrong
<1>22. f = "permission missing" => checkOperatorEffectivePermissions(c, "none") = "fail"
  BY DEF checkOperatorEffectivePermissions, Strict, Wrong, FaultApplies
<1>23. f = "auth permission missing" => checkOperatorEffectivePermissions(c, "none") = "fail"
  BY DEF checkOperatorEffectivePermissions, Strict, Wrong, FaultApplies
<1>24. f = "role rule missing" => checkOperatorClusterRoleRules(c, "none") = "fail"
  BY DEF checkOperatorClusterRoleRules, Strict, Wrong
<1> QED BY <1>1, <1>2, <1>3, <1>4, <1>5, <1>6, <1>7, <1>8, <1>9, <1>10, <1>11, <1>12, <1>13, <1>14, <1>15, <1>16, <1>17, <1>18, <1>19, <1>20, <1>21, <1>22, <1>23, <1>24

\* Traefik and the registry.
LEMMA RegistryWell ==
    ASSUME NEW c, HealthyCluster(c), NEW d, d = c.distro
    PROVE  /\ checkTraefikIngressClass(c, "none") # "fail"
           /\ checkTraefikDeploymentReady(c, "none", d) # "fail"
           /\ checkTraefikWebEntrypoint(c, "none", d) # "fail"
           /\ checkTraefikServiceExposure(c, "none", d) # "fail"
           /\ checkIngressLoadBalancerStatus(c, "none") # "fail"
           /\ checkPlatformAPILiveInventoryNetworkPolicy(c, "none") # "fail"
           /\ checkRegistryService(c, "none") # "fail"
           /\ checkRegistryIngressHosts(c, "none") # "fail"
           /\ checkRegistryServiceIPImageRefs(c, "none") # "fail"
           /\ checkMCPServerImagePullSecrets(c, "none") # "fail"
           /\ checkManagedTeamRegistryPullSecrets(c, "none") # "fail"
           /\ checkManagedTeamWorkloadServiceAccounts(c, "none") # "fail"
           /\ checkMCPServersImagePullSecrets(c, "none") # "fail"
           /\ checkRegistryHTTPPullMismatch(c, "none") # "fail"
           /\ checkRegistryImagePullDiagnostics(c, "none") # "fail"
<1>0. c.bad = {}
  BY DEF HealthyCluster
<1>1. checkTraefikIngressClass(c, "none") # "fail"
  BY <1>0 DEF checkTraefikIngressClass, Strict, Wrong
<1>2. checkTraefikDeploymentReady(c, "none", d) # "fail"
  BY <1>0, Endpoints DEF checkTraefikDeploymentReady, TraefikReady, Wrong
<1>3. checkTraefikWebEntrypoint(c, "none", d) # "fail"
  BY <1>0, Endpoints DEF checkTraefikWebEntrypoint, WebPort, Wrong
<1>4. checkTraefikServiceExposure(c, "none", d) # "fail"
  BY <1>0, Endpoints DEF checkTraefikServiceExposure, WebPort, Exposed, TraefikReady, ingressDistroAllowsPortForwardExposure, Wrong, HealthyCluster
<1>5. checkIngressLoadBalancerStatus(c, "none") # "fail"
  BY <1>0 DEF checkIngressLoadBalancerStatus, Strict, Wrong
<1>6. checkPlatformAPILiveInventoryNetworkPolicy(c, "none") # "fail"
  BY <1>0 DEF checkPlatformAPILiveInventoryNetworkPolicy, Strict, Wrong
<1>7. checkRegistryService(c, "none") # "fail"
  BY <1>0 DEF checkRegistryService, Strict, Wrong
<1>8. checkRegistryIngressHosts(c, "none") # "fail"
  BY <1>0 DEF checkRegistryIngressHosts, Strict, Wrong
<1>9. checkRegistryServiceIPImageRefs(c, "none") # "fail"
  BY <1>0 DEF checkRegistryServiceIPImageRefs, Strict, Wrong
<1>10. checkMCPServerImagePullSecrets(c, "none") # "fail"
  BY <1>0 DEF checkMCPServerImagePullSecrets, Strict, Wrong
<1>11. checkManagedTeamRegistryPullSecrets(c, "none") # "fail"
  BY <1>0 DEF checkManagedTeamRegistryPullSecrets, Strict, Wrong
<1>12. checkManagedTeamWorkloadServiceAccounts(c, "none") # "fail"
  BY <1>0 DEF checkManagedTeamWorkloadServiceAccounts, Strict, Wrong
<1>13. checkMCPServersImagePullSecrets(c, "none") # "fail"
  BY <1>0 DEF checkMCPServersImagePullSecrets, Strict, Wrong
<1>14. checkRegistryHTTPPullMismatch(c, "none") # "fail"
  BY <1>0 DEF checkRegistryHTTPPullMismatch, Describing, Strict, Wrong
<1>15. checkRegistryImagePullDiagnostics(c, "none") # "fail"
  BY <1>0 DEF checkRegistryImagePullDiagnostics, Describing, Strict, Wrong
<1> QED BY <1>1, <1>2, <1>3, <1>4, <1>5, <1>6, <1>7, <1>8, <1>9, <1>10, <1>11, <1>12, <1>13, <1>14, <1>15

\* ... one of the ingress or the registry ...
LEMMA RegistryIll ==
    ASSUME NEW c, NEW f, c.bad = {f}, FaultApplies(c, f), NEW d
    PROVE  /\ f = "no ingress class" => checkTraefikIngressClass(c, "none") = "fail"
           /\ f = "traefik down" => checkTraefikDeploymentReady(c, "none", d) = "fail"
           /\ f = "no web port" => checkTraefikWebEntrypoint(c, "none", d) = "fail"
           /\ f = "not exposed" => checkTraefikServiceExposure(c, "none", d) = "fail"
           /\ f = "ingress pending" => checkIngressLoadBalancerStatus(c, "none") = "fail"
           /\ f = "inventory denied" => checkPlatformAPILiveInventoryNetworkPolicy(c, "none") = "fail"
           /\ f = "no registry service" => checkRegistryService(c, "none") = "fail"
           /\ f = "registry rule not certified" => checkRegistryIngressHosts(c, "none") = "fail"
           /\ f = "registry host moved" => checkRegistryIngressHosts(c, "none") = "fail"
           /\ f = "service address in image" => checkRegistryServiceIPImageRefs(c, "none") = "fail"
           /\ f = "server pull secret missing" => checkMCPServerImagePullSecrets(c, "none") = "fail"
           /\ f = "team pull secret missing" => checkManagedTeamRegistryPullSecrets(c, "none") = "fail"
           /\ f = "team account not wired" => checkManagedTeamWorkloadServiceAccounts(c, "none") = "fail"
           /\ f = "default pull secret missing" => checkMCPServersImagePullSecrets(c, "none") = "fail"
<1>1. f = "no ingress class" => checkTraefikIngressClass(c, "none") = "fail"
  BY DEF checkTraefikIngressClass, Strict, Wrong
<1>2. f = "traefik down" => checkTraefikDeploymentReady(c, "none", d) = "fail"
  BY Endpoints DEF checkTraefikDeploymentReady, TraefikReady, Wrong
<1>3. f = "no web port" => checkTraefikWebEntrypoint(c, "none", d) = "fail"
  BY Endpoints DEF checkTraefikWebEntrypoint, WebPort, Wrong
<1>4. f = "not exposed" => checkTraefikServiceExposure(c, "none", d) = "fail"
  BY Endpoints DEF checkTraefikServiceExposure, WebPort, Exposed, TraefikReady, ingressDistroAllowsPortForwardExposure, Wrong, FaultApplies
<1>5. f = "ingress pending" => checkIngressLoadBalancerStatus(c, "none") = "fail"
  BY DEF checkIngressLoadBalancerStatus, Strict, Wrong, FaultApplies
<1>6. f = "inventory denied" => checkPlatformAPILiveInventoryNetworkPolicy(c, "none") = "fail"
  BY DEF checkPlatformAPILiveInventoryNetworkPolicy, Strict, Wrong
<1>7. f = "no registry service" => checkRegistryService(c, "none") = "fail"
  BY DEF checkRegistryService, Strict, Wrong
<1>8. f = "registry rule not certified" => checkRegistryIngressHosts(c, "none") = "fail"
  BY DEF checkRegistryIngressHosts, Strict, Wrong
<1>9. f = "registry host moved" => checkRegistryIngressHosts(c, "none") = "fail"
  BY DEF checkRegistryIngressHosts, Strict, Wrong
<1>10. f = "service address in image" => checkRegistryServiceIPImageRefs(c, "none") = "fail"
  BY DEF checkRegistryServiceIPImageRefs, Strict, Wrong
<1>11. f = "server pull secret missing" => checkMCPServerImagePullSecrets(c, "none") = "fail"
  BY DEF checkMCPServerImagePullSecrets, Strict, Wrong
<1>12. f = "team pull secret missing" => checkManagedTeamRegistryPullSecrets(c, "none") = "fail"
  BY DEF checkManagedTeamRegistryPullSecrets, Strict, Wrong
<1>13. f = "team account not wired" => checkManagedTeamWorkloadServiceAccounts(c, "none") = "fail"
  BY DEF checkManagedTeamWorkloadServiceAccounts, Strict, Wrong
<1>14. f = "default pull secret missing" => checkMCPServersImagePullSecrets(c, "none") = "fail"
  BY DEF checkMCPServersImagePullSecrets, Strict, Wrong
<1> QED BY <1>1, <1>2, <1>3, <1>4, <1>5, <1>6, <1>7, <1>8, <1>9, <1>10, <1>11, <1>12, <1>13, <1>14

\* The platform services.
LEMMA ServicesWell ==
    ASSUME NEW c, HealthyCluster(c), NEW d, d = c.distro
    PROVE  /\ checkPlatformKafkaReadiness(c, "none") # "fail"
           /\ checkPlatformIngestReadiness(c, "none") # "fail"
           /\ checkPlatformWorkloadHealth(c, "none") # "fail"
           /\ checkPlatformStalePods(c, "none", {}) # "fail"
           /\ checkPlatformPostgresCredentialDrift(c, "none") # "fail"
           /\ checkPlatformTelemetryPipeline(c, "none") # "fail"
           /\ checkPlatformGrafanaProvisioning(c, "none") # "fail"
           /\ checkRuntimeAPIKubernetesAPIEgress(c, "none") # "fail"
           /\ checkDNSNetworkPolicyPortability(c, "none") # "fail"
           /\ checkSessionLocalDeploymentScaling(c, "none") # "fail"
           /\ checkPlatformSecrets(c, "none") # "fail"
           /\ checkPlatformSecretConsumerFreshness(c, "none") # "fail"
           /\ checkPlatformOIDCConfiguration(c, "none") # "fail"
           /\ checkIngestServiceAccountAuth(c, "none") # "fail"
           /\ checkGatewayAnalyticsCredentials(c, "none") # "fail"
           /\ checkGatewayAnalyticsDelivery(c, "none") # "fail"
           /\ checkMCPAuthDeployment(c, "none") # "fail"
           /\ checkMCPAuthSecrets(c, "none") # "fail"
           /\ checkMCPServerTraefikEgress(c, "none") # "fail"
           /\ checkPlatformPullSecrets(c, "none") # "fail"
           /\ checkPlatformGrafanaAdminCredentials(c, "none") # "fail"
<1>0. c.bad = {}
  BY DEF HealthyCluster
<1>1. checkPlatformKafkaReadiness(c, "none") # "fail"
  BY <1>0 DEF checkPlatformKafkaReadiness, Gated, Strict, Wrong
<1>2. checkPlatformIngestReadiness(c, "none") # "fail"
  BY <1>0 DEF checkPlatformIngestReadiness, Gated, Strict, Wrong
<1>3. checkPlatformWorkloadHealth(c, "none") # "fail"
  BY <1>0 DEF checkPlatformWorkloadHealth, Gated, Strict, Wrong
<1>4. checkPlatformStalePods(c, "none", {}) # "fail"
  BY <1>0 DEF checkPlatformStalePods, Gated, Strict, Wrong
<1>5. checkPlatformPostgresCredentialDrift(c, "none") # "fail"
  BY <1>0 DEF checkPlatformPostgresCredentialDrift, Gated, Strict, Wrong
<1>6. checkPlatformTelemetryPipeline(c, "none") # "fail"
  BY <1>0 DEF checkPlatformTelemetryPipeline, Gated, Strict, Wrong
<1>7. checkPlatformGrafanaProvisioning(c, "none") # "fail"
  BY <1>0 DEF checkPlatformGrafanaProvisioning, Gated, Strict, Wrong
<1>8. checkRuntimeAPIKubernetesAPIEgress(c, "none") # "fail"
  BY <1>0 DEF checkRuntimeAPIKubernetesAPIEgress, Gated, Strict, Wrong
<1>9. checkDNSNetworkPolicyPortability(c, "none") # "fail"
  BY <1>0 DEF checkDNSNetworkPolicyPortability, Gated, Strict, Wrong
<1>10. checkSessionLocalDeploymentScaling(c, "none") # "fail"
  BY <1>0 DEF checkSessionLocalDeploymentScaling, Gated, Strict, Wrong
<1>11. checkPlatformSecrets(c, "none") # "fail"
  BY <1>0 DEF checkPlatformSecrets, Gated, Strict, Wrong
<1>12. checkPlatformSecretConsumerFreshness(c, "none") # "fail"
  BY <1>0 DEF checkPlatformSecretConsumerFreshness, Gated, Strict, Wrong
<1>13. checkPlatformOIDCConfiguration(c, "none") # "fail"
  BY <1>0 DEF checkPlatformOIDCConfiguration, Lenient, Strict, Wrong
<1>14. checkIngestServiceAccountAuth(c, "none") # "fail"
  BY <1>0 DEF checkIngestServiceAccountAuth, Gated, Strict, Wrong
<1>15. checkGatewayAnalyticsCredentials(c, "none") # "fail"
  BY <1>0 DEF checkGatewayAnalyticsCredentials, Strict, Wrong
<1>16. checkGatewayAnalyticsDelivery(c, "none") # "fail"
  BY <1>0 DEF checkGatewayAnalyticsDelivery, Strict, Wrong
<1>17. checkMCPAuthDeployment(c, "none") # "fail"
  BY <1>0 DEF checkMCPAuthDeployment, Gated, Strict, Wrong
<1>18. checkMCPAuthSecrets(c, "none") # "fail"
  BY <1>0 DEF checkMCPAuthSecrets, Gated, Strict, Wrong
<1>19. checkMCPServerTraefikEgress(c, "none") # "fail"
  BY <1>0 DEF checkMCPServerTraefikEgress, Lenient, Strict, Wrong
<1>20. checkPlatformPullSecrets(c, "none") # "fail"
  BY <1>0 DEF checkPlatformPullSecrets, Gated, Strict, Wrong
<1>21. checkPlatformGrafanaAdminCredentials(c, "none") # "fail"
  BY <1>0 DEF checkPlatformGrafanaAdminCredentials, Gated, Strict, Wrong
<1> QED BY <1>1, <1>2, <1>3, <1>4, <1>5, <1>6, <1>7, <1>8, <1>9, <1>10, <1>11, <1>12, <1>13, <1>14, <1>15, <1>16, <1>17, <1>18, <1>19, <1>20, <1>21

\* ... one of the platform's services ...
LEMMA ServicesIll ==
    ASSUME NEW c, NEW f, c.bad = {f}, FaultApplies(c, f), NEW d
    PROVE  /\ f = "kafka down" => checkPlatformKafkaReadiness(c, "none") = "fail"
           /\ f = "ingest down" => checkPlatformIngestReadiness(c, "none") = "fail"
           /\ f = "platform-api down" => checkPlatformWorkloadHealth(c, "none") = "fail"
           /\ f = "rollout stuck" => checkPlatformWorkloadHealth(c, "none") = "fail"
           /\ f = "stale pod" => checkPlatformStalePods(c, "none", {}) = "fail"
           /\ f = "password drift" => checkPlatformPostgresCredentialDrift(c, "none") = "fail"
           /\ f = "collector down" => checkPlatformTelemetryPipeline(c, "none") = "fail"
           /\ f = "dashboards missing" => checkPlatformGrafanaProvisioning(c, "none") = "fail"
           /\ f = "egress blocked" => checkRuntimeAPIKubernetesAPIEgress(c, "none") = "fail"
           /\ f = "dns not allowed" => checkDNSNetworkPolicyPortability(c, "none") = "fail"
           /\ f = "sessions in memory" => checkSessionLocalDeploymentScaling(c, "none") = "fail"
           /\ f = "api key missing" => checkPlatformSecrets(c, "none") = "fail"
           /\ f = "secret newer than pods" => checkPlatformSecretConsumerFreshness(c, "none") = "fail"
           /\ f = "no login provider" => checkPlatformOIDCConfiguration(c, "none") = "fail"
           /\ f = "ingest cannot review" => checkIngestServiceAccountAuth(c, "none") = "fail"
           /\ f = "gateway token missing" => checkGatewayAnalyticsCredentials(c, "none") = "fail"
           /\ f = "events rejected" => checkGatewayAnalyticsDelivery(c, "none") = "fail"
           /\ f = "auth server down" => checkMCPAuthDeployment(c, "none") = "fail"
           /\ f = "auth key missing" => checkMCPAuthSecrets(c, "none") = "fail"
           /\ f = "server egress not ready" => checkMCPServerTraefikEgress(c, "none") = "fail"
           /\ f = "platform pull secret missing" => checkPlatformPullSecrets(c, "none") = "fail"
           /\ f = "grafana password" => checkPlatformGrafanaAdminCredentials(c, "none") = "fail"
<1>1. f = "kafka down" => checkPlatformKafkaReadiness(c, "none") = "fail"
  BY DEF checkPlatformKafkaReadiness, Gated, Strict, Wrong, FaultApplies, ObservabilityFaults
<1>2. f = "ingest down" => checkPlatformIngestReadiness(c, "none") = "fail"
  BY DEF checkPlatformIngestReadiness, Gated, Strict, Wrong, FaultApplies, ObservabilityFaults
<1>3. f = "platform-api down" => checkPlatformWorkloadHealth(c, "none") = "fail"
  BY DEF checkPlatformWorkloadHealth, Gated, Strict, Wrong, FaultApplies, PlatformFaults
<1>4. f = "rollout stuck" => checkPlatformWorkloadHealth(c, "none") = "fail"
  BY DEF checkPlatformWorkloadHealth, Gated, Strict, Wrong, FaultApplies, PlatformFaults
<1>5. f = "stale pod" => checkPlatformStalePods(c, "none", {}) = "fail"
  BY DEF checkPlatformStalePods, Gated, Strict, Wrong, FaultApplies, PlatformFaults
<1>6. f = "password drift" => checkPlatformPostgresCredentialDrift(c, "none") = "fail"
  BY DEF checkPlatformPostgresCredentialDrift, Gated, Strict, Wrong, FaultApplies, PlatformFaults
<1>7. f = "collector down" => checkPlatformTelemetryPipeline(c, "none") = "fail"
  BY DEF checkPlatformTelemetryPipeline, Gated, Strict, Wrong, FaultApplies, ObservabilityFaults
<1>8. f = "dashboards missing" => checkPlatformGrafanaProvisioning(c, "none") = "fail"
  BY DEF checkPlatformGrafanaProvisioning, Gated, Strict, Wrong, FaultApplies, ObservabilityFaults
<1>9. f = "egress blocked" => checkRuntimeAPIKubernetesAPIEgress(c, "none") = "fail"
  BY DEF checkRuntimeAPIKubernetesAPIEgress, Gated, Strict, Wrong, FaultApplies, PlatformFaults
<1>10. f = "dns not allowed" => checkDNSNetworkPolicyPortability(c, "none") = "fail"
  BY DEF checkDNSNetworkPolicyPortability, Gated, Strict, Wrong, FaultApplies, PlatformFaults
<1>11. f = "sessions in memory" => checkSessionLocalDeploymentScaling(c, "none") = "fail"
  BY DEF checkSessionLocalDeploymentScaling, Gated, Strict, Wrong, FaultApplies, PlatformFaults
<1>12. f = "api key missing" => checkPlatformSecrets(c, "none") = "fail"
  BY DEF checkPlatformSecrets, Gated, Strict, Wrong, FaultApplies, PlatformFaults
<1>13. f = "secret newer than pods" => checkPlatformSecretConsumerFreshness(c, "none") = "fail"
  BY DEF checkPlatformSecretConsumerFreshness, Gated, Strict, Wrong, FaultApplies, PlatformFaults
<1>14. f = "no login provider" => checkPlatformOIDCConfiguration(c, "none") = "fail"
  BY DEF checkPlatformOIDCConfiguration, Lenient, Strict, Wrong, FaultApplies, PlatformFaults
<1>15. f = "ingest cannot review" => checkIngestServiceAccountAuth(c, "none") = "fail"
  BY DEF checkIngestServiceAccountAuth, Gated, Strict, Wrong, FaultApplies, ObservabilityFaults
<1>16. f = "gateway token missing" => checkGatewayAnalyticsCredentials(c, "none") = "fail"
  BY DEF checkGatewayAnalyticsCredentials, Strict, Wrong
<1>17. f = "events rejected" => checkGatewayAnalyticsDelivery(c, "none") = "fail"
  BY DEF checkGatewayAnalyticsDelivery, Strict, Wrong
<1>18. f = "auth server down" => checkMCPAuthDeployment(c, "none") = "fail"
  BY DEF checkMCPAuthDeployment, Gated, Strict, Wrong, FaultApplies
<1>19. f = "auth key missing" => checkMCPAuthSecrets(c, "none") = "fail"
  BY DEF checkMCPAuthSecrets, Gated, Strict, Wrong, FaultApplies
<1>20. f = "server egress not ready" => checkMCPServerTraefikEgress(c, "none") = "fail"
  BY DEF checkMCPServerTraefikEgress, Lenient, Strict, Wrong
<1>21. f = "platform pull secret missing" => checkPlatformPullSecrets(c, "none") = "fail"
  BY DEF checkPlatformPullSecrets, Gated, Strict, Wrong, FaultApplies
<1>22. f = "grafana password" => checkPlatformGrafanaAdminCredentials(c, "none") = "fail"
  BY DEF checkPlatformGrafanaAdminCredentials, Gated, Strict, Wrong, FaultApplies, ObservabilityFaults
<1> QED BY <1>1, <1>2, <1>3, <1>4, <1>5, <1>6, <1>7, <1>8, <1>9, <1>10, <1>11, <1>12, <1>13, <1>14, <1>15, <1>16, <1>17, <1>18, <1>19, <1>20, <1>21, <1>22

\* Before setup, and the identity of workloads.
LEMMA SetupWell ==
    ASSUME NEW c, HealthyCluster(c), NEW d, d = c.distro
    PROVE  /\ checkPublicIngressHostConfig(c) # "fail"
           /\ checkPublicIngressDNS(c) # "fail"
           /\ checkCertManagerCompatibility(c, "none") # "fail"
           /\ checkCertManagerReadiness(c, "none") # "fail"
           /\ checkDoctorTLSClusterIssuer(c, "none") # "fail"
           /\ checkDoctorACMEHTTP01Exposure(c, "none", d) # "fail"
           /\ CheckWorkloadIdentity(c, "none") # "fail"
<1>0. c.bad = {}
  BY DEF HealthyCluster
<1>1. checkPublicIngressHostConfig(c) # "fail"
  BY <1>0 DEF checkPublicIngressHostConfig, Strict, Wrong
<1>2. checkPublicIngressDNS(c) # "fail"
  BY <1>0 DEF checkPublicIngressDNS, Strict, Wrong
<1>3. checkCertManagerCompatibility(c, "none") # "fail"
  BY <1>0 DEF checkCertManagerCompatibility, Strict, Wrong
<1>4. checkCertManagerReadiness(c, "none") # "fail"
  BY <1>0 DEF checkCertManagerReadiness, Strict, Wrong
<1>5. checkDoctorTLSClusterIssuer(c, "none") # "fail"
  BY <1>0 DEF checkDoctorTLSClusterIssuer, Strict, Wrong
<1>6. checkDoctorACMEHTTP01Exposure(c, "none", d) # "fail"
  BY <1>0, RegistryWell DEF Wrong, checkDoctorACMEHTTP01Exposure
<1>7. CheckWorkloadIdentity(c, "none") # "fail"
  BY <1>0 DEF CheckWorkloadIdentity, Strict, Wrong
<1> QED BY <1>1, <1>2, <1>3, <1>4, <1>5, <1>6, <1>7

\* ... and one of what setup presupposes.
LEMMA SetupIll ==
    ASSUME NEW c, NEW f, c.bad = {f}, FaultApplies(c, f), NEW d
    PROVE  /\ f = "hosts incomplete" => checkPublicIngressHostConfig(c) = "fail"
           /\ f = "host unresolved" => checkPublicIngressDNS(c) = "fail"
           /\ f = "cert-manager too old" => checkCertManagerCompatibility(c, "none") = "fail"
           /\ f = "cert-manager down" => checkCertManagerReadiness(c, "none") = "fail"
           /\ f = "issuer missing" => checkDoctorTLSClusterIssuer(c, "none") = "fail"
           /\ f = "web port not 80" => checkDoctorACMEHTTP01Exposure(c, "none", d) = "fail"
           /\ f = "issuers differ" => CheckWorkloadIdentity(c, "none") = "fail"
           /\ f = "workload issuer not ready" => CheckWorkloadIdentity(c, "none") = "fail"
           /\ f = "workload authority missing" => CheckWorkloadIdentity(c, "none") = "fail"
           /\ f = "workload authority expiring" => CheckWorkloadIdentity(c, "none") = "fail"
           /\ f = "route does not verify" => CheckWorkloadIdentity(c, "none") = "fail"
           /\ f = "route trusts another authority" => CheckWorkloadIdentity(c, "none") = "fail"
<1>1. f = "hosts incomplete" => checkPublicIngressHostConfig(c) = "fail"
  BY DEF checkPublicIngressHostConfig, Strict, Wrong, FaultApplies
<1>2. f = "host unresolved" => checkPublicIngressDNS(c) = "fail"
  BY DEF checkPublicIngressDNS, Strict, Wrong, FaultApplies
<1>3. f = "cert-manager too old" => checkCertManagerCompatibility(c, "none") = "fail"
  BY DEF checkCertManagerCompatibility, Strict, Wrong, FaultApplies
<1>4. f = "cert-manager down" => checkCertManagerReadiness(c, "none") = "fail"
  BY DEF checkCertManagerReadiness, Strict, Wrong, FaultApplies
<1>5. f = "issuer missing" => checkDoctorTLSClusterIssuer(c, "none") = "fail"
  BY DEF checkDoctorTLSClusterIssuer, Strict, Wrong, FaultApplies
<1>6. f = "web port not 80" => checkDoctorACMEHTTP01Exposure(c, "none", d) = "fail"
  BY DEF checkDoctorACMEHTTP01Exposure, Wrong, FaultApplies
<1>7. f = "issuers differ" => CheckWorkloadIdentity(c, "none") = "fail"
  BY DEF CheckWorkloadIdentity, Strict, Wrong, FaultApplies, WorkloadFaults
<1>8. f = "workload issuer not ready" => CheckWorkloadIdentity(c, "none") = "fail"
  BY DEF CheckWorkloadIdentity, Strict, Wrong, FaultApplies, WorkloadFaults
<1>9. f = "workload authority missing" => CheckWorkloadIdentity(c, "none") = "fail"
  BY DEF CheckWorkloadIdentity, Strict, Wrong, FaultApplies, WorkloadFaults
<1>10. f = "workload authority expiring" => CheckWorkloadIdentity(c, "none") = "fail"
  BY DEF CheckWorkloadIdentity, Strict, Wrong, FaultApplies, WorkloadFaults
<1>11. f = "route does not verify" => CheckWorkloadIdentity(c, "none") = "fail"
  BY DEF CheckWorkloadIdentity, Strict, Wrong, FaultApplies, WorkloadFaults
<1>12. f = "route trusts another authority" => CheckWorkloadIdentity(c, "none") = "fail"
  BY DEF CheckWorkloadIdentity, Strict, Wrong, FaultApplies, WorkloadFaults
<1> QED BY <1>1, <1>2, <1>3, <1>4, <1>5, <1>6, <1>7, <1>8, <1>9, <1>10, <1>11, <1>12

-----------------------------------------------------------------------------
\* A check passes when what it reads is in order and its helper pods, if it gets to them, run and get the
\* answer it wants.
NoPodRuns(c) == Wrong(c, {"helper image unpullable", "no room"})
Passes(k, c) == k.before # "fail" /\ (k.before = "ok" /\ k.pods > 0 => k.answer /\ ~NoPodRuns(c))

\* When the two kinds of checks pass, and when they pass without having met anything at all.
LEMMA ReadPasses ==
    /\ \A v, c : Passes(Read(v), c) => v # "fail"
    /\ \A v, ns, a, c : v = "fail" => ~Passes(Probe(v, 1, ns, a), c) /\ ~Passes(Probe(v, 2, ns, a), c)
    /\ \A ns, a, c : a = FALSE => ~Passes(Probe("ok", 1, ns, a), c) /\ ~Passes(Probe("ok", 2, ns, a), c)
    /\ \A ns, a, c : NoPodRuns(c) => ~Passes(Probe("ok", 1, ns, a), c)
    /\ \A v : v # "fail" => Clean(Read(v))
    /\ \A v, n, ns, a : v # "fail" /\ a = TRUE => Clean(Probe(v, n, ns, a))
<1>1. /\ \A v, c : Passes(Read(v), c) => v # "fail"
      /\ \A v : v # "fail" => Clean(Read(v))
  BY DEF Passes, Clean, Read
<1>2. \A v, n, ns, a : v # "fail" /\ a = TRUE => Clean(Probe(v, n, ns, a))
  BY DEF Clean, Probe
<1>3. \A v, ns, a, c : v = "fail" => ~Passes(Probe(v, 1, ns, a), c) /\ ~Passes(Probe(v, 2, ns, a), c)
  BY DEF Passes, Probe
<1>4. \A ns, a, c : a = FALSE => ~Passes(Probe("ok", 1, ns, a), c) /\ ~Passes(Probe("ok", 2, ns, a), c)
  BY DEF Passes, Probe
<1>5. \A ns, a, c : NoPodRuns(c) => ~Passes(Probe("ok", 1, ns, a), c)
  BY DEF Passes, Probe
<1> QED BY <1>1, <1>2, <1>3, <1>4, <1>5

\* Nothing wrong: every helper pod gets the answer its check wants.
LEMMA ProbesWell ==
    ASSUME NEW c, HealthyCluster(c), NEW d, d = c.distro
    PROVE  /\ checkMCPServersDNSAndNetwork(c) = TRUE /\ checkRegistryReachableFromCluster(c) = TRUE
           /\ checkMCPServersImagePullSmoke(c) = TRUE /\ checkPlatformAPIAuthProbe(c) = TRUE
           /\ runPlatformAuthenticatedProbe(c) = TRUE /\ checkRuntimeAPIImageDisplayRefs(c) = TRUE
           /\ Gated(c, "none", "platform", {"api key missing"}) # "fail"
           /\ Clean(RouteProbe(c, "none", d))
           /\ \A p, x, y : Clean(HealthProbe(c, "none", p, x, y))
<1>0. c.bad = {} /\ ("native registry" \in c.has => "registry policy" \in c.has)
  BY DEF HealthyCluster
<1>1. /\ checkRegistryReachableFromCluster(c) = TRUE /\ checkMCPServersImagePullSmoke(c) = TRUE
      /\ checkPlatformAPIAuthProbe(c) = TRUE /\ runPlatformAuthenticatedProbe(c) = TRUE
      /\ checkRuntimeAPIImageDisplayRefs(c) = TRUE
  BY <1>0 DEF checkRegistryReachableFromCluster, checkMCPServersImagePullSmoke, checkPlatformAPIAuthProbe,
              runPlatformAuthenticatedProbe, checkRuntimeAPIImageDisplayRefs, Wrong
<1>2. checkMCPServersDNSAndNetwork(c) = TRUE
  BY <1>0 DEF checkMCPServersDNSAndNetwork, registryDeniedByPolicy, RegistryAnswers, Wrong
<1>3. \A p, X : Gated(c, "none", p, X) # "fail"
  BY <1>0 DEF Gated, Strict, Wrong
<1>4. Clean(RouteProbe(c, "none", d))
  <2>1. checkTraefikWebEntrypoint(c, "none", d) # "fail"
    BY RegistryWell
  <2>2. checkIngressRouteProbe(c) = TRUE /\ ~Wrong(c, {"no secure port"})
    BY <1>0 DEF checkIngressRouteProbe, Wrong
  <2> QED BY <2>1, <2>2, ReadPasses DEF RouteProbe
<1>5. \A p, x, y : Clean(HealthProbe(c, "none", p, x, y))
  <2>1. \A y : checkPlatformServiceHealthReadiness(c, y) = TRUE
    BY <1>0 DEF checkPlatformServiceHealthReadiness, Wrong
  <2> QED BY <1>3, <2>1, ReadPasses DEF HealthProbe
<1> QED BY <1>1, <1>2, <1>3, <1>4, <1>5

\* A single fault that a helper pod's answer shows, or that keeps the pod from running at all.
LEMMA ProbesIll ==
    ASSUME NEW c, NEW f, c.bad = {f}, FaultApplies(c, f), NEW d
    PROVE  /\ f = "no room" => ~Passes(Probe("ok", 1, "servers", checkMCPServersDNSAndNetwork(c)), c)
           /\ f = "helper image unpullable" => ~Passes(Probe("ok", 1, "servers", checkMCPServersDNSAndNetwork(c)), c)
           /\ f = "dns broken" => ~Passes(Probe("ok", 1, "servers", checkMCPServersDNSAndNetwork(c)), c)
           /\ f = "registry down" => ~Passes(Probe("ok", 1, "registry", checkRegistryReachableFromCluster(c)), c)
           /\ f = "smoke image unpullable" => ~Passes(Probe("ok", 1, "servers", checkMCPServersImagePullSmoke(c)), c)
           /\ f = "key rejected" =>
                  ~Passes(Probe(Gated(c, "none", "platform", {"api key missing"}), 1, "platform", checkPlatformAPIAuthProbe(c)), c)
           /\ f = "catalog failing" =>
                  ~Passes(Probe(Gated(c, "none", "platform", {"api key missing"}), 2, "platform", runPlatformAuthenticatedProbe(c)), c)
           /\ f = "internal image shown" =>
                  ~Passes(Probe(Gated(c, "none", "platform", {"api key missing"}), 1, "platform", checkRuntimeAPIImageDisplayRefs(c)), c)
           /\ f = "route not served" => ~Passes(RouteProbe(c, "none", d), c)
           /\ f = "no secure port" => ~Passes(RouteProbe(c, "none", d), c)
           /\ f = "platform-api unhealthy" =>
                  ~Passes(HealthProbe(c, "none", "platform", "platform-api down", "platform-api unhealthy"), c)
           /\ f = "analytics-api down" =>
                  ~Passes(HealthProbe(c, "none", "observability", "analytics-api down", "analytics-api unhealthy"), c)
           /\ f = "analytics-api unhealthy" =>
                  ~Passes(HealthProbe(c, "none", "observability", "analytics-api down", "analytics-api unhealthy"), c)
<1>1. ASSUME f = "no room"  PROVE ~Passes(Probe("ok", 1, "servers", checkMCPServersDNSAndNetwork(c)), c)
  <2>1. NoPodRuns(c)
    BY <1>1 DEF NoPodRuns, Wrong
  <2> QED BY <2>1, ReadPasses
<1>2. ASSUME f = "helper image unpullable"  PROVE ~Passes(Probe("ok", 1, "servers", checkMCPServersDNSAndNetwork(c)), c)
  <2>1. NoPodRuns(c)
    BY <1>2 DEF NoPodRuns, Wrong
  <2> QED BY <2>1, ReadPasses
<1>3. ASSUME f = "dns broken"  PROVE ~Passes(Probe("ok", 1, "servers", checkMCPServersDNSAndNetwork(c)), c)
  <2>1. checkMCPServersDNSAndNetwork(c) = FALSE
    BY <1>3 DEF checkMCPServersDNSAndNetwork, registryDeniedByPolicy, Wrong
  <2> QED BY <2>1, ReadPasses
<1>4. ASSUME f = "registry down"  PROVE ~Passes(Probe("ok", 1, "registry", checkRegistryReachableFromCluster(c)), c)
  <2>1. checkRegistryReachableFromCluster(c) = FALSE
    BY <1>4 DEF checkRegistryReachableFromCluster, Wrong
  <2> QED BY <2>1, ReadPasses
<1>5. ASSUME f = "smoke image unpullable"  PROVE ~Passes(Probe("ok", 1, "servers", checkMCPServersImagePullSmoke(c)), c)
  <2>1. checkMCPServersImagePullSmoke(c) = FALSE
    BY <1>5 DEF checkMCPServersImagePullSmoke, Wrong
  <2> QED BY <2>1, ReadPasses
<1>6. ASSUME f = "key rejected"
      PROVE  ~Passes(Probe(Gated(c, "none", "platform", {"api key missing"}), 1, "platform", checkPlatformAPIAuthProbe(c)), c)
  <2>1. Gated(c, "none", "platform", {"api key missing"}) = "ok" /\ checkPlatformAPIAuthProbe(c) = FALSE
    BY <1>6 DEF checkPlatformAPIAuthProbe, Gated, Strict, Wrong, FaultApplies, PlatformFaults
  <2> QED BY <2>1, ReadPasses
<1>7. ASSUME f = "catalog failing"
      PROVE  ~Passes(Probe(Gated(c, "none", "platform", {"api key missing"}), 2, "platform", runPlatformAuthenticatedProbe(c)), c)
  <2>1. Gated(c, "none", "platform", {"api key missing"}) = "ok" /\ runPlatformAuthenticatedProbe(c) = FALSE
    BY <1>7 DEF runPlatformAuthenticatedProbe, Gated, Strict, Wrong, FaultApplies, PlatformFaults
  <2> QED BY <2>1, ReadPasses
<1>8. ASSUME f = "internal image shown"
      PROVE  ~Passes(Probe(Gated(c, "none", "platform", {"api key missing"}), 1, "platform", checkRuntimeAPIImageDisplayRefs(c)), c)
  <2>1. Gated(c, "none", "platform", {"api key missing"}) = "ok" /\ checkRuntimeAPIImageDisplayRefs(c) = FALSE
    BY <1>8 DEF checkRuntimeAPIImageDisplayRefs, Gated, Strict, Wrong, FaultApplies, PlatformFaults
  <2> QED BY <2>1, ReadPasses
<1>9. ASSUME f = "route not served"  PROVE ~Passes(RouteProbe(c, "none", d), c)
  <2>1. "servers" \in c.has /\ checkIngressRouteProbe(c) = FALSE /\ ~Wrong(c, {"no secure port"})
    BY <1>9 DEF FaultApplies, checkIngressRouteProbe, Wrong
  <2>2. checkTraefikWebEntrypoint(c, "none", d) \in {"ok", "fail"}
    BY Endpoints DEF checkTraefikWebEntrypoint, WebPort
  <2> QED BY <2>1, <2>2, ReadPasses DEF RouteProbe
<1>10. ASSUME f = "no secure port"  PROVE ~Passes(RouteProbe(c, "none", d), c)
  <2>1. "servers" \in c.has /\ "tls route" \in c.has /\ Wrong(c, {"no secure port"})
    BY <1>10 DEF FaultApplies, Wrong
  <2> QED BY <2>1, ReadPasses DEF RouteProbe
<1>11. ASSUME f = "platform-api unhealthy"
      PROVE  ~Passes(HealthProbe(c, "none", "platform", "platform-api down", "platform-api unhealthy"), c)
  <2>1. Gated(c, "none", "platform", {"platform-api down"}) = "ok" /\ checkPlatformServiceHealthReadiness(c, "platform-api unhealthy") = FALSE
    BY <1>11 DEF checkPlatformServiceHealthReadiness, Gated, Strict, Wrong, FaultApplies, PlatformFaults
  <2> QED BY <2>1, ReadPasses DEF HealthProbe
<1>12. ASSUME f = "analytics-api down"
      PROVE  ~Passes(HealthProbe(c, "none", "observability", "analytics-api down", "analytics-api unhealthy"), c)
  <2>1. Gated(c, "none", "observability", {"analytics-api down"}) = "fail"
    BY <1>12 DEF Gated, Strict, Wrong, FaultApplies, ObservabilityFaults
  <2> QED BY <2>1, ReadPasses DEF HealthProbe
<1>13. ASSUME f = "analytics-api unhealthy"
      PROVE  ~Passes(HealthProbe(c, "none", "observability", "analytics-api down", "analytics-api unhealthy"), c)
  <2>1. Gated(c, "none", "observability", {"analytics-api down"}) = "ok" /\ checkPlatformServiceHealthReadiness(c, "analytics-api unhealthy") = FALSE
    BY <1>13 DEF checkPlatformServiceHealthReadiness, Gated, Strict, Wrong, FaultApplies, ObservabilityFaults
  <2> QED BY <2>1, ReadPasses DEF HealthProbe
<1> QED BY <1>1, <1>2, <1>3, <1>4, <1>5, <1>6, <1>7, <1>8, <1>9, <1>10, <1>11, <1>12, <1>13

\* List by list: clean on a healthy cluster; and a list that passes rules out the faults its checks look for.
LEMMA FirstWell ==
    ASSUME NEW s, NEW c, HealthyCluster(c), NEW d, d = c.distro, FirstChecks(s, c, "none", d, {}), NEW i \in 1..17
    PROVE  Clean(s[i])
<1>0. LeftPhases({}) = {} /\ LeftPhases(InPlatform({})) = {}
  BY DEF LeftPhases, InPlatform
<1>1. Clean(s[1])  BY ClusterWell, ReadPasses DEF FirstChecks
<1>2. Clean(s[2])  BY ClusterWell, ReadPasses DEF FirstChecks
<1>3. Clean(s[3])  BY ClusterWell, ReadPasses DEF FirstChecks
<1>4. Clean(s[4])  BY ClusterWell, ReadPasses DEF FirstChecks
<1>5. Clean(s[5])  BY ClusterWell, ReadPasses DEF FirstChecks
<1>6. Clean(s[6])  BY ClusterWell, ReadPasses DEF FirstChecks
<1>7. Clean(s[7])  BY ClusterWell, ReadPasses DEF FirstChecks
<1>8. Clean(s[8])  BY ClusterWell, ReadPasses DEF FirstChecks
<1>9. Clean(s[9])  BY ClusterWell, ReadPasses DEF FirstChecks
<1>10. Clean(s[10])  BY ClusterWell, ReadPasses DEF FirstChecks
<1>11. Clean(s[11])  BY ClusterWell, ReadPasses DEF FirstChecks
<1>12. Clean(s[12])  BY ClusterWell, ReadPasses DEF FirstChecks
<1>13. Clean(s[13])  BY RegistryWell, ReadPasses DEF FirstChecks
<1>14. Clean(s[14])  BY RegistryWell, ReadPasses DEF FirstChecks
<1>15. Clean(s[15])  BY RegistryWell, ReadPasses DEF FirstChecks
<1>16. Clean(s[16])  BY RegistryWell, ReadPasses DEF FirstChecks
<1>17. Clean(s[17])  BY RegistryWell, ReadPasses DEF FirstChecks
<1>i. \/ i = 1 \/ i = 2 \/ i = 3 \/ i = 4 \/ i = 5 \/ i = 6 \/ i = 7 \/ i = 8 \/ i = 9
      \/ i = 10 \/ i = 11 \/ i = 12 \/ i = 13 \/ i = 14 \/ i = 15 \/ i = 16 \/ i = 17
  OBVIOUS
<1> QED BY <1>i, <1>1, <1>2, <1>3, <1>4, <1>5, <1>6, <1>7, <1>8, <1>9, <1>10, <1>11, <1>12, <1>13, <1>14, <1>15, <1>16, <1>17

\* A cluster whose single fault is one of these does not pass all of the first checks ...
LEMMA FirstIll ==
    ASSUME NEW s, NEW c, NEW d, FirstChecks(s, c, "none", d, {}), \A i \in 1..17 : Passes(s[i], c),
           NEW f, c.bad = {f}, FaultApplies(c, f)
    PROVE  /\ f # "node not ready" /\ f # "no server namespace" /\ f # "no service account" /\ f # "admission denied"
           /\ f # "no CRD" /\ f # "operator down" /\ f # "webhook certificate expired" /\ f # "reconcile errors"
           /\ f # "permission missing" /\ f # "auth permission missing" /\ f # "role rule missing"
           /\ f # "no ingress class" /\ f # "traefik down" /\ f # "no web port" /\ f # "not exposed"
           /\ f # "ingress pending"
<1>0. LeftPhases({}) = {} /\ LeftPhases(InPlatform({})) = {}
  BY DEF LeftPhases, InPlatform
<1>p. Passes(s[1], c) /\ Passes(s[2], c) /\ Passes(s[3], c) /\ Passes(s[5], c) /\ Passes(s[6], c) /\
      Passes(s[7], c) /\ Passes(s[8], c) /\ Passes(s[10], c) /\ Passes(s[11], c) /\ Passes(s[12], c) /\
      Passes(s[13], c) /\ Passes(s[14], c) /\ Passes(s[15], c) /\ Passes(s[16], c) /\ Passes(s[17], c)
  OBVIOUS
<1>1. f # "node not ready"
  BY <1>p, ClusterIll, ReadPasses DEF FirstChecks
<1>2. f # "no server namespace"
  BY <1>p, ClusterIll, ReadPasses DEF FirstChecks
<1>3. f # "no service account"
  BY <1>p, ClusterIll, ReadPasses DEF FirstChecks
<1>4. f # "admission denied"
  BY <1>p, ClusterIll, ReadPasses DEF FirstChecks
<1>5. f # "no CRD"
  BY <1>p, ClusterIll, ReadPasses DEF FirstChecks
<1>6. f # "operator down"
  BY <1>p, ClusterIll, ReadPasses DEF FirstChecks
<1>7. f # "webhook certificate expired"
  BY <1>p, ClusterIll, ReadPasses DEF FirstChecks
<1>8. f # "reconcile errors"
  BY <1>p, ClusterIll, ReadPasses DEF FirstChecks
<1>9. f # "permission missing"
  BY <1>p, ClusterIll, ReadPasses DEF FirstChecks
<1>10. f # "auth permission missing"
  BY <1>p, ClusterIll, ReadPasses DEF FirstChecks
<1>11. f # "role rule missing"
  BY <1>p, ClusterIll, ReadPasses DEF FirstChecks
<1>12. f # "no ingress class"
  BY <1>p, RegistryIll, ReadPasses DEF FirstChecks
<1>13. f # "traefik down"
  BY <1>p, RegistryIll, ReadPasses DEF FirstChecks
<1>14. f # "no web port"
  BY <1>p, RegistryIll, ReadPasses DEF FirstChecks
<1>15. f # "not exposed"
  BY <1>p, RegistryIll, ReadPasses DEF FirstChecks
<1>16. f # "ingress pending"
  BY <1>p, RegistryIll, ReadPasses DEF FirstChecks
<1> QED BY <1>1, <1>2, <1>3, <1>4, <1>5, <1>6, <1>7, <1>8, <1>9, <1>10, <1>11, <1>12, <1>13, <1>14, <1>15, <1>16

\* A healthy cluster answers the next checks well ...
LEMMA SecondWell ==
    ASSUME NEW s, NEW c, HealthyCluster(c), NEW d, d = c.distro, SecondChecks(s, c, "none", d, {}), NEW i \in 18..34
    PROVE  Clean(s[i])
<1>0. LeftPhases({}) = {} /\ LeftPhases(InPlatform({})) = {}
  BY DEF LeftPhases, InPlatform
<1>18. Clean(s[18])  BY RegistryWell, ReadPasses DEF SecondChecks
<1>19. Clean(s[19])
  <2>1. s[19] = Probe("ok", 1, "servers", checkMCPServersDNSAndNetwork(c))
    BY DEF SecondChecks
  <2> QED BY <2>1, ProbesWell, ReadPasses
<1>20. Clean(s[20])
  <2>1. s[20] = RouteProbe(c, "none", d)
    BY DEF SecondChecks
  <2> QED BY <2>1, ProbesWell, ReadPasses
<1>21. Clean(s[21])  BY RegistryWell, ReadPasses DEF SecondChecks
<1>22. Clean(s[22])  BY RegistryWell, ReadPasses DEF SecondChecks
<1>23. Clean(s[23])
  <2>1. s[23] = Probe("ok", 1, "registry", checkRegistryReachableFromCluster(c))
    BY DEF SecondChecks
  <2> QED BY <2>1, ProbesWell, ReadPasses
<1>24. Clean(s[24])  BY RegistryWell, ReadPasses DEF SecondChecks
<1>25. Clean(s[25])  BY RegistryWell, ReadPasses DEF SecondChecks
<1>26. Clean(s[26])  BY RegistryWell, ReadPasses DEF SecondChecks
<1>27. Clean(s[27])  BY RegistryWell, ReadPasses DEF SecondChecks
<1>28. Clean(s[28])  BY RegistryWell, ReadPasses DEF SecondChecks
<1>29. Clean(s[29])
  <2>1. s[29] = Probe("ok", 1, "servers", checkMCPServersImagePullSmoke(c))
    BY DEF SecondChecks
  <2> QED BY <2>1, ProbesWell, ReadPasses
<1>30. Clean(s[30])  BY RegistryWell, ReadPasses DEF SecondChecks
<1>31. Clean(s[31])  BY RegistryWell, ReadPasses DEF SecondChecks
<1>32. Clean(s[32])  BY ServicesWell, ReadPasses DEF SecondChecks
<1>33. Clean(s[33])  BY ServicesWell, ReadPasses DEF SecondChecks
<1>34. Clean(s[34])
  <2>1. s[34] = HealthProbe(c, "none", "platform", "platform-api down", "platform-api unhealthy")
    BY DEF SecondChecks
  <2> QED BY <2>1, ProbesWell, ReadPasses
<1>i. \/ i = 18 \/ i = 19 \/ i = 20 \/ i = 21 \/ i = 22 \/ i = 23 \/ i = 24 \/ i = 25 \/ i = 26
      \/ i = 27 \/ i = 28 \/ i = 29 \/ i = 30 \/ i = 31 \/ i = 32 \/ i = 33 \/ i = 34
  OBVIOUS
<1> QED BY <1>i, <1>18, <1>19, <1>20, <1>21, <1>22, <1>23, <1>24, <1>25, <1>26, <1>27, <1>28, <1>29, <1>30, <1>31, <1>32, <1>33, <1>34

\* ... and an ill one does not pass them all ...
LEMMA SecondIll ==
    ASSUME NEW s, NEW c, NEW d, SecondChecks(s, c, "none", d, {}), \A i \in 18..34 : Passes(s[i], c),
           NEW f, c.bad = {f}, FaultApplies(c, f)
    PROVE  /\ f # "inventory denied" /\ f # "dns broken" /\ f # "no room" /\ f # "helper image unpullable"
           /\ f # "route not served" /\ f # "no secure port" /\ f # "no registry service"
           /\ f # "registry rule not certified" /\ f # "registry host moved" /\ f # "registry down"
           /\ f # "service address in image" /\ f # "server pull secret missing" /\ f # "team pull secret missing"
           /\ f # "team account not wired" /\ f # "default pull secret missing" /\ f # "smoke image unpullable"
           /\ f # "kafka down" /\ f # "ingest down" /\ f # "platform-api unhealthy"
<1>0. LeftPhases({}) = {} /\ LeftPhases(InPlatform({})) = {}
  BY DEF LeftPhases, InPlatform
<1>p. Passes(s[18], c) /\ Passes(s[19], c) /\ Passes(s[20], c) /\ Passes(s[21], c) /\ Passes(s[22], c) /\
      Passes(s[23], c) /\ Passes(s[24], c) /\ Passes(s[25], c) /\ Passes(s[26], c) /\ Passes(s[27], c) /\
      Passes(s[28], c) /\ Passes(s[29], c) /\ Passes(s[32], c) /\ Passes(s[33], c) /\ Passes(s[34], c)
  OBVIOUS
<1>1. f # "inventory denied"
  BY <1>p, RegistryIll, ReadPasses DEF SecondChecks
<1>2. f # "dns broken"
  <2>1. s[19] = Probe("ok", 1, "servers", checkMCPServersDNSAndNetwork(c))
    BY DEF SecondChecks
  <2> QED BY <2>1, <1>p, ProbesIll
<1>3. f # "no room"
  <2>1. s[19] = Probe("ok", 1, "servers", checkMCPServersDNSAndNetwork(c))
    BY DEF SecondChecks
  <2> QED BY <2>1, <1>p, ProbesIll
<1>4. f # "helper image unpullable"
  <2>1. s[19] = Probe("ok", 1, "servers", checkMCPServersDNSAndNetwork(c))
    BY DEF SecondChecks
  <2> QED BY <2>1, <1>p, ProbesIll
<1>5. f # "route not served"
  <2>1. s[20] = RouteProbe(c, "none", d)
    BY DEF SecondChecks
  <2> QED BY <2>1, <1>p, ProbesIll
<1>6. f # "no secure port"
  <2>1. s[20] = RouteProbe(c, "none", d)
    BY DEF SecondChecks
  <2> QED BY <2>1, <1>p, ProbesIll
<1>7. f # "no registry service"
  BY <1>p, RegistryIll, ReadPasses DEF SecondChecks
<1>8. f # "registry rule not certified"
  BY <1>p, RegistryIll, ReadPasses DEF SecondChecks
<1>9. f # "registry host moved"
  BY <1>p, RegistryIll, ReadPasses DEF SecondChecks
<1>10. f # "registry down"
  <2>1. s[23] = Probe("ok", 1, "registry", checkRegistryReachableFromCluster(c))
    BY DEF SecondChecks
  <2> QED BY <2>1, <1>p, ProbesIll
<1>11. f # "service address in image"
  BY <1>p, RegistryIll, ReadPasses DEF SecondChecks
<1>12. f # "server pull secret missing"
  BY <1>p, RegistryIll, ReadPasses DEF SecondChecks
<1>13. f # "team pull secret missing"
  BY <1>p, RegistryIll, ReadPasses DEF SecondChecks
<1>14. f # "team account not wired"
  BY <1>p, RegistryIll, ReadPasses DEF SecondChecks
<1>15. f # "default pull secret missing"
  BY <1>p, RegistryIll, ReadPasses DEF SecondChecks
<1>16. f # "smoke image unpullable"
  <2>1. s[29] = Probe("ok", 1, "servers", checkMCPServersImagePullSmoke(c))
    BY DEF SecondChecks
  <2> QED BY <2>1, <1>p, ProbesIll
<1>17. f # "kafka down"
  BY <1>p, ServicesIll, ReadPasses DEF SecondChecks
<1>18. f # "ingest down"
  BY <1>p, ServicesIll, ReadPasses DEF SecondChecks
<1>19. f # "platform-api unhealthy"
  <2>1. s[34] = HealthProbe(c, "none", "platform", "platform-api down", "platform-api unhealthy")
    BY DEF SecondChecks
  <2> QED BY <2>1, <1>p, ProbesIll
<1> QED BY <1>1, <1>2, <1>3, <1>4, <1>5, <1>6, <1>7, <1>8, <1>9, <1>10, <1>11, <1>12, <1>13, <1>14, <1>15, <1>16, <1>17, <1>18, <1>19

\* The same of those about the platform ...
LEMMA ThirdWell ==
    ASSUME NEW s, NEW c, HealthyCluster(c), NEW d, d = c.distro, ThirdChecks(s, c, "none", d, {}), NEW i \in 35..51
    PROVE  Clean(s[i])
<1>0. LeftPhases({}) = {} /\ LeftPhases(InPlatform({})) = {}
  BY DEF LeftPhases, InPlatform
<1>35. Clean(s[35])  BY ServicesWell, ReadPasses DEF ThirdChecks
<1>36. Clean(s[36])  BY <1>0, ServicesWell, ReadPasses DEF ThirdChecks
<1>37. Clean(s[37])  BY ServicesWell, ReadPasses DEF ThirdChecks
<1>38. Clean(s[38])
  <2>1. s[38] = HealthProbe(c, "none", "observability", "analytics-api down", "analytics-api unhealthy")
    BY DEF ThirdChecks
  <2> QED BY <2>1, ProbesWell, ReadPasses
<1>39. Clean(s[39])  BY ServicesWell, ReadPasses DEF ThirdChecks
<1>40. Clean(s[40])  BY ServicesWell, ReadPasses DEF ThirdChecks
<1>41. Clean(s[41])  BY ClusterWell, ReadPasses DEF ThirdChecks
<1>42. Clean(s[42])  BY ServicesWell, ReadPasses DEF ThirdChecks
<1>43. Clean(s[43])  BY ClusterWell, ReadPasses DEF ThirdChecks
<1>44. Clean(s[44])  BY ServicesWell, ReadPasses DEF ThirdChecks
<1>45. Clean(s[45])  BY ClusterWell, ReadPasses DEF ThirdChecks
<1>46. Clean(s[46])  BY ServicesWell, ReadPasses DEF ThirdChecks
<1>47. Clean(s[47])  BY ServicesWell, ReadPasses DEF ThirdChecks
<1>48. Clean(s[48])  BY ServicesWell, ReadPasses DEF ThirdChecks
<1>49. Clean(s[49])  BY ServicesWell, ReadPasses DEF ThirdChecks
<1>50. Clean(s[50])  BY ServicesWell, ReadPasses DEF ThirdChecks
<1>51. Clean(s[51])  BY ServicesWell, ReadPasses DEF ThirdChecks
<1>i. \/ i = 35 \/ i = 36 \/ i = 37 \/ i = 38 \/ i = 39 \/ i = 40 \/ i = 41 \/ i = 42 \/ i = 43
      \/ i = 44 \/ i = 45 \/ i = 46 \/ i = 47 \/ i = 48 \/ i = 49 \/ i = 50 \/ i = 51
  OBVIOUS
<1> QED BY <1>i, <1>35, <1>36, <1>37, <1>38, <1>39, <1>40, <1>41, <1>42, <1>43, <1>44, <1>45, <1>46, <1>47, <1>48, <1>49, <1>50, <1>51

\* ... for its faults ...
LEMMA ThirdIll ==
    ASSUME NEW s, NEW c, NEW d, ThirdChecks(s, c, "none", d, {}), \A i \in 35..51 : Passes(s[i], c),
           NEW f, c.bad = {f}, FaultApplies(c, f)
    PROVE  /\ f # "platform-api down" /\ f # "rollout stuck" /\ f # "stale pod" /\ f # "password drift"
           /\ f # "analytics-api down" /\ f # "analytics-api unhealthy" /\ f # "collector down"
           /\ f # "dashboards missing" /\ f # "claim pending" /\ f # "egress blocked" /\ f # "architecture mismatch"
           /\ f # "dns not allowed" /\ f # "no storage class" /\ f # "local storage on many nodes"
           /\ f # "sessions in memory" /\ f # "api key missing" /\ f # "secret newer than pods"
           /\ f # "no login provider" /\ f # "ingest cannot review" /\ f # "gateway token missing"
<1>0. LeftPhases({}) = {} /\ LeftPhases(InPlatform({})) = {}
  BY DEF LeftPhases, InPlatform
<1>p. Passes(s[35], c) /\ Passes(s[36], c) /\ Passes(s[37], c) /\ Passes(s[38], c) /\ Passes(s[39], c) /\
      Passes(s[40], c) /\ Passes(s[41], c) /\ Passes(s[42], c) /\ Passes(s[43], c) /\ Passes(s[44], c) /\
      Passes(s[45], c) /\ Passes(s[46], c) /\ Passes(s[47], c) /\ Passes(s[48], c) /\ Passes(s[49], c) /\
      Passes(s[50], c) /\ Passes(s[51], c)
  OBVIOUS
<1>1. f # "platform-api down"
  <2>1. s[35] = Read(checkPlatformWorkloadHealth(c, "none"))
    BY DEF ThirdChecks
  <2> QED BY <2>1, <1>p, ServicesIll, ReadPasses
<1>2. f # "rollout stuck"
  <2>1. s[35] = Read(checkPlatformWorkloadHealth(c, "none"))
    BY DEF ThirdChecks
  <2> QED BY <2>1, <1>p, ServicesIll, ReadPasses
<1>3. f # "stale pod"
  <2>1. s[36] = Read(checkPlatformStalePods(c, "none", {}))
    BY <1>0 DEF ThirdChecks
  <2> QED BY <2>1, <1>p, ServicesIll, ReadPasses
<1>4. f # "password drift"
  <2>1. s[37] = Read(checkPlatformPostgresCredentialDrift(c, "none"))
    BY DEF ThirdChecks
  <2> QED BY <2>1, <1>p, ServicesIll, ReadPasses
<1>5. f # "analytics-api down"
  <2>1. s[38] = HealthProbe(c, "none", "observability", "analytics-api down", "analytics-api unhealthy")
    BY DEF ThirdChecks
  <2> QED BY <2>1, <1>p, ProbesIll
<1>6. f # "analytics-api unhealthy"
  <2>1. s[38] = HealthProbe(c, "none", "observability", "analytics-api down", "analytics-api unhealthy")
    BY DEF ThirdChecks
  <2> QED BY <2>1, <1>p, ProbesIll
<1>7. f # "collector down"
  <2>1. s[39] = Read(checkPlatformTelemetryPipeline(c, "none"))
    BY DEF ThirdChecks
  <2> QED BY <2>1, <1>p, ServicesIll, ReadPasses
<1>8. f # "dashboards missing"
  <2>1. s[40] = Read(checkPlatformGrafanaProvisioning(c, "none"))
    BY DEF ThirdChecks
  <2> QED BY <2>1, <1>p, ServicesIll, ReadPasses
<1>9. f # "claim pending"
  <2>1. s[41] = Read(checkPersistentVolumeClaims(c, "none"))
    BY DEF ThirdChecks
  <2> QED BY <2>1, <1>p, ClusterIll, ReadPasses
<1>10. f # "egress blocked"
  <2>1. s[42] = Read(checkRuntimeAPIKubernetesAPIEgress(c, "none"))
    BY DEF ThirdChecks
  <2> QED BY <2>1, <1>p, ServicesIll, ReadPasses
<1>11. f # "architecture mismatch"
  <2>1. s[43] = Read(checkClusterImageArchitecture(c, "none"))
    BY DEF ThirdChecks
  <2> QED BY <2>1, <1>p, ClusterIll, ReadPasses
<1>12. f # "dns not allowed"
  <2>1. s[44] = Read(checkDNSNetworkPolicyPortability(c, "none"))
    BY DEF ThirdChecks
  <2> QED BY <2>1, <1>p, ServicesIll, ReadPasses
<1>13. f # "no storage class"
  <2>1. s[45] = Read(checkStorageClassReadiness(c, "none"))
    BY DEF ThirdChecks
  <2> QED BY <2>1, <1>p, ClusterIll, ReadPasses
<1>14. f # "local storage on many nodes"
  <2>1. s[45] = Read(checkStorageClassReadiness(c, "none"))
    BY DEF ThirdChecks
  <2> QED BY <2>1, <1>p, ClusterIll, ReadPasses
<1>15. f # "sessions in memory"
  <2>1. s[46] = Read(checkSessionLocalDeploymentScaling(c, "none"))
    BY DEF ThirdChecks
  <2> QED BY <2>1, <1>p, ServicesIll, ReadPasses
<1>16. f # "api key missing"
  <2>1. s[47] = Read(checkPlatformSecrets(c, "none"))
    BY DEF ThirdChecks
  <2> QED BY <2>1, <1>p, ServicesIll, ReadPasses
<1>17. f # "secret newer than pods"
  <2>1. s[48] = Read(checkPlatformSecretConsumerFreshness(c, "none"))
    BY DEF ThirdChecks
  <2> QED BY <2>1, <1>p, ServicesIll, ReadPasses
<1>18. f # "no login provider"
  <2>1. s[49] = Read(checkPlatformOIDCConfiguration(c, "none"))
    BY DEF ThirdChecks
  <2> QED BY <2>1, <1>p, ServicesIll, ReadPasses
<1>19. f # "ingest cannot review"
  <2>1. s[50] = Read(checkIngestServiceAccountAuth(c, "none"))
    BY DEF ThirdChecks
  <2> QED BY <2>1, <1>p, ServicesIll, ReadPasses
<1>20. f # "gateway token missing"
  <2>1. s[51] = Read(checkGatewayAnalyticsCredentials(c, "none"))
    BY DEF ThirdChecks
  <2> QED BY <2>1, <1>p, ServicesIll, ReadPasses
<1> QED BY <1>1, <1>2, <1>3, <1>4, <1>5, <1>6, <1>7, <1>8, <1>9, <1>10, <1>11, <1>12, <1>13, <1>14, <1>15, <1>16, <1>17, <1>18, <1>19, <1>20

\* ... and of the last ones ...
LEMMA FourthWell ==
    ASSUME NEW s, NEW c, HealthyCluster(c), NEW d, d = c.distro, FourthChecks(s, c, "none", d, {}), NEW i \in 52..67
    PROVE  Clean(s[i])
<1>0. LeftPhases({}) = {} /\ LeftPhases(InPlatform({})) = {}
  BY DEF LeftPhases, InPlatform
<1>52. Clean(s[52])  BY ServicesWell, ReadPasses DEF FourthChecks
<1>53. Clean(s[53])
  <2>1. s[53] = Probe(Gated(c, "none", "platform", {"api key missing"}), 1, "platform", checkPlatformAPIAuthProbe(c))
    BY DEF FourthChecks
  <2> QED BY <2>1, ProbesWell, ReadPasses
<1>54. Clean(s[54])
  <2>1. s[54] = Probe(Gated(c, "none", "platform", {"api key missing"}), 2, "platform", runPlatformAuthenticatedProbe(c))
    BY DEF FourthChecks
  <2> QED BY <2>1, ProbesWell, ReadPasses
<1>55. Clean(s[55])  BY ServicesWell, ReadPasses DEF FourthChecks
<1>56. Clean(s[56])  BY ServicesWell, ReadPasses DEF FourthChecks
<1>57. Clean(s[57])
  <2>1. s[57] = Probe(Gated(c, "none", "platform", {"api key missing"}), 1, "platform", checkRuntimeAPIImageDisplayRefs(c))
    BY DEF FourthChecks
  <2> QED BY <2>1, ProbesWell, ReadPasses
<1>58. Clean(s[58])  BY ClusterWell, ReadPasses DEF FourthChecks
<1>59. Clean(s[59])  BY ClusterWell, ReadPasses DEF FourthChecks
<1>60. Clean(s[60])  BY ClusterWell, ReadPasses DEF FourthChecks
<1>61. Clean(s[61])  BY ClusterWell, ReadPasses DEF FourthChecks
<1>62. Clean(s[62])  BY ServicesWell, ReadPasses DEF FourthChecks
<1>63. Clean(s[63])  BY ClusterWell, ReadPasses DEF FourthChecks
<1>64. Clean(s[64])  BY <1>0, ClusterWell, ReadPasses DEF FourthChecks
<1>65. Clean(s[65])
  <2>1. s[65] = Probe("ok", 0, "smoke", TRUE)
    BY DEF FourthChecks
  <2> QED BY <2>1, ProbesWell, ReadPasses
<1>66. Clean(s[66])  BY ServicesWell, ReadPasses DEF FourthChecks
<1>67. Clean(s[67])  BY ServicesWell, ReadPasses DEF FourthChecks
<1>i. \/ i = 52 \/ i = 53 \/ i = 54 \/ i = 55 \/ i = 56 \/ i = 57 \/ i = 58 \/ i = 59
      \/ i = 60 \/ i = 61 \/ i = 62 \/ i = 63 \/ i = 64 \/ i = 65 \/ i = 66 \/ i = 67
  OBVIOUS
<1> QED BY <1>i, <1>52, <1>53, <1>54, <1>55, <1>56, <1>57, <1>58, <1>59, <1>60, <1>61, <1>62, <1>63, <1>64, <1>65, <1>66, <1>67

\* ... for theirs.
LEMMA FourthIll ==
    ASSUME NEW s, NEW c, NEW d, FourthChecks(s, c, "none", d, {}), \A i \in 52..67 : Passes(s[i], c),
           NEW f, c.bad = {f}, FaultApplies(c, f)
    PROVE  /\ f # "events rejected" /\ f # "key rejected" /\ f # "catalog failing" /\ f # "auth server down"
           /\ f # "auth key missing" /\ f # "internal image shown" /\ f # "hot node" /\ f # "node pressure"
           /\ f # "no container runtime" /\ f # "architecture unknown" /\ f # "runtime class missing"
           /\ f # "server egress not ready" /\ f # "pod pending" /\ f # "pull failing" /\ f # "pull rejected"
           /\ f # "pull over http" /\ f # "platform pull secret missing" /\ f # "grafana password"
<1>0. LeftPhases({}) = {} /\ LeftPhases(InPlatform({})) = {}
  BY DEF LeftPhases, InPlatform
<1>p. Passes(s[52], c) /\ Passes(s[53], c) /\ Passes(s[54], c) /\ Passes(s[55], c) /\ Passes(s[56], c) /\
      Passes(s[57], c) /\ Passes(s[58], c) /\ Passes(s[59], c) /\ Passes(s[60], c) /\ Passes(s[61], c) /\
      Passes(s[62], c) /\ Passes(s[64], c) /\ Passes(s[66], c) /\ Passes(s[67], c)
  OBVIOUS
<1>1. f # "events rejected"
  <2>1. s[52] = Read(checkGatewayAnalyticsDelivery(c, "none"))
    BY DEF FourthChecks
  <2> QED BY <2>1, <1>p, ServicesIll, ReadPasses
<1>2. f # "key rejected"
  <2>1. s[53] = Probe(Gated(c, "none", "platform", {"api key missing"}), 1, "platform", checkPlatformAPIAuthProbe(c))
    BY DEF FourthChecks
  <2> QED BY <2>1, <1>p, ProbesIll
<1>3. f # "catalog failing"
  <2>1. s[54] = Probe(Gated(c, "none", "platform", {"api key missing"}), 2, "platform", runPlatformAuthenticatedProbe(c))
    BY DEF FourthChecks
  <2> QED BY <2>1, <1>p, ProbesIll
<1>4. f # "auth server down"
  <2>1. s[55] = Read(checkMCPAuthDeployment(c, "none"))
    BY DEF FourthChecks
  <2> QED BY <2>1, <1>p, ServicesIll, ReadPasses
<1>5. f # "auth key missing"
  <2>1. s[56] = Read(checkMCPAuthSecrets(c, "none"))
    BY DEF FourthChecks
  <2> QED BY <2>1, <1>p, ServicesIll, ReadPasses
<1>6. f # "internal image shown"
  <2>1. s[57] = Probe(Gated(c, "none", "platform", {"api key missing"}), 1, "platform", checkRuntimeAPIImageDisplayRefs(c))
    BY DEF FourthChecks
  <2> QED BY <2>1, <1>p, ProbesIll
<1>7. f # "hot node"
  <2>1. s[58] = Read(checkNodeCapacity(c, "none"))
    BY DEF FourthChecks
  <2> QED BY <2>1, <1>p, ClusterIll, ReadPasses
<1>8. f # "node pressure"
  <2>1. s[59] = Read(checkNodeRuntimeHealth(c, "none"))
    BY DEF FourthChecks
  <2> QED BY <2>1, <1>p, ClusterIll, ReadPasses
<1>9. f # "no container runtime"
  <2>1. s[59] = Read(checkNodeRuntimeHealth(c, "none"))
    BY DEF FourthChecks
  <2> QED BY <2>1, <1>p, ClusterIll, ReadPasses
<1>10. f # "architecture unknown"
  <2>1. s[60] = Read(checkNodeArchitectureCompatibility(c, "none"))
    BY DEF FourthChecks
  <2> QED BY <2>1, <1>p, ClusterIll, ReadPasses
<1>11. f # "runtime class missing"
  <2>1. s[61] = Read(checkRuntimeClassCompatibility(c, "none"))
    BY DEF FourthChecks
  <2> QED BY <2>1, <1>p, ClusterIll, ReadPasses
<1>12. f # "server egress not ready"
  <2>1. s[62] = Read(checkMCPServerTraefikEgress(c, "none"))
    BY DEF FourthChecks
  <2> QED BY <2>1, <1>p, ServicesIll, ReadPasses
<1>13. f # "pod pending"
  <2>1. s[64] = Read(checkPendingPodsByNamespace(c, "none", {}))
    BY <1>0 DEF FourthChecks
  <2>2. checkPendingPodsByNamespace(c, "none", {}) # "fail"
    BY <2>1, <1>p, ReadPasses
  <2> QED BY <2>2, ClusterIll
<1>14. f # "pull failing"
  <2>1. s[64] = Read(checkPendingPodsByNamespace(c, "none", {}))
    BY <1>0 DEF FourthChecks
  <2>2. checkPendingPodsByNamespace(c, "none", {}) # "fail"
    BY <2>1, <1>p, ReadPasses
  <2> QED BY <2>2, ClusterIll
<1>15. f # "pull rejected"
  <2>1. s[64] = Read(checkPendingPodsByNamespace(c, "none", {}))
    BY <1>0 DEF FourthChecks
  <2>2. checkPendingPodsByNamespace(c, "none", {}) # "fail"
    BY <2>1, <1>p, ReadPasses
  <2> QED BY <2>2, ClusterIll
<1>16. f # "pull over http"
  <2>1. s[64] = Read(checkPendingPodsByNamespace(c, "none", {}))
    BY <1>0 DEF FourthChecks
  <2>2. checkPendingPodsByNamespace(c, "none", {}) # "fail"
    BY <2>1, <1>p, ReadPasses
  <2> QED BY <2>2, ClusterIll
<1>17. f # "platform pull secret missing"
  <2>1. s[66] = Read(checkPlatformPullSecrets(c, "none"))
    BY DEF FourthChecks
  <2> QED BY <2>1, <1>p, ServicesIll, ReadPasses
<1>18. f # "grafana password"
  <2>1. s[67] = Read(checkPlatformGrafanaAdminCredentials(c, "none"))
    BY DEF FourthChecks
  <2> QED BY <2>1, <1>p, ServicesIll, ReadPasses
<1> QED BY <1>1, <1>2, <1>3, <1>4, <1>5, <1>6, <1>7, <1>8, <1>9, <1>10, <1>11, <1>12, <1>13, <1>14, <1>15, <1>16, <1>17, <1>18

\* The same of the checks before setup ...
LEMMA PreflightWell ==
    ASSUME NEW s, NEW c, HealthyCluster(c), NEW d, d = c.distro, PreflightChecks(s, c, "none", d, {}), NEW i \in 1..16
    PROVE  Clean(s[i])
<1>0. LeftPhases({}) = {} /\ LeftPhases(InPlatform({})) = {}
  BY DEF LeftPhases, InPlatform
<1>1. Clean(s[1])  BY ClusterWell, ReadPasses DEF PreflightChecks
<1>2. Clean(s[2])  BY ClusterWell, ReadPasses DEF PreflightChecks
<1>3. Clean(s[3])  BY ClusterWell, ReadPasses DEF PreflightChecks
<1>4. Clean(s[4])  BY ClusterWell, ReadPasses DEF PreflightChecks
<1>5. Clean(s[5])  BY ClusterWell, ReadPasses DEF PreflightChecks
<1>6. Clean(s[6])  BY ClusterWell, ReadPasses DEF PreflightChecks
<1>7. Clean(s[7])  BY RegistryWell, ReadPasses DEF PreflightChecks
<1>8. Clean(s[8])  BY RegistryWell, ReadPasses DEF PreflightChecks
<1>9. Clean(s[9])  BY RegistryWell, ReadPasses DEF PreflightChecks
<1>10. Clean(s[10])  BY RegistryWell, ReadPasses DEF PreflightChecks
<1>11. Clean(s[11])  BY SetupWell, ReadPasses DEF PreflightChecks
<1>12. Clean(s[12])  BY SetupWell, ReadPasses DEF PreflightChecks
<1>13. Clean(s[13])  BY SetupWell, ReadPasses DEF PreflightChecks
<1>14. Clean(s[14])  BY SetupWell, ReadPasses DEF PreflightChecks
<1>15. Clean(s[15])  BY SetupWell, ReadPasses DEF PreflightChecks
<1>16. Clean(s[16])  BY SetupWell, ReadPasses DEF PreflightChecks
<1>i. \/ i = 1 \/ i = 2 \/ i = 3 \/ i = 4 \/ i = 5 \/ i = 6 \/ i = 7 \/ i = 8
      \/ i = 9 \/ i = 10 \/ i = 11 \/ i = 12 \/ i = 13 \/ i = 14 \/ i = 15 \/ i = 16
  OBVIOUS
<1> QED BY <1>i, <1>1, <1>2, <1>3, <1>4, <1>5, <1>6, <1>7, <1>8, <1>9, <1>10, <1>11, <1>12, <1>13, <1>14, <1>15, <1>16

\* ... for the faults the doctor promises to find.
LEMMA PreflightIll ==
    ASSUME NEW s, NEW c, NEW d, PreflightChecks(s, c, "none", d, {}), \A i \in 1..16 : Passes(s[i], c),
           NEW f, c.bad = {f}, FaultApplies(c, f)
    PROVE  /\ f # "node not ready" /\ f # "hot node" /\ f # "node pressure" /\ f # "no container runtime"
           /\ f # "architecture unknown" /\ f # "runtime class missing" /\ f # "no storage class"
           /\ f # "local storage on many nodes" /\ f # "no ingress class" /\ f # "traefik down" /\ f # "no web port"
           /\ f # "not exposed" /\ f # "hosts incomplete" /\ f # "host unresolved" /\ f # "cert-manager too old"
           /\ f # "cert-manager down" /\ f # "issuer missing" /\ f # "web port not 80"
<1>0. LeftPhases({}) = {} /\ LeftPhases(InPlatform({})) = {}
  BY DEF LeftPhases, InPlatform
<1>p. Passes(s[1], c) /\ Passes(s[2], c) /\ Passes(s[3], c) /\ Passes(s[4], c) /\ Passes(s[5], c) /\
      Passes(s[6], c) /\ Passes(s[7], c) /\ Passes(s[8], c) /\ Passes(s[9], c) /\ Passes(s[10], c) /\
      Passes(s[11], c) /\ Passes(s[12], c) /\ Passes(s[13], c) /\ Passes(s[14], c) /\ Passes(s[15], c) /\
      Passes(s[16], c)
  OBVIOUS
<1>1. f # "node not ready"
  BY <1>p, ClusterIll, ReadPasses DEF PreflightChecks
<1>2. f # "hot node"
  BY <1>p, ClusterIll, ReadPasses DEF PreflightChecks
<1>3. f # "node pressure"
  BY <1>p, ClusterIll, ReadPasses DEF PreflightChecks
<1>4. f # "no container runtime"
  BY <1>p, ClusterIll, ReadPasses DEF PreflightChecks
<1>5. f # "architecture unknown"
  BY <1>p, ClusterIll, ReadPasses DEF PreflightChecks
<1>6. f # "runtime class missing"
  BY <1>p, ClusterIll, ReadPasses DEF PreflightChecks
<1>7. f # "no storage class"
  BY <1>p, ClusterIll, ReadPasses DEF PreflightChecks
<1>8. f # "local storage on many nodes"
  BY <1>p, ClusterIll, ReadPasses DEF PreflightChecks
<1>9. f # "no ingress class"
  BY <1>p, RegistryIll, ReadPasses DEF PreflightChecks
<1>10. f # "traefik down"
  BY <1>p, RegistryIll, ReadPasses DEF PreflightChecks
<1>11. f # "no web port"
  BY <1>p, RegistryIll, ReadPasses DEF PreflightChecks
<1>12. f # "not exposed"
  BY <1>p, RegistryIll, ReadPasses DEF PreflightChecks
<1>13. f # "hosts incomplete"
  BY <1>p, SetupIll, ReadPasses DEF PreflightChecks
<1>14. f # "host unresolved"
  BY <1>p, SetupIll, ReadPasses DEF PreflightChecks
<1>15. f # "cert-manager too old"
  BY <1>p, SetupIll, ReadPasses DEF PreflightChecks
<1>16. f # "cert-manager down"
  BY <1>p, SetupIll, ReadPasses DEF PreflightChecks
<1>17. f # "issuer missing"
  BY <1>p, SetupIll, ReadPasses DEF PreflightChecks
<1>18. f # "web port not 80"
  BY <1>p, SetupIll, ReadPasses DEF PreflightChecks
<1> QED BY <1>1, <1>2, <1>3, <1>4, <1>5, <1>6, <1>7, <1>8, <1>9, <1>10, <1>11, <1>12, <1>13, <1>14, <1>15, <1>16, <1>17, <1>18

\* The same of the checks after setup ...
LEMMA SmokeWell ==
    ASSUME NEW s, NEW c, HealthyCluster(c), NEW d, d = c.distro, SmokeChecks(s, c, "none", d, {}), NEW i \in 1..8
    PROVE  Clean(s[i])
<1>0. LeftPhases({}) = {} /\ LeftPhases(InPlatform({})) = {}
  BY DEF LeftPhases, InPlatform
<1>1. Clean(s[1])  BY ClusterWell, ReadPasses DEF SmokeChecks
<1>2. Clean(s[2])  BY ClusterWell, ReadPasses DEF SmokeChecks
<1>3. Clean(s[3])  BY <1>0, ClusterWell, ReadPasses DEF SmokeChecks
<1>4. Clean(s[4])  BY ServicesWell, ReadPasses DEF SmokeChecks
<1>5. Clean(s[5])  BY ServicesWell, ReadPasses DEF SmokeChecks
<1>6. Clean(s[6])
  <2>1. s[6] = HealthProbe(c, "none", "platform", "platform-api down", "platform-api unhealthy")
    BY DEF SmokeChecks
  <2> QED BY <2>1, ProbesWell, ReadPasses
<1>7. Clean(s[7])  BY ServicesWell, ReadPasses DEF SmokeChecks
<1>8. Clean(s[8])
  <2>1. s[8] = Probe(Gated(c, "none", "platform", {"api key missing"}), 1, "platform", checkPlatformAPIAuthProbe(c))
    BY DEF SmokeChecks
  <2> QED BY <2>1, ProbesWell, ReadPasses
<1>i. \/ i = 1 \/ i = 2 \/ i = 3 \/ i = 4
      \/ i = 5 \/ i = 6 \/ i = 7 \/ i = 8
  OBVIOUS
<1> QED BY <1>i, <1>1, <1>2, <1>3, <1>4, <1>5, <1>6, <1>7, <1>8

\* ... for the faults the smoke run promises to find.
LEMMA SmokeIll ==
    ASSUME NEW s, NEW c, NEW d, SmokeChecks(s, c, "none", d, {}), \A i \in 1..8 : Passes(s[i], c),
           NEW f, c.bad = {f}, FaultApplies(c, f)
    PROVE  /\ f # "node not ready" /\ f # "claim pending" /\ f # "pod pending" /\ f # "pull failing"
           /\ f # "pull rejected" /\ f # "pull over http" /\ f # "api key missing" /\ f # "password drift"
           /\ f # "platform-api unhealthy" /\ f # "platform-api down" /\ f # "rollout stuck" /\ f # "key rejected"
<1>0. LeftPhases({}) = {} /\ LeftPhases(InPlatform({})) = {}
  BY DEF LeftPhases, InPlatform
<1>p. Passes(s[1], c) /\ Passes(s[2], c) /\ Passes(s[3], c) /\ Passes(s[4], c) /\ Passes(s[5], c) /\
      Passes(s[6], c) /\ Passes(s[7], c) /\ Passes(s[8], c)
  OBVIOUS
<1>1. f # "node not ready"
  BY <1>p, ClusterIll, ReadPasses DEF SmokeChecks
<1>2. f # "claim pending"
  BY <1>p, ClusterIll, ReadPasses DEF SmokeChecks
<1>3. f # "pod pending"
  <2>1. s[3] = Read(checkPendingPodsByNamespace(c, "none", {}))
    BY <1>0 DEF SmokeChecks
  <2> QED BY <2>1, <1>p, ClusterIll, ReadPasses
<1>4. f # "pull failing"
  <2>1. s[3] = Read(checkPendingPodsByNamespace(c, "none", {}))
    BY <1>0 DEF SmokeChecks
  <2> QED BY <2>1, <1>p, ClusterIll, ReadPasses
<1>5. f # "pull rejected"
  <2>1. s[3] = Read(checkPendingPodsByNamespace(c, "none", {}))
    BY <1>0 DEF SmokeChecks
  <2> QED BY <2>1, <1>p, ClusterIll, ReadPasses
<1>6. f # "pull over http"
  <2>1. s[3] = Read(checkPendingPodsByNamespace(c, "none", {}))
    BY <1>0 DEF SmokeChecks
  <2> QED BY <2>1, <1>p, ClusterIll, ReadPasses
<1>7. f # "api key missing"
  BY <1>p, ServicesIll, ReadPasses DEF SmokeChecks
<1>8. f # "password drift"
  BY <1>p, ServicesIll, ReadPasses DEF SmokeChecks
<1>9. f # "platform-api unhealthy"
  <2>1. s[6] = HealthProbe(c, "none", "platform", "platform-api down", "platform-api unhealthy")
    BY DEF SmokeChecks
  <2> QED BY <2>1, <1>p, ProbesIll
<1>10. f # "platform-api down"
  BY <1>p, ServicesIll, ReadPasses DEF SmokeChecks
<1>11. f # "rollout stuck"
  BY <1>p, ServicesIll, ReadPasses DEF SmokeChecks
<1>12. f # "key rejected"
  <2>1. s[8] = Probe(Gated(c, "none", "platform", {"api key missing"}), 1, "platform", checkPlatformAPIAuthProbe(c))
    BY DEF SmokeChecks
  <2> QED BY <2>1, <1>p, ProbesIll
<1> QED BY <1>1, <1>2, <1>3, <1>4, <1>5, <1>6, <1>7, <1>8, <1>9, <1>10, <1>11, <1>12

\* Suite by suite.
LEMMA SuiteWell ==
    ASSUME NEW suite \in Suites, NEW c, HealthyCluster(c), NEW i \in 1..SuiteLength(suite)
    PROVE  Clean(Checks(suite, c, "none", c.distro, {})[i])
<1>1. CASE suite = "diagnostics"
  <2> DEFINE s == doctorCheckSpecs(c, "none", c.distro, {})
  <2>1. Checks(suite, c, "none", c.distro, {}) = s /\ i \in 1..67
    BY <1>1 DEF Checks, SuiteLength
  <2>2. /\ FirstChecks(s, c, "none", c.distro, {}) /\ SecondChecks(s, c, "none", c.distro, {})
        /\ ThirdChecks(s, c, "none", c.distro, {}) /\ FourthChecks(s, c, "none", c.distro, {})
    BY ChecksListed
  <2> HIDE DEF s
  <2>3. i \in 1..17 \/ i \in 18..34 \/ i \in 35..51 \/ i \in 52..67
    BY <2>1
  <2>4. CASE i \in 1..17
    BY <2>1, <2>2, <2>4, FirstWell
  <2>5. CASE i \in 18..34
    BY <2>1, <2>2, <2>5, SecondWell
  <2>6. CASE i \in 35..51
    BY <2>1, <2>2, <2>6, ThirdWell
  <2>7. CASE i \in 52..67
    BY <2>1, <2>2, <2>7, FourthWell
  <2> QED BY <2>3, <2>4, <2>5, <2>6, <2>7
<1>2. CASE suite = "doctor"
  <2>1. Checks(suite, c, "none", c.distro, {}) = doctorSetupCheckSpecs(c, "none", c.distro) /\ i \in 1..16
    BY <1>2 DEF Checks, SuiteLength
  <2>2. PreflightChecks(doctorSetupCheckSpecs(c, "none", c.distro), c, "none", c.distro, {})
    BY ChecksListed
  <2> QED BY <2>1, <2>2, PreflightWell
<1>3. CASE suite = "smoke"
  <2>1. Checks(suite, c, "none", c.distro, {}) = doctorPostSetupCheckSpecs(c, "none", {}) /\ i \in 1..8
    BY <1>3 DEF Checks, SuiteLength
  <2>2. SmokeChecks(doctorPostSetupCheckSpecs(c, "none", {}), c, "none", c.distro, {})
    BY ChecksListed
  <2> QED BY <2>1, <2>2, SmokeWell
<1>4. CASE suite = "identity"
  <2>1. i = 1
    BY <1>4 DEF SuiteLength
  <2>2. Checks(suite, c, "none", c.distro, {})[1] = Read(CheckWorkloadIdentity(c, "none"))
    BY <1>4 DEF Checks
  <2> QED BY <2>1, <2>2, SetupWell, ReadPasses
<1> QED BY <1>1, <1>2, <1>3, <1>4 DEF Suites

PromiseOf(suite) == CASE suite = "smoke" -> SmokePromise [] suite = "doctor" -> DoctorPromise
                      [] suite = "identity" -> IdentityPromise [] OTHER -> DiagnosticsPromise
\* No suite can pass on a cluster with a fault it promises to look for.
LEMMA SuiteIll ==
    ASSUME NEW suite \in Suites, NEW c, NEW d, NEW f, c.bad = {f}, FaultApplies(c, f),
           \A i \in 1..SuiteLength(suite) : Passes(Checks(suite, c, "none", d, {})[i], c)
    PROVE  f \notin PromiseOf(suite)
<1>1. CASE suite = "diagnostics"
  <2> DEFINE s == doctorCheckSpecs(c, "none", d, {})
  <2>1. /\ FirstChecks(s, c, "none", d, {}) /\ SecondChecks(s, c, "none", d, {})
        /\ ThirdChecks(s, c, "none", d, {}) /\ FourthChecks(s, c, "none", d, {})
    BY ChecksListed
  <2>2. \A i \in 1..67 : Passes(s[i], c)
    BY <1>1 DEF Checks, SuiteLength
  <2> HIDE DEF s
  <2>3. /\ \A i \in 1..17 : Passes(s[i], c)
        /\ \A i \in 18..34 : Passes(s[i], c)
        /\ \A i \in 35..51 : Passes(s[i], c)
        /\ \A i \in 52..67 : Passes(s[i], c)
    BY <2>2
  <2>4. /\ f # "node not ready" /\ f # "no server namespace" /\ f # "no service account" /\ f # "admission denied"
        /\ f # "no CRD" /\ f # "operator down" /\ f # "webhook certificate expired" /\ f # "reconcile errors"
        /\ f # "permission missing" /\ f # "auth permission missing" /\ f # "role rule missing"
        /\ f # "no ingress class" /\ f # "traefik down" /\ f # "no web port" /\ f # "not exposed"
        /\ f # "ingress pending"
    BY <2>1, <2>3, FirstIll
  <2>5. /\ f # "inventory denied" /\ f # "dns broken" /\ f # "no room" /\ f # "helper image unpullable"
        /\ f # "route not served" /\ f # "no secure port" /\ f # "no registry service"
        /\ f # "registry rule not certified" /\ f # "registry host moved" /\ f # "registry down"
        /\ f # "service address in image" /\ f # "server pull secret missing" /\ f # "team pull secret missing"
        /\ f # "team account not wired" /\ f # "default pull secret missing" /\ f # "smoke image unpullable"
        /\ f # "kafka down" /\ f # "ingest down" /\ f # "platform-api unhealthy"
    BY <2>1, <2>3, SecondIll
  <2>6. /\ f # "platform-api down" /\ f # "rollout stuck" /\ f # "stale pod" /\ f # "password drift"
        /\ f # "analytics-api down" /\ f # "analytics-api unhealthy" /\ f # "collector down" /\ f # "dashboards missing"
        /\ f # "claim pending" /\ f # "egress blocked" /\ f # "architecture mismatch" /\ f # "dns not allowed"
        /\ f # "no storage class" /\ f # "local storage on many nodes" /\ f # "sessions in memory"
        /\ f # "api key missing" /\ f # "secret newer than pods" /\ f # "no login provider"
        /\ f # "ingest cannot review" /\ f # "gateway token missing"
    BY <2>1, <2>3, ThirdIll
  <2>7. /\ f # "events rejected" /\ f # "key rejected" /\ f # "catalog failing" /\ f # "auth server down"
        /\ f # "auth key missing" /\ f # "internal image shown" /\ f # "hot node" /\ f # "node pressure"
        /\ f # "no container runtime" /\ f # "architecture unknown" /\ f # "runtime class missing"
        /\ f # "server egress not ready" /\ f # "pod pending" /\ f # "pull failing" /\ f # "pull rejected"
        /\ f # "pull over http" /\ f # "platform pull secret missing" /\ f # "grafana password"
    BY <2>1, <2>3, FourthIll
  <2>8. f \notin {"grafana down"} \cup PreflightFaults \cup IdentityPromise => f \notin PlatformFaults
    BY <2>5, <2>6, <2>7, <2>4 DEF PlatformFaults
  <2>9. f # "grafana down" => f \notin ObservabilityFaults
    BY <2>5, <2>6, <2>7 DEF ObservabilityFaults
  <2>10. ASSUME f \in DiagnosticsPromise  PROVE FALSE
    <3>1. f \in AllFaults /\ f \notin PreflightFaults /\ f \notin WorkloadFaults /\ f \notin {"issuers differ", "grafana down"}
      BY <2>10, DoctorAssumption DEF DiagnosticsPromise, IdentityPromise
    <3>2. f \notin PlatformFaults /\ f \notin ObservabilityFaults
      BY <3>1, <2>8, <2>9 DEF IdentityPromise
    <3> QED BY <3>1, <3>2, <2>4, <2>5, <2>6, <2>7 DEF AllFaults
  <2> QED BY <1>1, <2>10 DEF PromiseOf
<1>2. CASE suite = "doctor"
  <2>1. PreflightChecks(doctorSetupCheckSpecs(c, "none", d), c, "none", d, {})
    BY ChecksListed
  <2>2. \A i \in 1..16 : Passes(doctorSetupCheckSpecs(c, "none", d)[i], c)
    BY <1>2 DEF Checks, SuiteLength
  <2>3. /\ f # "node not ready" /\ f # "hot node" /\ f # "node pressure" /\ f # "no container runtime"
        /\ f # "architecture unknown" /\ f # "runtime class missing" /\ f # "no storage class"
        /\ f # "local storage on many nodes" /\ f # "no ingress class" /\ f # "traefik down" /\ f # "no web port"
        /\ f # "not exposed" /\ f # "hosts incomplete" /\ f # "host unresolved" /\ f # "cert-manager too old"
        /\ f # "cert-manager down" /\ f # "issuer missing" /\ f # "web port not 80"
    BY <2>1, <2>2, PreflightIll
  <2> QED BY <1>2, <2>3 DEF PromiseOf, DoctorPromise, PreflightFaults
<1>3. CASE suite = "smoke"
  <2>1. SmokeChecks(doctorPostSetupCheckSpecs(c, "none", {}), c, "none", d, {})
    BY ChecksListed
  <2>2. \A i \in 1..8 : Passes(doctorPostSetupCheckSpecs(c, "none", {})[i], c)
    BY <1>3 DEF Checks, SuiteLength
  <2>3. /\ f # "node not ready" /\ f # "claim pending" /\ f # "pod pending" /\ f # "pull failing" /\ f # "pull rejected"
        /\ f # "pull over http" /\ f # "api key missing" /\ f # "password drift" /\ f # "platform-api unhealthy"
        /\ f # "platform-api down" /\ f # "rollout stuck" /\ f # "key rejected"
    BY <2>1, <2>2, SmokeIll
  <2> QED BY <1>3, <2>3 DEF PromiseOf, SmokePromise
<1>4. CASE suite = "identity"
  <2>1. CheckWorkloadIdentity(c, "none") # "fail"
    BY <1>4, ReadPasses DEF Checks, SuiteLength
  <2>2. f # "issuers differ" /\ f \notin WorkloadFaults
    BY <2>1, SetupIll DEF WorkloadFaults
  <2> QED BY <1>4, <2>2 DEF PromiseOf, IdentityPromise
<1> QED BY <1>1, <1>2, <1>3, <1>4 DEF Suites

-----------------------------------------------------------------------------
\* The invariant of a run.
PodStages == {"create", "wait", "logs", "delete"}
SmokeStages == {"apply", "deployment", "running", "service", "route", "delete server", "delete deployment", "delete service", "delete route",
               "delete traefik route"}
Sited(c) ==
    /\ DOMAIN c = {"has", "bad", "distro", "traefik", "exposure"}
    /\ c.traefik = "managed" \/ (c.traefik = "bundled" /\ c.distro = "k3s")
    /\ c.exposure \in {"address", "nodePort"} \/ (c.exposure = "pending" /\ ingressDistroAllowsPortForwardExposure(c.distro))
    /\ "native registry" \in c.has => "registry policy" \in c.has
Listed == Checks(docSuite, docCluster, "none", docDistro, docLeft)
DocTyped ==
    /\ Sited(docCluster) /\ docCluster.bad \subseteq Faults \cup LateFaults /\ docSuite \in Suites
    /\ docAt \in 1..SuiteLength(docSuite) /\ docStage \in Stages /\ docRound \in 0..1 /\ docVerdict \in {"ok", "fail"}
    /\ docOK \in BOOLEAN /\ docPod \in {"none", "pending", "finished"} /\ docUndeleted \in BOOLEAN
    /\ docLeft \subseteq PodNamespaces \X {"pending", "finished"}
    /\ docSmoke \subseteq SmokeObjects /\ docPass \subseteq SmokeObjects \ {"server"} /\ docTrouble \in 0..MaxTrouble
    /\ docLasting \subseteq docCluster.bad /\ Cardinality(docLasting) \in 0..docTrouble
    /\ docLasting = {} \/ \E f : docLasting = {f}
DocPlaced ==
    /\ docPod # "none" => docStage \in {"wait", "logs", "delete"}
    /\ docStage \in PodStages => PodsAt(docSuite, docAt) > docRound
    /\ docStage \in SmokeStages => WhereAt(docSuite, docAt) = "smoke"
    /\ docStage = "logs" => docPod = "finished"
    /\ docStage = "detect" => docAt = 1
    /\ docStage \in {"detect", "check"} => docRound = 0
DocRemoved ==
    ~docUndeleted => /\ docLeft = {}
                     /\ "server" \in docSmoke => docStage \in {"deployment", "running", "service", "route", "delete server"}
\* Nothing has happened but what was wrong from the start: every check so far has seen the same cluster, and passed
\* if the report says so.
DocAsSeen ==
    /\ docCluster.bad = docLasting /\ ~docUndeleted /\ \A f \in docLasting : FaultApplies(docCluster, f)
    /\ docStage # "detect" => docDistro = docCluster.distro
    /\ docStage \in PodStages \cup SmokeStages => Listed[docAt].before = "ok"
    /\ docPod = "finished" => ~NoPodRuns(docCluster)
    /\ docStage = "delete" /\ docVerdict = "ok" => Passes(Listed[docAt], docCluster)
    /\ docOK => \A i \in 1..(docAt - 1) : Passes(Listed[i], docCluster)
    /\ docOK /\ docStage = "done" => Passes(Listed[docAt], docCluster) /\ docAt = SuiteLength(docSuite)
DocQuiet == docTrouble = Cardinality(docLasting) => DocAsSeen
DocCalm == docTrouble = 0 => docOK /\ docVerdict = "ok"
DoctorInv == DocTyped /\ DocPlaced /\ DocRemoved /\ DocQuiet /\ DocCalm

\* The check under way, by its place in the suite alone.
LEMMA DocThis ==
    ASSUME DocTyped
    PROVE  /\ Len(Specs("none")) = SuiteLength(docSuite) /\ ThisSpec = Listed[docAt]
           /\ ThisSpec.pods = PodsAt(docSuite, docAt) /\ ThisSpec.ns = WhereAt(docSuite, docAt)
           /\ \A e : Specs(e)[docAt].pods = PodsAt(docSuite, docAt) /\ Specs(e)[docAt].ns = WhereAt(docSuite, docAt)
           /\ SuiteLength(docSuite) \in Nat \ {0} /\ docAt \in Nat \ {0}
           /\ PodsAt(docSuite, docAt) \in 0..2
           /\ PodsAt(docSuite, docAt) > 0 => WhereAt(docSuite, docAt) \in PodNamespaces
           /\ Specs("none") = Listed
<1>1. \A e : Specs(e) = Checks(docSuite, docCluster, e, docDistro, docLeft)
  BY DEF Specs, Checks
<1>2. docSuite \in Suites /\ docAt \in 1..SuiteLength(docSuite)
  BY DEF DocTyped
<1>3. SuiteLength(docSuite) \in Nat \ {0} /\ docAt \in Nat \ {0}
  BY <1>2, SuiteLengths
<1>4. Len(Specs("none")) = SuiteLength(docSuite)
  BY <1>1, <1>2, SuiteLengths
<1>5. \A e : Specs(e)[docAt].pods = PodsAt(docSuite, docAt) /\ Specs(e)[docAt].ns = WhereAt(docSuite, docAt)
  BY <1>1, <1>2, SuiteShape DEF Has
<1>6. Specs("none") = Listed /\ ThisSpec = Listed[docAt]
  BY <1>1 DEF Listed, ThisSpec
<1> QED BY <1>2, <1>3, <1>4, <1>5, <1>6, PodsSound DEF ThisSpec

\* A call that fails, or a change in between, is counted as trouble.
LEMMA FailingCounts ==
    ASSUME NEW e, Failing(e), docTrouble \in 0..MaxTrouble, MaxTrouble \in Nat
    PROVE  /\ docTrouble' \in 0..MaxTrouble /\ docTrouble' \in {docTrouble, docTrouble + 1}
           /\ docTrouble' = docTrouble => e = "none"
           /\ docTrouble' = 0 => docTrouble = 0 /\ e = "none"
  BY DEF Failing, Trouble

\* Recording a verdict goes on to the next check, or ends the run.
LEMMA Records ==
    ASSUME DocTyped, NEW v, NEW stop \in BOOLEAN, Record(v, stop)
    PROVE  /\ docRound' = 0 /\ docVerdict' = "ok" /\ docOK' = (docOK /\ v # "fail")
           /\ \/ docStage' = "done" /\ docAt' = docAt /\ (~stop => docAt = SuiteLength(docSuite))
              \/ docStage' = "check" /\ docAt' = docAt + 1 /\ docAt # SuiteLength(docSuite)
           /\ docAt' \in 1..SuiteLength(docSuite)
<1>1. /\ Len(Specs("none")) = SuiteLength(docSuite) /\ SuiteLength(docSuite) \in Nat \ {0}
      /\ docAt \in 1..SuiteLength(docSuite)
  BY DocThis DEF DocTyped
<1>2. docRound' = 0 /\ docVerdict' = "ok" /\ docOK' = (docOK /\ v # "fail")
  BY DEF Record
<1>3. CASE stop \/ docAt = Len(Specs("none"))
  BY <1>1, <1>3 DEF Record
<1>4. CASE ~(stop \/ docAt = Len(Specs("none")))
  BY <1>1, <1>4 DEF Record
<1> QED BY <1>2, <1>3, <1>4
\* What an action that leaves the cluster and the smoke server alone must keep of the typing.
DocFixed ==
    /\ docCluster' = docCluster /\ docSuite' = docSuite /\ docLasting' = docLasting
    /\ docSmoke' = docSmoke /\ docPass' = docPass

\* The types, after a step that leaves the smoke server alone ...
LEMMA DocRetyped ==
    ASSUME DocTyped, DocFixed, docAt' \in 1..SuiteLength(docSuite), docStage' \in Stages, docRound' \in 0..1, docVerdict' \in {"ok", "fail"},
           docOK' \in BOOLEAN, docPod' \in {"none", "pending", "finished"}, docUndeleted' \in BOOLEAN,
           docLeft' \subseteq PodNamespaces \X {"pending", "finished"}, docTrouble' \in 0..MaxTrouble, docTrouble' >= docTrouble
    PROVE  DocTyped'
<1>1. /\ Cardinality(docLasting') \in 0..docTrouble'
      /\ docLasting' \subseteq docCluster'.bad /\ (docLasting' = {} \/ \E f : docLasting' = {f})
  BY DEF DocTyped, DocFixed
<1> QED BY <1>1 DEF DocTyped, DocFixed

\* ... and after one that concerns nothing else.
LEMMA DocResmoked ==
    ASSUME DocTyped, UNCHANGED <<docCluster, docSuite, docLasting>>, docSmoke' \subseteq SmokeObjects,
           docPass' \subseteq SmokeObjects \ {"server"}, docAt' \in 1..SuiteLength(docSuite), docStage' \in Stages, docRound' \in 0..1,
           docVerdict' \in {"ok", "fail"}, docOK' \in BOOLEAN, docPod' = docPod, docUndeleted' \in BOOLEAN, docLeft' = docLeft,
           docTrouble' \in 0..MaxTrouble, docTrouble' >= docTrouble
    PROVE  DocTyped'
<1>1. /\ Cardinality(docLasting') \in 0..docTrouble'
      /\ docLasting' \subseteq docCluster'.bad /\ (docLasting' = {} \/ \E f : docLasting' = {f})
  BY DEF DocTyped
<1> QED BY <1>1 DEF DocTyped

\* The order in which the smoke server and what came of it are deleted.
LEMMA CleanupSteps ==
    /\ DOMAIN CleanupOrder = 1..5 /\ Len(CleanupOrder) = 5
    /\ CleanupOrder[1] = "delete server" /\ CleanupOrder[2] = "delete deployment"
    /\ CleanupOrder[3] = "delete service" /\ CleanupOrder[4] = "delete route"
    /\ CleanupOrder[5] = "delete traefik route"
  BY DEF CleanupOrder

\* Each step keeps the types, the places of the stages, and that only a failed deletion leaves something behind.
LEMMA DocSafeStep ==
    ASSUME DocTyped, DocPlaced, DocRemoved, DoctorNext
    PROVE  DocTyped' /\ DocPlaced' /\ DocRemoved'
<1>m. MaxTrouble \in Nat /\ docTrouble \in 0..MaxTrouble
  BY DoctorAssumption DEF DocTyped
<1>t. /\ SuiteLength(docSuite) \in Nat \ {0} /\ docAt \in 1..SuiteLength(docSuite) /\ PodsAt(docSuite, docAt) \in 0..2
      /\ ThisSpec.pods = PodsAt(docSuite, docAt) /\ ThisSpec.ns = WhereAt(docSuite, docAt)
      /\ PodsAt(docSuite, docAt) > 0 => WhereAt(docSuite, docAt) \in PodNamespaces
      /\ \A e : Specs(e)[docAt].pods = PodsAt(docSuite, docAt) /\ Specs(e)[docAt].ns = WhereAt(docSuite, docAt)
  BY DocThis DEF DocTyped
<1>1. CASE DetectDistribution
  <2>1. PICK e \in {"none", "read"} : Failing(e)
    BY <1>1 DEF DetectDistribution
  <2>2. docTrouble' \in 0..MaxTrouble /\ docTrouble' >= docTrouble
    BY <2>1, <1>m, FailingCounts
  <2>3. DocFixed /\ docStage = "detect" /\ docStage' = "check" /\ UNCHANGED <<docAt, docRound, docVerdict, docOK, docPod, docLeft, docUndeleted>>
    BY <1>1 DEF DetectDistribution, DocFixed, Steady, probeVars
  <2>4. DocTyped'
    BY <2>2, <2>3, DocRetyped DEF DocTyped, Stages
  <2>5. docAt' = 1 /\ docRound' = 0
    BY <2>3, <1>m DEF DocPlaced
  <2> QED BY <2>3, <2>4, <2>5 DEF DocTyped, DocPlaced, DocRemoved, DocFixed, PodStages, SmokeStages
<1>2. CASE runDoctorChecksWithSpecs
  <2>1. PICK e \in Errors : LET here == Specs(e)[docAt] IN
          /\ Failing(e)
          /\ IF here.before = "ok" /\ (here.pods > 0 \/ here.ns = "smoke")
             THEN docStage' = (IF here.ns = "smoke" THEN "apply" ELSE "create") /\ UNCHANGED <<docAt, docRound, docVerdict, docOK>>
             ELSE Record(here.before, docAt = 1 /\ e # "none" /\ docSuite # "identity")
    BY <1>2 DEF runDoctorChecksWithSpecs
  <2>2. docTrouble' \in 0..MaxTrouble /\ docTrouble' >= docTrouble
    BY <2>1, <1>m, FailingCounts
  <2>3. DocFixed /\ docStage = "check" /\ docRound = 0 /\ docPod = "none" /\ UNCHANGED <<docPod, docLeft, docUndeleted>>
    BY <1>2 DEF runDoctorChecksWithSpecs, DocFixed, Steady, probeVars, DocPlaced
  <2>4. CASE UNCHANGED <<docAt, docRound, docVerdict, docOK>> /\ docStage' = "apply" /\ WhereAt(docSuite, docAt) = "smoke"
    <3>1. DocTyped'
      BY <2>2, <2>3, <2>4, DocRetyped DEF DocTyped, Stages
    <3> QED BY <2>3, <2>4, <3>1 DEF DocTyped, DocPlaced, DocRemoved, DocFixed, PodStages, SmokeStages
  <2>5. CASE UNCHANGED <<docAt, docRound, docVerdict, docOK>> /\ docStage' = "create" /\ PodsAt(docSuite, docAt) > 0
    <3>1. DocTyped'
      BY <2>2, <2>3, <2>5, DocRetyped DEF DocTyped, Stages
    <3> QED BY <2>3, <2>5, <3>1, <1>t DEF DocTyped, DocPlaced, DocRemoved, DocFixed, PodStages, SmokeStages
  <2>6. CASE Record(Specs(e)[docAt].before, docAt = 1 /\ e # "none" /\ docSuite # "identity")
    <3>1. /\ docRound' = 0 /\ docVerdict' = "ok" /\ docOK' \in BOOLEAN /\ (docStage' = "done" \/ docStage' = "check")
          /\ docAt' \in 1..SuiteLength(docSuite)
      BY <2>6, Records DEF DocTyped
    <3>2. DocTyped'
      BY <2>2, <2>3, <3>1, DocRetyped DEF DocTyped, Stages
    <3> QED BY <2>3, <3>1, <3>2 DEF DocTyped, DocPlaced, DocRemoved, DocFixed, PodStages, SmokeStages
  <2> QED BY <2>1, <2>4, <2>5, <2>6, <1>t
<1>3. CASE CreatePod
  <2>1. \E e : Failing(e)
    BY <1>3 DEF CreatePod
  <2>2. docTrouble' \in 0..MaxTrouble /\ docTrouble' >= docTrouble
    BY <2>1, <1>m, FailingCounts
  <2>3. /\ DocFixed /\ docStage = "create" /\ UNCHANGED <<docAt, docRound, docOK, docLeft, docUndeleted>>
        /\ (docStage' = "wait" \/ docStage' = "delete") /\ (docVerdict' = docVerdict \/ docVerdict' = "fail") /\ (docPod' = docPod \/ docPod' = "none" \/ docPod' = "pending")
    BY <1>3 DEF CreatePod, DocFixed, Steady
  <2>4. DocTyped'
    BY <2>2, <2>3, DocRetyped DEF DocTyped, Stages
  <2> QED BY <2>3, <2>4 DEF DocTyped, DocPlaced, DocRemoved, DocFixed, PodStages, SmokeStages
<1>4. CASE RunPod
  <2>1. /\ DocFixed /\ docPod = "pending" /\ docPod' = "finished"
        /\ UNCHANGED <<docAt, docStage, docRound, docVerdict, docOK, docLeft, docTrouble, docUndeleted>>
    BY <1>4 DEF RunPod, DocFixed
  <2>2. DocTyped'
    BY <1>m, <2>1, DocRetyped DEF DocTyped
  <2> QED BY <2>1, <2>2 DEF DocTyped, DocPlaced, DocRemoved, DocFixed
<1>5. CASE waitForDoctorPodSucceeded
  <2>1. /\ DocFixed /\ docStage = "wait" /\ UNCHANGED <<docAt, docRound, docOK, docTrouble, docPod, docLeft, docUndeleted>>
        /\ (docStage' = "logs" /\ docPod = "finished") \/ docStage' = "delete"
        /\ (docVerdict' = docVerdict \/ docVerdict' = "fail")
    BY <1>5 DEF waitForDoctorPodSucceeded, DocFixed, Steady, probeVars
  <2>2. DocTyped'
    <3>1. docStage' \in Stages
      BY <2>1 DEF Stages
    <3>2. docVerdict' \in {"ok", "fail"}
      BY <2>1 DEF DocTyped
    <3>0. docTrouble' = docTrouble
      BY <2>1
    <3>3. docTrouble' \in 0..MaxTrouble /\ docTrouble' >= docTrouble
      BY <1>m, <3>0
    <3> QED BY <2>1, <3>1, <3>2, <3>3, DocRetyped DEF DocTyped
  <2> QED BY <2>1, <2>2 DEF DocTyped, DocPlaced, DocRemoved, DocFixed, PodStages, SmokeStages
<1>6. CASE ReadLogs
  <2>1. \E e : Failing(e)
    BY <1>6 DEF ReadLogs
  <2>2. docTrouble' \in 0..MaxTrouble /\ docTrouble' >= docTrouble
    BY <2>1, <1>m, FailingCounts
  <2>3. /\ DocFixed /\ docStage = "logs" /\ docStage' = "delete" /\ docVerdict' \in {"ok", "fail"}
        /\ UNCHANGED <<docAt, docRound, docOK, docPod, docLeft, docUndeleted>>
    BY <1>6 DEF ReadLogs, DocFixed, Steady, probeVars
  <2>4. DocTyped'
    BY <2>2, <2>3, DocRetyped DEF DocTyped, Stages
  <2> QED BY <2>3, <2>4 DEF DocTyped, DocPlaced, DocRemoved, DocFixed, PodStages, SmokeStages
<1>7. CASE DeletePod
  <2>1. \E e : Failing(e)
    BY <1>7 DEF DeletePod
  <2>2. docTrouble' \in 0..MaxTrouble /\ docTrouble' >= docTrouble
    BY <2>1, <1>m, FailingCounts
  <2>3. /\ DocFixed /\ docStage = "delete" /\ docPod' = "none"
        /\ \/ UNCHANGED <<docLeft, docUndeleted>>
           \/ docPod # "none" /\ docLeft' = docLeft \cup {<<ThisSpec.ns, docPod>>} /\ docUndeleted' = TRUE
    BY <1>7 DEF DeletePod, DocFixed, Steady
  <2>4. docLeft' \subseteq PodNamespaces \X {"pending", "finished"} /\ docUndeleted' \in BOOLEAN
    <3>1. WhereAt(docSuite, docAt) \in PodNamespaces
      BY <2>3, <1>t DEF DocTyped, DocPlaced, PodStages
    <3>2. docPod # "none" => <<ThisSpec.ns, docPod>> \in PodNamespaces \X {"pending", "finished"}
      BY <3>1, <1>t DEF DocTyped
    <3> QED BY <2>3, <3>2 DEF DocTyped
  <2>5. CASE docStage' = "create" /\ docRound' = docRound + 1 /\ docRound + 1 < ThisSpec.pods /\ UNCHANGED <<docAt, docVerdict, docOK>>
    <3>1. docRound' \in 0..1
      BY <2>5, <1>t DEF DocTyped
    <3>2. DocTyped'
      BY <2>2, <2>3, <2>4, <2>5, <3>1, DocRetyped DEF DocTyped, Stages
    <3> QED BY <2>3, <2>5, <3>2, <1>t DEF DocTyped, DocPlaced, DocRemoved, DocFixed, PodStages, SmokeStages
  <2>6. CASE Record(docVerdict, FALSE)
    <3>1. /\ docRound' = 0 /\ docVerdict' = "ok" /\ docOK' \in BOOLEAN /\ (docStage' = "done" \/ docStage' = "check")
          /\ docAt' \in 1..SuiteLength(docSuite)
      BY <2>6, Records DEF DocTyped
    <3>2. DocTyped'
      <4>1. docStage' \in Stages
        BY <3>1 DEF Stages
      <4>2. docRound' \in 0..1
        BY <3>1
      <4>3. docVerdict' \in {"ok", "fail"}
        BY <3>1
      <4> QED BY <2>2, <2>3, <2>4, <3>1, <4>1, <4>2, <4>3, DocRetyped
    <3> QED BY <2>3, <3>1, <3>2 DEF DocTyped, DocPlaced, DocRemoved, DocFixed, PodStages, SmokeStages
  <2> QED BY <1>7, <2>5, <2>6 DEF DeletePod
<1>8. CASE ApplySmoke
  <2>1. \E e : Failing(e)
    BY <1>8 DEF ApplySmoke
  <2>2. docTrouble' \in 0..MaxTrouble /\ docTrouble' >= docTrouble
    BY <2>1, <1>m, FailingCounts
  <2>3. /\ docStage = "apply" /\ UNCHANGED <<docCluster, docSuite, docLasting, docAt, docRound, docOK, docPod, docLeft, docPass, docUndeleted>>
        /\ (docStage' = "deployment" \/ docStage' = "delete server") /\ (docVerdict' = docVerdict \/ docVerdict' = "fail")
        /\ (docSmoke' = docSmoke \/ docSmoke' = {} \/ docSmoke' = {"server"})
    BY <1>8 DEF ApplySmoke, Steady
  <2>4. docSmoke' \subseteq SmokeObjects
    BY <2>3 DEF DocTyped, SmokeObjects
  <2>5. DocTyped'
    BY <2>2, <2>3, <2>4, DocResmoked DEF DocTyped, Stages
  <2> QED BY <2>3, <2>5 DEF DocTyped, DocPlaced, DocRemoved, PodStages, SmokeStages
<1>9. CASE waitForDoctorResource
  <2>1. /\ DocFixed /\ UNCHANGED <<docAt, docRound, docOK, docTrouble, docPod, docLeft, docUndeleted>>
        /\ docStage \in {"deployment", "service", "route"} /\ (docStage' = "running" \/ docStage' = "route" \/ docStage' = "delete server")
        /\ (docVerdict' = docVerdict \/ docVerdict' = "fail")
    BY <1>9 DEF waitForDoctorResource, WaitFor, DocFixed, Steady, probeVars
  <2>2. DocTyped'
    <3>1. docStage' \in Stages
      BY <2>1 DEF Stages
    <3>2. docVerdict' \in {"ok", "fail"}
      BY <2>1 DEF DocTyped
    <3>0. docTrouble' = docTrouble
      BY <2>1
    <3>3. docTrouble' \in 0..MaxTrouble /\ docTrouble' >= docTrouble
      BY <1>m, <3>0
    <3> QED BY <2>1, <3>1, <3>2, <3>3, DocRetyped DEF DocTyped
  <2> QED BY <2>1, <2>2 DEF DocTyped, DocPlaced, DocRemoved, DocFixed, PodStages, SmokeStages
<1>10. CASE waitForDoctorDeploymentReady
  <2>1. /\ DocFixed /\ UNCHANGED <<docAt, docRound, docOK, docTrouble, docPod, docLeft, docUndeleted>>
        /\ docStage = "running" /\ (docStage' = "service" \/ docStage' = "delete server") /\ (docVerdict' = docVerdict \/ docVerdict' = "fail")
    BY <1>10 DEF waitForDoctorDeploymentReady, DocFixed, Steady, probeVars
  <2>2. DocTyped'
    <3>1. docStage' \in Stages
      BY <2>1 DEF Stages
    <3>2. docVerdict' \in {"ok", "fail"}
      BY <2>1 DEF DocTyped
    <3>0. docTrouble' = docTrouble
      BY <2>1
    <3>3. docTrouble' \in 0..MaxTrouble /\ docTrouble' >= docTrouble
      BY <1>m, <3>0
    <3> QED BY <2>1, <3>1, <3>2, <3>3, DocRetyped DEF DocTyped
  <2> QED BY <2>1, <2>2 DEF DocTyped, DocPlaced, DocRemoved, DocFixed, PodStages, SmokeStages
<1>11. CASE Cleanup
  <2>1. PICK i \in 1..5 : LET object == <<"server", "deployment", "service", "route", "traefik route">>[i] IN
          /\ docStage = CleanupOrder[i]
          /\ \/ Failing("none") /\ docSmoke' = docSmoke \ {object} /\ UNCHANGED docUndeleted
             \/ object \in docSmoke /\ Failing("read") /\ docUndeleted' = TRUE /\ UNCHANGED docSmoke
          /\ IF i = Len(CleanupOrder) THEN Record(docVerdict, FALSE)
             ELSE docStage' = CleanupOrder[i + 1] /\ UNCHANGED <<docAt, docRound, docVerdict, docOK>>
          /\ Steady /\ UNCHANGED <<docDistro, docPod, docLeft, docPass>>
    BY <1>11, CleanupSteps DEF Cleanup
  <2>i. i = 1 \/ i = 2 \/ i = 3 \/ i = 4 \/ i = 5
    OBVIOUS
  <2>2. docTrouble' \in 0..MaxTrouble /\ docTrouble' >= docTrouble
    <3>1. Failing("none") \/ Failing("read")
      BY <2>1
    <3> QED BY <3>1, <1>m, FailingCounts
  <2>3. /\ UNCHANGED <<docCluster, docSuite, docLasting, docPod, docLeft, docPass>> /\ docSmoke' \subseteq SmokeObjects
        /\ docUndeleted' \in BOOLEAN /\ docStage \in SmokeStages /\ (~docUndeleted' => ~docUndeleted)
    <3>1. CleanupOrder[i] \in SmokeStages
      BY <2>i, CleanupSteps DEF SmokeStages
    <3>2. UNCHANGED <<docCluster, docSuite, docLasting, docPod, docLeft, docPass>>
      BY <2>1 DEF Steady
    <3>3. docSmoke' \subseteq SmokeObjects
      BY <2>1 DEF DocTyped
    <3>0. docUndeleted' = docUndeleted \/ docUndeleted' = TRUE
      BY <2>1
    <3>4. docUndeleted' \in BOOLEAN /\ (~docUndeleted' => ~docUndeleted)
      BY <3>0 DEF DocTyped
    <3> QED BY <2>1, <3>1, <3>2, <3>3, <3>4
  <2>4. ~docUndeleted' => "server" \notin docSmoke'
    <3>1. CASE i = 1
      BY <2>1, <3>1
    <3>2. CASE i # 1
      <4>1. docStage \notin {"deployment", "running", "service", "route", "delete server"}
        BY <2>1, <2>i, <3>2, CleanupSteps
      <4>2. ~docUndeleted => "server" \notin docSmoke
        BY <4>1 DEF DocRemoved
      <4>3. docSmoke' \subseteq docSmoke
        BY <2>1
      <4> QED BY <2>3, <4>2, <4>3
    <3> QED BY <3>1, <3>2
  <2>5. CASE i # 5
    <3>1. docStage' = CleanupOrder[i + 1] /\ UNCHANGED <<docAt, docRound, docVerdict, docOK>>
      BY <2>1, <2>5, CleanupSteps
    <3>2. docStage' = "delete deployment" \/ docStage' = "delete service" \/ docStage' = "delete route"
          \/ docStage' = "delete traefik route"
      <4>1. CASE i = 1
        <5>1. i + 1 = 2
          BY <4>1
        <5> QED BY <3>1, <5>1, CleanupSteps
      <4>2. CASE i = 2
        <5>1. i + 1 = 3
          BY <4>2
        <5> QED BY <3>1, <5>1, CleanupSteps
      <4>3. CASE i = 3
        <5>1. i + 1 = 4
          BY <4>3
        <5> QED BY <3>1, <5>1, CleanupSteps
      <4>4. CASE i = 4
        <5>1. i + 1 = 5
          BY <4>4
        <5> QED BY <3>1, <5>1, CleanupSteps
      <4> QED BY <2>i, <2>5, <4>1, <4>2, <4>3, <4>4
    <3>3. DocTyped'
      <4>1. docStage' \in Stages
        BY <3>2 DEF Stages
      <4> QED BY <2>2, <2>3, <3>1, <4>1, DocResmoked DEF DocTyped
    <3> QED BY <2>3, <2>4, <3>1, <3>2, <3>3 DEF DocTyped, DocPlaced, DocRemoved, PodStages, SmokeStages
  <2>6. CASE i = 5
    <3>1. Record(docVerdict, FALSE)
      BY <2>1, <2>6, CleanupSteps
    <3>2. /\ docRound' = 0 /\ docVerdict' = "ok" /\ docOK' \in BOOLEAN /\ (docStage' = "done" \/ docStage' = "check")
          /\ docAt' \in 1..SuiteLength(docSuite)
      BY <3>1, Records DEF DocTyped
    <3>3. DocTyped'
      <4>1. docStage' \in Stages
        BY <3>2 DEF Stages
      <4>2. docRound' \in 0..1
        BY <3>2
      <4>3. docVerdict' \in {"ok", "fail"}
        BY <3>2
      <4>4. docPod' = docPod /\ docLeft' = docLeft /\ docPass' \subseteq SmokeObjects \ {"server"}
        BY <2>3 DEF DocTyped
      <4> QED BY <2>2, <2>3, <3>2, <4>1, <4>2, <4>3, <4>4, DocResmoked
    <3> QED BY <2>3, <2>4, <3>2, <3>3 DEF DocTyped, DocPlaced, DocRemoved, PodStages, SmokeStages
  <2> QED BY <2>1, <2>5, <2>6
<1>12. CASE BeginPass \/ CreateObject \/ OperatorStops \/ CollectGarbage
  <2>1. UNCHANGED <<docCluster, docSuite, docLasting, docAt, docStage, docRound, docVerdict, docOK, docPod, docLeft, docTrouble, docUndeleted>>
    BY <1>12 DEF BeginPass, CreateObject, OperatorStops, CollectGarbage
  <2>2. docSmoke' \subseteq SmokeObjects /\ docPass' \subseteq SmokeObjects \ {"server"} /\ ("server" \in docSmoke' => "server" \in docSmoke)
    <3>1. CASE BeginPass
      BY <3>1 DEF BeginPass, DocTyped, SmokeObjects
    <3>2. CASE CreateObject
      <4> DEFINE next == CHOOSE o \in docPass : \A p \in docPass : p = "deployment" => o = p
      <4>1. docPass # {} /\ docPass' = docPass \ {next} /\ docSmoke' = docSmoke \cup {next}
        BY <3>2 DEF CreateObject
      <4>2. \E o \in docPass : \A p \in docPass : p = "deployment" => o = p
        BY <4>1
      <4>3. next \in docPass
        BY <4>2
      <4> HIDE DEF next
      <4> QED BY <4>1, <4>3 DEF DocTyped
    <3>3. CASE OperatorStops
      BY <3>3 DEF OperatorStops, DocTyped
    <3>4. CASE CollectGarbage
      BY <3>4 DEF CollectGarbage, DocTyped
    <3> QED BY <1>12, <3>1, <3>2, <3>3, <3>4
  <2>3. DocTyped'
    BY <1>m, <2>1, <2>2, DocResmoked DEF DocTyped
  <2> QED BY <2>1, <2>2, <2>3 DEF DocTyped, DocPlaced, DocRemoved
<1>13. CASE GoesWrong
  <2>1. PICK f \in LateFaults : Trouble(1) /\ docCluster' = [docCluster EXCEPT !.bad = @ \cup {f}]
    BY <1>13 DEF GoesWrong
  <2>2. UNCHANGED <<docSuite, docAt, docStage, docRound, docVerdict, docOK, docLasting, docPod, docLeft, docSmoke, docPass, docUndeleted>>
    BY <1>13 DEF GoesWrong, probeVars
  <2>3. Sited(docCluster') /\ docCluster'.bad = docCluster.bad \cup {f}
    BY <2>1 DEF DocTyped, Sited
  <2>4. docTrouble' \in 0..MaxTrouble /\ docTrouble' = docTrouble + 1
    BY <2>1, <1>m DEF Trouble
  <2>5. Cardinality(docLasting') \in 0..docTrouble' /\ (docLasting' = {} \/ \E g : docLasting' = {g})
    <3>1. docLasting' = docLasting
      BY <2>2
    <3>2. Cardinality(docLasting) \in 0..docTrouble /\ (docLasting = {} \/ \E g : docLasting = {g})
      BY DEF DocTyped
    <3> DEFINE n == Cardinality(docLasting)
    <3>3. n \in 0..docTrouble'
      <4> HIDE DEF n
      <4>1. n \in 0..docTrouble
        BY <3>2 DEF n
      <4> QED BY <4>1, <2>4, <1>m
    <3> QED BY <3>1, <3>2, <3>3
  <2>6. DocTyped'
    BY <2>1, <2>2, <2>3, <2>4, <2>5 DEF DocTyped
  <2> QED BY <2>2, <2>6 DEF DocTyped, DocPlaced, DocRemoved
<1> QED BY <1>1, <1>2, <1>3, <1>4, <1>5, <1>6, <1>7, <1>8, <1>9, <1>10, <1>11, <1>12, <1>13 DEF DoctorNext

\* Faults and failing calls only accumulate, and without one the cluster stays as it is.
LEMMA DocMonotone ==
    ASSUME DocTyped, DoctorNext
    PROVE  /\ docLasting' = docLasting /\ docTrouble' \in Nat /\ docTrouble' >= docTrouble
           /\ docTrouble' = docTrouble => /\ docCluster' = docCluster /\ docSuite' = docSuite
                                          /\ docUndeleted' = docUndeleted /\ docLeft' = docLeft
                                          /\ docStage # "detect" => docDistro' = docDistro
<1>m. MaxTrouble \in Nat /\ docTrouble \in 0..MaxTrouble
  BY DoctorAssumption DEF DocTyped
<1>1. CASE DetectDistribution \/ runDoctorChecksWithSpecs \/ CreatePod \/ ReadLogs \/ ApplySmoke
  <2>1. \E e : Failing(e)
    BY <1>1 DEF DetectDistribution, runDoctorChecksWithSpecs, CreatePod, ReadLogs, ApplySmoke
  <2>2. docTrouble' \in Nat /\ docTrouble' >= docTrouble
    BY <2>1, <1>m, FailingCounts
  <2>3. /\ UNCHANGED <<docCluster, docSuite, docLasting, docUndeleted, docLeft>>
        /\ docStage # "detect" => docDistro' = docDistro
    BY <1>1 DEF DetectDistribution, runDoctorChecksWithSpecs, CreatePod, ReadLogs, ApplySmoke, Steady, probeVars
  <2> QED BY <2>2, <2>3
<1>2. CASE RunPod \/ waitForDoctorPodSucceeded \/ waitForDoctorResource \/ waitForDoctorDeploymentReady
  <2>1. UNCHANGED <<docCluster, docSuite, docLasting, docUndeleted, docLeft, docDistro, docTrouble>>
    BY <1>2 DEF RunPod, waitForDoctorPodSucceeded, waitForDoctorResource, WaitFor, waitForDoctorDeploymentReady, Steady, probeVars
  <2> QED BY <1>m, <2>1
<1>3. CASE BeginPass \/ CreateObject \/ OperatorStops \/ CollectGarbage
  <2>1. UNCHANGED <<docCluster, docSuite, docLasting, docUndeleted, docLeft, docDistro, docTrouble>>
    BY <1>3 DEF BeginPass, CreateObject, OperatorStops, CollectGarbage
  <2> QED BY <1>m, <2>1
<1>4. CASE DeletePod
  <2>1. PICK e \in {"none", "read"} : Failing(e) /\ (e = "none" => UNCHANGED <<docLeft, docUndeleted>>)
    BY <1>4 DEF DeletePod
  <2>2. /\ docTrouble' \in Nat /\ docTrouble' >= docTrouble
        /\ docTrouble' = docTrouble => e = "none"
    BY <2>1, <1>m, FailingCounts
  <2>3. UNCHANGED <<docCluster, docSuite, docLasting, docDistro>>
    BY <1>4 DEF DeletePod, Steady
  <2> QED BY <2>1, <2>2, <2>3
<1>5. CASE Cleanup
  <2>1. PICK e \in {"none", "read"} : Failing(e) /\ (e = "none" => UNCHANGED docUndeleted)
    BY <1>5 DEF Cleanup
  <2>2. /\ docTrouble' \in Nat /\ docTrouble' >= docTrouble
        /\ docTrouble' = docTrouble => e = "none"
    BY <2>1, <1>m, FailingCounts
  <2>3. UNCHANGED <<docCluster, docSuite, docLasting, docDistro, docLeft>>
    BY <1>5 DEF Cleanup, Steady
  <2> QED BY <2>1, <2>2, <2>3
<1>6. CASE GoesWrong
  <2>1. docLasting' = docLasting /\ Trouble(1)
    BY <1>6 DEF GoesWrong
  <2>2. docTrouble' = docTrouble + 1
    BY <2>1 DEF Trouble
  <2> QED BY <1>m, <2>1, <2>2
<1> QED BY <1>1, <1>2, <1>3, <1>4, <1>5, <1>6 DEF DoctorNext

\* A step that adds no trouble changes neither the cluster nor the list of checks that is being worked off.
LEMMA DocStill ==
    ASSUME DocTyped, DocRemoved, DocQuiet, DoctorNext, docTrouble' = Cardinality(docLasting')
    PROVE  /\ docTrouble' = docTrouble /\ docTrouble = Cardinality(docLasting) /\ DocAsSeen
           /\ UNCHANGED <<docCluster, docSuite, docLasting, docUndeleted, docLeft>>
           /\ docStage # "detect" => docDistro' = docDistro /\ Listed' = Listed
           /\ docLeft = {}
<1>1. docTrouble' = docTrouble /\ docTrouble = Cardinality(docLasting)
  <2>1. docLasting' = docLasting /\ docTrouble' \in Nat /\ docTrouble' >= docTrouble
    BY DocMonotone
  <2>2. docTrouble \in 0..MaxTrouble /\ Cardinality(docLasting) \in 0..docTrouble
    BY DEF DocTyped
  <2> QED BY <2>1, <2>2, DoctorAssumption
<1>2. /\ UNCHANGED <<docCluster, docSuite, docLasting, docUndeleted, docLeft>>
      /\ docStage # "detect" => docDistro' = docDistro
  BY <1>1, DocMonotone
<1>3. DocAsSeen
  BY <1>1 DEF DocQuiet
<1>4. docLeft = {}
  BY <1>3 DEF DocAsSeen, DocRemoved
<1>5. docStage # "detect" => Listed' = Listed
  BY <1>2 DEF Listed
<1> QED BY <1>1, <1>2, <1>3, <1>4, <1>5

\* A check that ends in a quiet run has passed, or the report says otherwise.
LEMMA RecordSeen ==
    ASSUME DocTyped, DocAsSeen, NEW v, Record(v, FALSE), docPod' = "none", docStage # "detect", UNCHANGED <<docCluster, docSuite, docLasting,
           docUndeleted, docDistro>>, Listed' = Listed, docOK /\ v # "fail" => Passes(Listed[docAt], docCluster)
    PROVE  DocAsSeen'
<1>1. /\ docOK' = (docOK /\ v # "fail")
      /\ \/ docStage' = "done" /\ docAt' = docAt /\ docAt = SuiteLength(docSuite)
         \/ docStage' = "check" /\ docAt' = docAt + 1
  BY Records
<1>2. docAt \in Nat \ {0}
  BY DocThis
<1>3. docOK' => \A i \in 1..docAt : Passes(Listed[i], docCluster)
  <2>1. docOK' => \A i \in 1..(docAt - 1) : Passes(Listed[i], docCluster)
    BY <1>1 DEF DocAsSeen
  <2>2. docOK' => Passes(Listed[docAt], docCluster)
    BY <1>1
  <2>3. \A i \in 1..docAt : i \in 1..(docAt - 1) \/ i = docAt
    BY <1>2
  <2> QED BY <2>1, <2>2, <2>3
<1>4. \A i \in 1..(docAt' - 1) : i \in 1..docAt
  BY <1>1, <1>2
<1>5. docOK' => \A i \in 1..(docAt' - 1) : Passes(Listed'[i], docCluster')
  BY <1>3, <1>4
<1>6. docOK' /\ docStage' = "done" => Passes(Listed'[docAt'], docCluster') /\ docAt' = SuiteLength(docSuite')
  BY <1>1
<1>7. docStage' \notin PodStages \cup SmokeStages /\ docStage' # "delete"
  BY <1>1 DEF PodStages, SmokeStages
<1> QED BY <1>5, <1>6, <1>7 DEF DocAsSeen

\* A step inside a check.
LEMMA StepSeen ==
    ASSUME DocTyped, DocAsSeen, docStage # "detect", UNCHANGED <<docCluster, docSuite, docLasting, docUndeleted, docDistro, docAt, docOK>>,
           Listed' = Listed, docStage' # "done", Listed[docAt].before = "ok", docPod' = "finished" => ~NoPodRuns(docCluster),
           docStage' = "delete" /\ docVerdict' = "ok" => Passes(Listed[docAt], docCluster)
    PROVE  DocAsSeen'
  BY DEF DocAsSeen

\* Each step of a quiet run keeps that every check so far was answered as the one cluster it saw answers.
LEMMA DocQuietStep ==
    ASSUME DocTyped, DocPlaced, DocRemoved, DocQuiet, DoctorNext, DocPlaced'
    PROVE  DocQuiet'
<1> SUFFICES ASSUME docTrouble' = Cardinality(docLasting')  PROVE DocAsSeen'
  BY DEF DocQuiet
<1>m. MaxTrouble \in Nat /\ docTrouble \in 0..MaxTrouble
  BY DoctorAssumption DEF DocTyped
<1>s. /\ docTrouble' = docTrouble /\ DocAsSeen /\ UNCHANGED <<docCluster, docSuite, docLasting, docUndeleted, docLeft>>
      /\ docStage # "detect" => docDistro' = docDistro /\ Listed' = Listed
      /\ docLeft = {}
  BY DocStill
<1>e. \A e : Failing(e) => e = "none"
  BY <1>s, <1>m, FailingCounts
<1>t. /\ docAt \in Nat \ {0} /\ ThisSpec = Listed[docAt] /\ Specs("none") = Listed
      /\ Listed[docAt].pods = PodsAt(docSuite, docAt) /\ Listed[docAt].ns = WhereAt(docSuite, docAt)
      /\ PodsAt(docSuite, docAt) \in 0..2
      /\ PodsAt(docSuite, docAt) > 0 => WhereAt(docSuite, docAt) \in PodNamespaces
  BY DocThis
<1>1. CASE DetectDistribution
  <2>1. /\ docStage' = "check" /\ docAt' = docAt /\ docPod' = docPod /\ docStage = "detect"
        /\ \E e \in {"none", "read"} : Failing(e) /\ docDistro' \in {docCluster.distro} \cup (IF e = "none" THEN {} ELSE {"generic"})
    BY <1>1 DEF DetectDistribution, probeVars
  <2>2. docDistro' = docCluster.distro
    BY <2>1, <1>e
  <2>3. docAt' = 1 /\ docPod' = "none"
    BY <2>1 DEF DocPlaced, DocTyped
  <2>4. \A i \in 1..(docAt' - 1) : FALSE
    BY <2>3
  <2>5. docStage' \notin PodStages \cup SmokeStages
    BY <2>1 DEF PodStages, SmokeStages
  <2> QED BY <1>s, <2>1, <2>2, <2>3, <2>4, <2>5 DEF DocAsSeen
<1>2. CASE runDoctorChecksWithSpecs
  <2>1. /\ docStage = "check" /\ docPod' = docPod
        /\ \E e \in Errors : LET here == Specs(e)[docAt] IN
          /\ Failing(e)
          /\ IF here.before = "ok" /\ (here.pods > 0 \/ here.ns = "smoke")
             THEN docStage' = (IF here.ns = "smoke" THEN "apply" ELSE "create") /\ UNCHANGED <<docAt, docRound, docVerdict, docOK>>
             ELSE Record(here.before, docAt = 1 /\ e # "none" /\ docSuite # "identity")
    BY <1>2 DEF runDoctorChecksWithSpecs, probeVars
  <2>2. docPod' = "none"
    BY <2>1 DEF DocPlaced
  <2>3. LET here == Listed[docAt] IN
          IF here.before = "ok" /\ (here.pods > 0 \/ here.ns = "smoke")
          THEN docStage' = (IF here.ns = "smoke" THEN "apply" ELSE "create") /\ UNCHANGED <<docAt, docRound, docVerdict, docOK>>
          ELSE Record(here.before, FALSE)
    <3>1. PICK e \in Errors : LET here == Specs(e)[docAt] IN
          /\ Failing(e)
          /\ IF here.before = "ok" /\ (here.pods > 0 \/ here.ns = "smoke")
             THEN docStage' = (IF here.ns = "smoke" THEN "apply" ELSE "create") /\ UNCHANGED <<docAt, docRound, docVerdict, docOK>>
             ELSE Record(here.before, docAt = 1 /\ e # "none" /\ docSuite # "identity")
      BY <2>1
    <3>2. e = "none"
      BY <3>1, <1>e
    <3>3. (docAt = 1 /\ e # "none" /\ docSuite # "identity") = FALSE
      BY <3>2
    <3> QED BY <3>1, <3>2, <3>3, <1>t
  <2>4. CASE Listed[docAt].before = "ok" /\ (Listed[docAt].pods > 0 \/ Listed[docAt].ns = "smoke")
    <3>1. (docStage' = "apply" \/ docStage' = "create") /\ UNCHANGED <<docAt, docVerdict, docOK>>
      BY <2>3, <2>4
    <3> QED BY <1>s, <2>1, <2>2, <2>4, <3>1, StepSeen
  <2>5. CASE ~(Listed[docAt].before = "ok" /\ (Listed[docAt].pods > 0 \/ Listed[docAt].ns = "smoke"))
    <3>1. Record(Listed[docAt].before, FALSE)
      BY <2>3, <2>5
    <3>2. Listed[docAt].before # "fail" => Passes(Listed[docAt], docCluster)
      BY <2>5 DEF Passes
    <3> QED BY <1>s, <2>1, <2>2, <3>1, <3>2, RecordSeen
  <2> QED BY <2>4, <2>5
<1>3. CASE CreatePod
  <2>1. /\ docStage = "create" /\ UNCHANGED <<docAt, docOK>>
        /\ \/ docStage' = "wait" /\ docPod' = "pending"
           \/ docStage' = "delete" /\ docVerdict' = "fail" /\ docPod' = docPod
    BY <1>3, <1>e DEF CreatePod
  <2>2. Listed[docAt].before = "ok" /\ docPod = "none"
    BY <1>s, <2>1 DEF DocAsSeen, DocPlaced, PodStages
  <2> QED BY <1>s, <2>1, <2>2, StepSeen
<1>4. CASE RunPod
  <2>1. ~Stuck /\ docPod = "pending" /\ UNCHANGED <<docStage, docAt, docOK, docVerdict>>
    BY <1>4 DEF RunPod
  <2>2. ~NoPodRuns(docCluster)
    BY <2>1 DEF Stuck, NoPodRuns
  <2>3. docStage \in PodStages /\ docStage # "detect" /\ docStage # "done"
    BY <2>1 DEF DocPlaced, PodStages
  <2>4. Listed[docAt].before = "ok" /\ (docStage = "delete" /\ docVerdict = "ok" => Passes(Listed[docAt], docCluster))
    BY <1>s, <2>3 DEF DocAsSeen
  <2> QED BY <1>s, <2>1, <2>2, <2>3, <2>4, StepSeen
<1>5. CASE waitForDoctorPodSucceeded
  <2>1. /\ docStage = "wait" /\ UNCHANGED <<docAt, docOK, docPod>>
        /\ docStage' = "logs" \/ (docStage' = "delete" /\ docVerdict' = "fail")
    BY <1>5 DEF waitForDoctorPodSucceeded, probeVars
  <2>2. Listed[docAt].before = "ok" /\ (docPod = "finished" => ~NoPodRuns(docCluster))
    BY <1>s, <2>1 DEF DocAsSeen, PodStages
  <2> QED BY <1>s, <2>1, <2>2, StepSeen
<1>6. CASE ReadLogs
  <2>1. /\ docStage = "logs" /\ docStage' = "delete" /\ UNCHANGED <<docAt, docOK, docPod>>
        /\ docVerdict' = "ok" => ThisSpec.answer
    BY <1>6 DEF ReadLogs, probeVars
  <2>2. Listed[docAt].before = "ok" /\ ~NoPodRuns(docCluster)
    BY <1>s, <2>1 DEF DocAsSeen, PodStages, DocPlaced
  <2>3. docVerdict' = "ok" => Passes(Listed[docAt], docCluster)
    BY <2>1, <2>2, <1>t DEF Passes
  <2> QED BY <1>s, <2>1, <2>2, <2>3, StepSeen
<1>7. CASE DeletePod
  <2>1. /\ docStage = "delete" /\ docPod' = "none"
        /\ \/ docStage' = "create" /\ UNCHANGED <<docAt, docVerdict, docOK>>
           \/ Record(docVerdict, FALSE)
    BY <1>7 DEF DeletePod
  <2>2. /\ Listed[docAt].before = "ok" /\ (docVerdict = "ok" => Passes(Listed[docAt], docCluster))
        /\ docVerdict = "ok" \/ docVerdict = "fail"
    BY <1>s, <2>1 DEF DocAsSeen, PodStages, DocTyped
  <2>3. CASE docStage' = "create" /\ UNCHANGED <<docAt, docVerdict, docOK>>
    BY <1>s, <2>1, <2>2, <2>3, StepSeen
  <2>4. CASE Record(docVerdict, FALSE)
    BY <1>s, <2>1, <2>2, <2>4, RecordSeen
  <2> QED BY <2>1, <2>3, <2>4
<1>8. CASE ApplySmoke \/ waitForDoctorResource \/ waitForDoctorDeploymentReady
  <2>1. UNCHANGED <<docAt, docOK, docPod>> /\ docStage \in SmokeStages
    BY <1>8 DEF ApplySmoke, waitForDoctorResource, WaitFor, waitForDoctorDeploymentReady, SmokeStages, probeVars
  <2>2. docStage' # "done" /\ docStage' # "delete"
    BY <1>8 DEF ApplySmoke, waitForDoctorResource, WaitFor, waitForDoctorDeploymentReady
  <2>3. Listed[docAt].before = "ok" /\ (docPod = "finished" => ~NoPodRuns(docCluster)) /\ docStage # "detect"
    BY <1>s, <2>1 DEF DocAsSeen, SmokeStages
  <2> QED BY <1>s, <2>1, <2>2, <2>3, StepSeen
<1>9. CASE Cleanup
  <2>1. PICK i \in 1..5 :
          /\ docStage = CleanupOrder[i] /\ docPod' = docPod
          /\ IF i = Len(CleanupOrder) THEN Record(docVerdict, FALSE)
             ELSE docStage' = CleanupOrder[i + 1] /\ UNCHANGED <<docAt, docRound, docVerdict, docOK>>
    BY <1>9, CleanupSteps DEF Cleanup
  <2>i. i = 1 \/ i = 2 \/ i = 3 \/ i = 4 \/ i = 5
    OBVIOUS
  <2>2. docStage \in SmokeStages /\ docStage \notin {"detect", "wait", "logs", "delete"}
    BY <2>1, <2>i, CleanupSteps DEF SmokeStages
  <2>3. Listed[docAt].before = "ok" /\ docPod = "none" /\ WhereAt(docSuite, docAt) = "smoke"
    BY <1>s, <2>2 DEF DocAsSeen, DocPlaced
  <2>4. Passes(Listed[docAt], docCluster)
    <3>1. ~(PodsAt(docSuite, docAt) > 0)
      BY <1>t, <2>3 DEF PodNamespaces
    <3> QED BY <1>t, <2>3, <3>1 DEF Passes
  <2>5. CASE i = 5
    <3>1. Record(docVerdict, FALSE)
      BY <2>1, <2>5, CleanupSteps
    <3> QED BY <1>s, <2>1, <2>2, <2>3, <2>4, <3>1, RecordSeen
  <2>6. CASE i # 5
    <3>1. docStage' = CleanupOrder[i + 1] /\ UNCHANGED <<docAt, docVerdict, docOK>>
      BY <2>1, <2>6, CleanupSteps
    <3>2. i + 1 = 2 \/ i + 1 = 3 \/ i + 1 = 4 \/ i + 1 = 5
      BY <2>i, <2>6
    <3>3. docStage' # "done"
      BY <3>1, <3>2, CleanupSteps
    <3> QED BY <1>s, <2>1, <2>2, <2>3, <2>4, <3>1, <3>3, StepSeen
  <2> QED BY <2>5, <2>6
<1>10. CASE BeginPass \/ CreateObject \/ OperatorStops \/ CollectGarbage
  <2>1. UNCHANGED <<docDistro, docAt, docStage, docVerdict, docOK, docPod>>
    BY <1>10 DEF BeginPass, CreateObject, OperatorStops, CollectGarbage
  <2>2. Listed' = Listed
    BY <1>s, <2>1 DEF Listed
  <2> QED BY <1>s, <2>1, <2>2 DEF DocAsSeen
<1>11. CASE GoesWrong
  <2>1. docTrouble' = docTrouble + 1
    BY <1>11 DEF GoesWrong, Trouble
  <2> QED BY <1>s, <1>m, <2>1
<1> QED BY <1>1, <1>2, <1>3, <1>4, <1>5, <1>6, <1>7, <1>8, <1>9, <1>10, <1>11 DEF DoctorNext

\* Without any trouble no step finds a failure.
LEMMA DocCalmStep ==
    ASSUME DocTyped, DocPlaced, DocRemoved, DocQuiet, DocCalm, DoctorNext
    PROVE  DocCalm'
<1> SUFFICES ASSUME docTrouble' = 0  PROVE docOK' /\ docVerdict' = "ok"
  BY DEF DocCalm
<1>m. MaxTrouble \in Nat /\ docTrouble \in 0..MaxTrouble
  BY DoctorAssumption DEF DocTyped
<1>s. docTrouble = 0 /\ docTrouble' = docTrouble /\ docOK /\ docVerdict = "ok"
  <2>1. docTrouble' >= docTrouble
    BY DocMonotone
  <2> QED BY <1>m, <2>1 DEF DocCalm
<1>e. \A e : Failing(e) => e = "none"
  BY <1>s, <1>m, FailingCounts
<1>q. DocAsSeen /\ docCluster.bad = {} /\ docLeft = {}
  <2>1. Cardinality(docLasting) = 0
    BY <1>s DEF DocTyped
  <2>2. docLasting = {}
    <3>1. docLasting = {} \/ \E f : docLasting = {f}
      BY DEF DocTyped
    <3>2. ASSUME NEW f, docLasting = {f}  PROVE FALSE
      <4>1. Cardinality({f}) = 1
        BY FS_Singleton
      <4> QED BY <2>1, <3>2, <4>1
    <3> QED BY <3>1, <3>2
  <2> QED BY <1>s, <2>1, <2>2 DEF DocQuiet, DocAsSeen, DocRemoved
<1>w. \A X : ~Wrong(docCluster, X)
  BY <1>q DEF Wrong
<1>h. HealthyCluster(docCluster)
  BY <1>q DEF HealthyCluster, DocTyped, Sited
<1>c. docStage # "detect" => Clean(Listed[docAt])
  <2>1. docStage # "detect" => Listed = Checks(docSuite, docCluster, "none", docCluster.distro, {})
    BY <1>q DEF DocAsSeen, Listed
  <2>2. docSuite \in Suites /\ docAt \in 1..SuiteLength(docSuite)
    BY DEF DocTyped
  <2> QED BY <1>h, <2>1, <2>2, SuiteWell
<1>t. ThisSpec = Listed[docAt] /\ Specs("none") = Listed
  BY DocThis
<1>1. CASE DetectDistribution \/ RunPod
  BY <1>1, <1>s DEF DetectDistribution, RunPod
<1>2. CASE runDoctorChecksWithSpecs
  <2>1. PICK e \in Errors : LET here == Specs(e)[docAt] IN
          /\ Failing(e)
          /\ IF here.before = "ok" /\ (here.pods > 0 \/ here.ns = "smoke")
             THEN docStage' = (IF here.ns = "smoke" THEN "apply" ELSE "create") /\ UNCHANGED <<docAt, docRound, docVerdict, docOK>>
             ELSE Record(here.before, docAt = 1 /\ e # "none" /\ docSuite # "identity")
    BY <1>2 DEF runDoctorChecksWithSpecs
  <2>2. e = "none" /\ Listed[docAt].before # "fail"
    BY <1>2, <1>c, <1>e, <2>1 DEF Clean, runDoctorChecksWithSpecs
  <2>3. CASE UNCHANGED <<docVerdict, docOK>>
    BY <1>s, <2>3
  <2>4. CASE Record(Listed[docAt].before, docAt = 1 /\ e # "none" /\ docSuite # "identity")
    BY <1>s, <2>2, <2>4 DEF Record
  <2> QED BY <1>t, <2>1, <2>2, <2>3, <2>4
<1>3. CASE CreatePod
  BY <1>3, <1>s, <1>e, <1>w DEF CreatePod
<1>4. CASE waitForDoctorPodSucceeded
  <2>1. ~Stuck
    BY <1>w DEF Stuck
  <2> QED BY <1>4, <1>s, <2>1 DEF waitForDoctorPodSucceeded
<1>5. CASE ReadLogs
  <2>1. ThisSpec.answer = TRUE
    BY <1>5, <1>c, <1>t DEF Clean, ReadLogs
  <2> QED BY <1>5, <1>s, <1>e, <2>1 DEF ReadLogs
<1>6. CASE DeletePod
  <2>1. UNCHANGED <<docVerdict, docOK>> \/ Record("ok", FALSE)
    BY <1>6, <1>s DEF DeletePod
  <2> QED BY <1>s, <2>1 DEF Record
<1>7. CASE ApplySmoke
  BY <1>7, <1>s, <1>e, <1>w DEF ApplySmoke
<1>8. CASE waitForDoctorResource
  <2>1. \A what : ~Missing(what)
    BY <1>w DEF Missing
  <2> QED BY <1>8, <1>s, <2>1 DEF waitForDoctorResource, WaitFor
<1>9. CASE waitForDoctorDeploymentReady
  <2>1. ~NotRunning
    BY <1>w DEF NotRunning
  <2> QED BY <1>9, <1>s, <2>1 DEF waitForDoctorDeploymentReady
<1>10. CASE Cleanup
  <2>1. UNCHANGED <<docVerdict, docOK>> \/ Record("ok", FALSE)
    BY <1>10, <1>s DEF Cleanup
  <2> QED BY <1>s, <2>1 DEF Record
<1>11. CASE BeginPass \/ CreateObject \/ OperatorStops \/ CollectGarbage
  BY <1>11, <1>s DEF BeginPass, CreateObject, OperatorStops, CollectGarbage
<1>12. CASE GoesWrong
  <2>1. docTrouble' = docTrouble + 1
    BY <1>12 DEF GoesWrong, Trouble
  <2> QED BY <1>s, <2>1
<1> QED BY <1>1, <1>2, <1>3, <1>4, <1>5, <1>6, <1>7, <1>8, <1>9, <1>10, <1>11, <1>12 DEF DoctorNext

\* The invariant holds before the first check, since the clusters are healthy but for the fault put in,
LEMMA DoctorInvInit == DoctorInit => DoctorInv
<1> SUFFICES ASSUME DoctorInit  PROVE DoctorInv
  OBVIOUS
<1>1. PICK c \in Clusters, b \in {{}} \cup {{f} : f \in Faults} :
        (\A f \in b : FaultApplies(c, f)) /\ docCluster = [c EXCEPT !.bad = b]
  BY DEF DoctorInit
<1>2. HealthyCluster(c)
  BY DoctorAssumption
<1>3. Sited(docCluster) /\ docCluster.bad = b
  <2>1. DOMAIN c = {"has", "bad", "distro", "traefik", "exposure"}
    BY <1>2 DEF HealthyCluster
  <2>2. /\ DOMAIN docCluster = DOMAIN c /\ docCluster.bad = b /\ docCluster.has = c.has
        /\ docCluster.distro = c.distro /\ docCluster.traefik = c.traefik /\ docCluster.exposure = c.exposure
    BY <1>1, <2>1
  <2> QED BY <1>2, <2>1, <2>2 DEF Sited, HealthyCluster
<1>4. \A f \in b : FaultApplies(docCluster, f)
  <2>1. DOMAIN c = {"has", "bad", "distro", "traefik", "exposure"}
    BY <1>2 DEF HealthyCluster
  <2>2. docCluster.has = c.has /\ docCluster.exposure = c.exposure
    BY <1>1, <2>1
  <2> QED BY <1>1, <2>2 DEF FaultApplies
<1>5. /\ docLasting = b /\ docTrouble = Cardinality(b) /\ docAt = 1 /\ docStage = "detect" /\ docRound = 0 /\ docVerdict = "ok"
      /\ docOK = TRUE /\ docPod = "none" /\ docLeft = {} /\ docSmoke = {} /\ docPass = {} /\ docUndeleted = FALSE /\ docSuite \in Suites
  BY <1>3 DEF DoctorInit
<1>6. /\ b = {} \/ \E f : b = {f}
      /\ b \subseteq Faults /\ Cardinality(b) \in {0, 1} /\ (Cardinality(b) = 0 => b = {})
  <2>1. CASE b = {}
    BY <2>1, FS_EmptySet
  <2>2. CASE b \in {{f} : f \in Faults}
    <3>1. PICK f \in Faults : b = {f}
      BY <2>2
    <3>2. Cardinality(b) = 1
      BY <3>1, FS_Singleton
    <3> QED BY <3>1, <3>2
  <2> QED BY <2>1, <2>2
<1>7. docTrouble \in 0..MaxTrouble
  BY <1>5, <1>6, DoctorAssumption
<1>8. docAt \in 1..SuiteLength(docSuite)
  <2>1. SuiteLength(docSuite) \in Nat \ {0}
    BY <1>5, SuiteLengths
  <2> QED BY <1>5, <2>1
<1>9. Cardinality(docLasting) \in 0..docTrouble
  BY <1>5, <1>6
<1>10. DocTyped
  <2>1. docStage \in Stages /\ docRound \in 0..1
    BY <1>5 DEF Stages
  <2> QED BY <1>3, <1>5, <1>6, <1>7, <1>8, <1>9, <2>1 DEF DocTyped
<1>11. DocPlaced
  BY <1>5 DEF DocPlaced, PodStages, SmokeStages
<1>12. DocRemoved
  BY <1>5 DEF DocRemoved
<1>13. DocQuiet
  <2>1. \A i \in 1..(docAt - 1) : FALSE
    BY <1>5
  <2> QED BY <1>3, <1>4, <1>5, <2>1 DEF DocQuiet, DocAsSeen, PodStages, SmokeStages
<1>14. DocCalm
  BY <1>5 DEF DocCalm
<1> QED BY <1>10, <1>11, <1>12, <1>13, <1>14 DEF DoctorInv

\* is kept by every step,
LEMMA DoctorInvStep == DoctorInv /\ [DoctorNext]_docVars => DoctorInv'
<1> SUFFICES ASSUME DoctorInv, [DoctorNext]_docVars  PROVE DoctorInv'
  OBVIOUS
<1>1. CASE DoctorNext
  <2>1. DocTyped' /\ DocPlaced' /\ DocRemoved'
    BY <1>1, DocSafeStep DEF DoctorInv
  <2>2. DocQuiet'
    BY <1>1, <2>1, DocQuietStep DEF DoctorInv
  <2>3. DocCalm'
    BY <1>1, DocCalmStep DEF DoctorInv
  <2> QED BY <2>1, <2>2, <2>3 DEF DoctorInv
<1>2. CASE UNCHANGED docVars
  <2>1. /\ UNCHANGED <<docCluster, docSuite, docDistro, docAt, docStage, docRound, docVerdict, docOK>>
        /\ UNCHANGED <<docPod, docLeft, docSmoke, docPass, docLasting, docTrouble, docUndeleted>>
    BY <1>2 DEF docVars
  <2>2. Listed' = Listed
    BY <2>1 DEF Listed
  <2>3. DocTyped' /\ DocPlaced' /\ DocRemoved' /\ DocCalm'
    <3>1. DocTyped'
      BY <2>1 DEF DoctorInv, DocTyped
    <3>2. DocPlaced'
      BY <2>1 DEF DoctorInv, DocPlaced
    <3>3. DocRemoved'
      BY <2>1 DEF DoctorInv, DocRemoved
    <3>4. DocCalm'
      BY <2>1 DEF DoctorInv, DocCalm
    <3> QED BY <3>1, <3>2, <3>3, <3>4
  <2>4. DocQuiet'
    BY <2>1, <2>2 DEF DoctorInv, DocQuiet, DocAsSeen
  <2> QED BY <2>3, <2>4 DEF DoctorInv
<1> QED BY <1>1, <1>2

\* and implies what the doctor promises.
LEMMA DoctorInvSound == DoctorInv => DoctorSound
<1> SUFFICES ASSUME DoctorInv  PROVE DoctorSound
  OBVIOUS
<1>t. DocTyped /\ DocPlaced /\ DocRemoved /\ DocQuiet /\ DocCalm
  BY DEF DoctorInv
<1>l. /\ Len(Specs("none")) = SuiteLength(docSuite) /\ ThisSpec.pods = PodsAt(docSuite, docAt)
      /\ docAt \in Nat \ {0} /\ SuiteLength(docSuite) \in Nat \ {0}
  BY <1>t, DocThis
<1>1. DoctorTypeOK
  <2>1. docCluster.bad \subseteq Faults \cup LateFaults /\ docSuite \in Suites /\ docAt \in 1..Len(Specs("none")) /\ docStage \in Stages
    BY <1>t, <1>l DEF DocTyped
  <2>2. docVerdict \in Verdicts /\ docOK \in BOOLEAN /\ docTrouble \in 0..MaxTrouble /\ docRound \in 0..1
    BY <1>t DEF DocTyped, Verdicts
  <2>3. docPod \in {"none", "pending", "finished"} /\ docLeft \subseteq {"servers", "registry", "platform"} \X {"pending", "finished"}
    BY <1>t DEF DocTyped, PodNamespaces
  <2>4. docSmoke \subseteq SmokeObjects /\ docPass \subseteq SmokeObjects \ {"server"} /\ docLasting \subseteq docCluster.bad
    BY <1>t DEF DocTyped
  <2>5. docPod # "none" => docStage \in {"wait", "logs", "delete"} /\ ThisSpec.pods > docRound
    BY <1>t, <1>l DEF DocPlaced, PodStages
  <2> QED BY <2>1, <2>2, <2>3, <2>4, <2>5 DEF DoctorTypeOK
<1>2. FaultsReported
  <2> SUFFICES ASSUME docStage = "done", docTrouble = Cardinality(docLasting), docLasting \cap Promise # {}, docOK  PROVE FALSE
    BY <1>t DEF FaultsReported, DocTyped
  <2>1. PICK f : docLasting = {f} /\ f \in Promise
    BY <1>t DEF DocTyped
  <2>2. docCluster.bad = {f} /\ FaultApplies(docCluster, f) /\ docLeft = {}
    BY <1>t, <2>1 DEF DocQuiet, DocAsSeen, DocRemoved
  <2>3. \A i \in 1..SuiteLength(docSuite) : Passes(Listed[i], docCluster)
    <3>1. /\ \A i \in 1..(docAt - 1) : Passes(Listed[i], docCluster)
          /\ Passes(Listed[docAt], docCluster) /\ docAt = SuiteLength(docSuite)
      BY <1>t DEF DocQuiet, DocAsSeen
    <3>2. \A i \in 1..docAt : i \in 1..(docAt - 1) \/ i = docAt
      BY <1>l
    <3> QED BY <3>1, <3>2
  <2>4. Listed = Checks(docSuite, docCluster, "none", docDistro, {})
    BY <2>2 DEF Listed
  <2>5. f \notin PromiseOf(docSuite)
    BY <1>t, <2>2, <2>3, <2>4, SuiteIll DEF DocTyped
  <2>6. Promise = PromiseOf(docSuite)
    BY DEF Promise, PromiseOf
  <2> QED BY <2>1, <2>5, <2>6
<1>3. NoFalseAlarm
  BY <1>t DEF NoFalseAlarm, DocCalm
<1>4. ProbesRemoved
  <2> SUFFICES ASSUME docStage = "done", ~docUndeleted, docPass = {}, "server" \notin docSmoke => docSmoke = {}
               PROVE  docPod = "none" /\ docLeft = {} /\ docSmoke = {}
    BY DEF ProbesRemoved
  <2>1. docPod = "none"
    BY <1>t DEF DocPlaced
  <2>2. docLeft = {} /\ "server" \notin docSmoke
    BY <1>t DEF DocRemoved
  <2> QED BY <2>1, <2>2
<1> QED BY <1>1, <1>2, <1>3, <1>4 DEF DoctorSound

\* RunDoctor, RunDiagnostics, the smoke run and `cluster identity status`: no false alarm about a healthy cluster,
\* no pass for one with a lasting fault they promise to find, and nothing left behind but what a failed deletion left.
THEOREM DoctorIsSound == DoctorSpec => []DoctorSound
<1>1. DoctorInit => DoctorInv
  BY DoctorInvInit
<1>2. DoctorInv /\ [DoctorNext]_docVars => DoctorInv'
  BY DoctorInvStep
<1>3. DoctorInv => DoctorSound
  BY DoctorInvSound
<1> QED BY <1>1, <1>2, <1>3, PTL DEF DoctorSpec
=============================================================================
