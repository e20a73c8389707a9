---------------------------- MODULE MCInstallation ----------------------------
(* The commands that install and look after the platform: `setup`, `update`  *)
(* and the doctor.  They share no state of their own: a behaviour takes one  *)
(* of them, chosen by `part`, and the others rest in a state they start      *)
(* from.                                                                     *)
EXTENDS PlatformUpdate, SetupPipeline, Doctor

VARIABLE part
allVars == <<updateVars, setupVars, docVars, part>>

(* The update. *)
MCOrder == <<"api", "ui">>
MCConfigMaps == <<"platform", "observability">>
(* Sites that miss what the update brings, alone and together. *)
MCSites == {[audience |-> TRUE, analyticsTLS |-> TRUE, grafana |-> "migrated"], [audience |-> FALSE, analyticsTLS |-> TRUE, grafana |-> "migrated"],
            [audience |-> TRUE, analyticsTLS |-> FALSE, grafana |-> "unmigrated"]}
UpdateIdle == UpdateInit /\ site = [audience |-> TRUE, analyticsTLS |-> TRUE, grafana |-> "migrated"]

(* Setup: the plans an operator may run, on a fresh cluster or on one with what *)
(* earlier releases and other installations left.                               *)
Production == [tls |-> TRUE, test |-> FALSE, analytics |-> TRUE, external |-> FALSE, auth |-> FALSE, https |-> FALSE, catalog |-> FALSE,
               install |-> TRUE, mode |-> "acme", workload |-> "none", host |-> "public"]
MCPlans == {Production,
            [Production EXCEPT !.https = TRUE, !.mode = "private", !.install = FALSE],
            [Production EXCEPT !.auth = TRUE, !.mode = "provided", !.workload = "dedicated", !.catalog = TRUE],
            [Production EXCEPT !.host = "moved", !.mode = "issuer", !.https = TRUE],
            [Production EXCEPT !.tls = FALSE, !.mode = "private", !.analytics = FALSE, !.external = TRUE, !.host = "dev"],
            [Production EXCEPT !.tls = FALSE, !.mode = "private", !.test = TRUE, !.workload = "managed", !.host = "dev"]}
FreshCluster == {"cert-manager", "named-issuer", "signing-key", "own-traefik", "registry-tls", "platform-tls", "auth-tls"}
OldCluster == {"signing-key", "named-acme-issuer", "legacy-kafka", "old-oauth-server"}
SetupFresh ==
    /\ SetupInit({FreshCluster})
    /\ issuer = "none" /\ workload = "own" /\ transport = "none" /\ role = "none" /\ capable
SetupOld ==
    /\ SetupInit({OldCluster})
    /\ issuer = "other" /\ workload = "bundled" /\ transport = "plain" /\ serverNs = {"s1"} /\ ~capable

(* An administrator runs setup again with the same options, or changes to or from the plain ones. *)
Rerun == plan' # plan /\ runs = 1 => Production \in {plan, plan'}
(* Objects get stuck, and teams' first servers appear, on the old cluster.  A run's              *)
(* calls other than these three neither read nor write what a first server changes, so that it   *)
(* may as well come before one of these or between runs.                                         *)
NamespaceCalls == {"secret-list", "secret-bindings", "narrow-role"}
Around ==
    /\ part = "setup" => stuck' = stuck /\ serverNs' = serverNs
    /\ serverNs' # serverNs => (outcome = "running" => Head(todo) \in NamespaceCalls)

(* The doctor: three healthy clusters, each with at most one of the faults. *)
Healthy(has, distro, traefik, exposure) == [has |-> has, bad |-> {}, distro |-> distro, traefik |-> traefik, exposure |-> exposure]
MCClusters == {
    Healthy({"platform", "observability", "mcp-auth", "servers", "runtime classes", "tls route", "registry policy", "native registry",
             "registry host", "public hosts", "tls", "issuer", "acme", "adapter certificates", "image platform"}, "k3s", "bundled", "address"),
    Healthy({"platform", "observability", "servers", "test mode", "permissive readiness", "adapter certificates"}, "kind", "managed", "pending"),
    Healthy({}, "k3s", "managed", "nodePort")}
DoctorIdle == DoctorInit /\ docSuite = "doctor" /\ docTrouble = 0 /\ docCluster = CHOOSE c \in Clusters : TRUE

MCInit ==
    \/ part = "update" /\ UpdateInit /\ site \in MCSites /\ SetupFresh /\ DoctorIdle
    \/ part = "setup" /\ SetupFresh /\ UpdateIdle /\ DoctorIdle
    \/ part = "upgrade" /\ SetupOld /\ UpdateIdle /\ DoctorIdle
    \/ part = "doctor" /\ DoctorInit /\ UpdateIdle /\ SetupFresh
MCNext ==
    /\ UNCHANGED part
    /\ \/ part = "update" /\ UpdateNext /\ UNCHANGED <<setupVars, docVars>>
       \/ part \in {"setup", "upgrade"} /\ SetupNext /\ Rerun /\ Around /\ UNCHANGED <<updateVars, docVars>>
       \/ part = "doctor" /\ DoctorNext /\ UNCHANGED <<updateVars, setupVars>>
MCSpec == MCInit /\ [][MCNext]_allVars
=============================================================================
