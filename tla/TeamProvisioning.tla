--------------------------- MODULE TeamProvisioning ---------------------------
(***************************************************************************)
(* Team namespaces, the ingress controller's watch list and tenant         *)
(* deployments: services/runtime-api/internal/runtimeapi/deployments.go,   *)
(* team_members.go and k8sprovision (namespace.go, network.go, rbac.go,    *)
(* traefik.go).                                                            *)
(*                                                                         *)
(* A task is one tenant's request to the API (a deployment, a publication, *)
(* the deletion of a team) or the reconciliation at start.  Each step is   *)
(* one call to Kubernetes; a call that fails ends the task.  A namespace   *)
(* is the set of the objects in it.  The controller is one that is told    *)
(* its namespaces (PLATFORM_TEAM_TRAEFIK_WATCH), in two arguments that     *)
(* are always written together.                                            *)
(***************************************************************************)
EXTENDS Integers, Sequences, FiniteSets

CONSTANTS
    Tasks, Namespaces, Members,
    Plans,          \* functions from tasks to what they are to do
    DeployImages,         \* image references a deployment may name
    Slug,           \* the slug of each namespace's team
    Approved,       \* APPROVED_REGISTRIES, empty for any
    Aliases,        \* other names of the platform's registry
    PullHost,       \* the name nodes pull by
    MaxDeletions,   \* namespaces deleted behind the platform's back
    Nothing0        \* no host, member, workload

Kinds == {"deploy", "publish", "deleteTeam", "reconcile"}

ASSUME ProvisioningAssumption ==
    /\ IsFiniteSet(Tasks) /\ IsFiniteSet(Namespaces)
    /\ Plans \subseteq [Tasks -> [kind : Kinds, ns : Namespaces, member : Members]]
    /\ MaxDeletions \in Nat

VARIABLES
    objects,       \* the objects of each namespace
    owner,         \* whom the platform-namespace-owner binding names
    workload,      \* the tenant deployment in each namespace
    watched,       \* the namespaces in the ingress controller's arguments
    version,       \* the resource version of its Deployment
    provisioned,   \* namespaces a finished task left watched
    vanished,      \* history: namespaces deleted while they were watched ...
    disturbed,     \* ... and while a task was at work in them
    deletions,
    task           \* the tasks' local state

provisionState == <<objects, owner, workload, watched, version, provisioned,
                    vanished, disturbed, deletions>>
provisionVars == <<provisionState, task>>

Exists(n) == "namespace" \in objects[n]
Ns(t) == task[t].ns
TaskAt(t, pc) == task[t].pc = pc
To(t, pc) == task' = [task EXCEPT ![t].pc = pc]
Ended(t) == task[t].pc \in {"done", "failed"}
\* It has made the namespace, or found it, and is not through with it.
AtWork(t) == task[t].pc \notin {"start", "namespace", "unwatch", "done", "failed"}

\* One namespace may be from before its policy was narrowed.
ProvisionInit ==
    /\ objects \in [Namespaces -> {{}, {"namespace", "broad"}}]
    /\ owner = [n \in Namespaces |-> Nothing0]
    /\ workload = [n \in Namespaces |-> Nothing0]
    /\ watched = {} /\ version = 0 /\ provisioned = {} /\ vanished = {} /\ disturbed = {}
    /\ deletions = 0
    /\ \E plan \in Plans :
          task = [t \in Tasks |-> [pc |-> "start", kind |-> plan[t].kind, ns |-> plan[t].ns,
                                   member |-> plan[t].member, image |-> Nothing0, version |-> 0,
                                   list |-> {}, already |-> FALSE, toCheck |-> {}, missing |-> {}]]

-----------------------------------------------------------------------------
\* Image references: a host, or none, and a repository path.

\* allowedImageRepositoryScopes, for a namespace that is no catalog: the slug of its team.
ImageScope(n) == Slug[n]

\* ValidateDeployImage for a tenant.
ValidateDeployImage(image, n) ==
    /\ Approved = {} \/ image.host \in Approved
    /\ Len(image.path) >= 2 /\ image.path[1] = ImageScope(n)

\* rewritePlatformRegistryImageReference.
rewritePlatformRegistryImageReference(image) ==
    IF image.host \in Aliases THEN [image EXCEPT !.host = PullHost] ELSE image

\* ResolveDeployImageReference: a short name gets the registry and the scope.
ResolveDeployImageReference(image, n) ==
    IF image.host # Nothing0 THEN rewritePlatformRegistryImageReference(image)
    ELSE [host |-> PullHost,
          path |-> IF Len(image.path) > 1 /\ image.path[1] = ImageScope(n) THEN image.path
                   ELSE <<ImageScope(n)>> \o image.path]

-----------------------------------------------------------------------------
\* EnsureNamespace, one object after the other.

\* The object is created or brought up to date, if its namespace is there.
Ensure(t, from, o, next) ==
    /\ TaskAt(t, from) /\ Exists(Ns(t))
    /\ objects' = [objects EXCEPT ![Ns(t)] = @ \cup {o}]
    /\ To(t, next)
    /\ UNCHANGED <<owner, workload, watched, version, provisioned, vanished, disturbed, deletions>>

\* handleDeploymentApply up to the first write: a tenant, in a namespace of a
\* team of theirs, with an image of that team.
handleDeploymentApply(t) ==
    /\ TaskAt(t, "start") /\ task[t].kind = "deploy"
    /\ \E given \in DeployImages :
          LET image == ResolveDeployImageReference(given, Ns(t))
          IN /\ ValidateDeployImage(image, Ns(t))
             /\ task' = [task EXCEPT ![t].pc = "namespace", ![t].image = image]
    /\ UNCHANGED provisionState

\* ensureServerApplyNamespace on behalf of a publication.
ensureServerApplyNamespace(t) ==
    /\ TaskAt(t, "start") /\ task[t].kind = "publish"
    /\ To(t, "namespace")
    /\ UNCHANGED provisionState

\* The namespace with its labels.
EnsureNamespace(t) ==
    /\ TaskAt(t, "namespace")
    /\ objects' = [objects EXCEPT ![Ns(t)] = @ \cup {"namespace"}]
    /\ To(t, "quota")
    /\ UNCHANGED <<owner, workload, watched, version, provisioned, vanished, disturbed, deletions>>
ensureResourceQuota(t) == Ensure(t, "quota", "quota", "limits")
ensureLimitRange(t) == Ensure(t, "limits", "limits", "generic")

\* EnsureDefaultDenyNetworkPolicy: the exception for generic workloads first ...
GenericWorkloadIngressNetworkPolicy(t) == Ensure(t, "generic", "generic", "deny")

\* ... then the narrow base policy replaces the broad one.
DefaultDenyNetworkPolicy(t) ==
    /\ TaskAt(t, "deny") /\ Exists(Ns(t))
    /\ objects' = [objects EXCEPT ![Ns(t)] = (@ \ {"broad"}) \cup {"deny"}]
    /\ To(t, IF task[t].kind = "reconcile" THEN "done" ELSE "account")
    /\ UNCHANGED <<owner, workload, watched, version, provisioned, vanished, disturbed, deletions>>
EnsureServiceAccount(t) == Ensure(t, "account", "account", "apiAccess")
EnsurePlatformAPISecretAccess(t) == Ensure(t, "apiAccess", "apiAccess", "operatorAccess")
EnsureOperatorSecretAccess(t) == Ensure(t, "operatorAccess", "operatorAccess", "pullSecret")

\* ensureNamespaceRegistryPullSecret: waits for its access to take effect.
ensureNamespaceRegistryPullSecret(t) ==
    /\ "apiAccess" \in objects[Ns(t)]
    /\ Ensure(t, "pullSecret", "pullSecret", "watchRole")

\* ReconcileTeamNamespaceNetworkPolicies at start, of one of the namespaces listed; the
\* others are done whether it fails or not.
ReconcileTeamNamespaceNetworkPolicies(t) ==
    /\ TaskAt(t, "start") /\ task[t].kind = "reconcile" /\ Exists(Ns(t))
    /\ To(t, "generic")
    /\ UNCHANGED provisionState

-----------------------------------------------------------------------------
\* EnsureTeamTraefikWatch.

\* ensureTraefikWatchRBAC: the controller's role, before it is told to look.
ensureTraefikWatchRBAC(t) == Ensure(t, "watchRole", "watchRole", "watchRead")

\* The Deployment's argument, with the namespace added, and the names to verify.
traefikNamespaceWatchArg(t) ==
    /\ TaskAt(t, "watchRead")
    /\ LET list == watched \cup {Ns(t)}
       IN task' = [task EXCEPT ![t].pc = "prune", ![t].version = version, ![t].list = list,
                               ![t].already = Ns(t) \in watched, ![t].toCheck = list, ![t].missing = {}]
    /\ UNCHANGED provisionState

\* pruneMissingTraefikNamespaceWatches: each name is looked up.
pruneMissingTraefikNamespaceWatches(t) ==
    /\ TaskAt(t, "prune")
    /\ IF task[t].toCheck = {} THEN To(t, "watchUpdate")
       ELSE \E n \in task[t].toCheck :
               task' = [task EXCEPT ![t].toCheck = @ \ {n},
                                    ![t].missing = IF Exists(n) THEN @ ELSE @ \cup {n}]
    /\ UNCHANGED provisionState

\* Mutant: the Deployment is updated whatever version it has.
WatchUnversioned(t) ==
    LET list == task[t].list \ task[t].missing
    IN /\ TaskAt(t, "watchUpdate")
       /\ IF task[t].already /\ task[t].missing = {} THEN UNCHANGED <<watched, version>>
          ELSE watched' = list /\ version' = version + 1
       /\ provisioned' = IF Ns(t) \in watched' /\ Exists(Ns(t)) THEN provisioned \cup {Ns(t)} ELSE provisioned
       /\ task' = [task EXCEPT ![t].pc = "ownerRole", ![t].missing = {}]
       /\ UNCHANGED <<objects, owner, workload, vanished, disturbed, deletions>>

\* Nothing to change, of whatever version; or an update of the version read, which is begun
\* again on a conflict.
ensureTraefikDeploymentWatchesNamespace(t) ==
    LET list == task[t].list \ task[t].missing
        same == task[t].already /\ task[t].missing = {}
    IN /\ TaskAt(t, "watchUpdate")
       /\ IF same THEN UNCHANGED <<watched, version>> /\ To(t, "ownerRole")
          ELSE IF task[t].version # version
          THEN UNCHANGED <<watched, version>> /\ task' = [task EXCEPT ![t].pc = "watchRead", ![t].missing = {}]
          ELSE /\ watched' = list /\ version' = version + 1
               /\ task' = [task EXCEPT ![t].pc = "ownerRole", ![t].missing = {}]
       /\ provisioned' = IF (same \/ task[t].version = version) /\ Ns(t) \in watched' /\ Exists(Ns(t))
                         THEN provisioned \cup {Ns(t)} ELSE provisioned
       /\ UNCHANGED <<objects, owner, workload, vanished, disturbed, deletions>>

-----------------------------------------------------------------------------
\* ensureNamespaceUserWorkloadRBAC, and then the deployment, written in the caller's name.

upsertRole(t) == Ensure(t, "ownerRole", "ownerRole", "ownerBinding")

\* EnsureUserWorkloadRBAC: the binding names the caller and nobody else.  A publication has
\* what it needs then.
EnsureUserWorkloadRBAC(t) ==
    /\ TaskAt(t, "ownerBinding") /\ Exists(Ns(t))
    /\ owner' = [owner EXCEPT ![Ns(t)] = task[t].member]
    /\ To(t, IF task[t].kind = "deploy" THEN "deployment" ELSE "done")
    /\ UNCHANGED <<objects, workload, watched, version, provisioned, vanished, disturbed, deletions>>

\* upsertDeployment as the caller: forbidden unless the binding still names them.
upsertDeployment(t) ==
    /\ TaskAt(t, "deployment") /\ owner[Ns(t)] = task[t].member
    /\ workload' = [workload EXCEPT ![Ns(t)] = task[t].image]
    /\ To(t, "service")
    /\ UNCHANGED <<objects, owner, watched, version, provisioned, vanished, disturbed, deletions>>

upsertService(t) ==
    /\ TaskAt(t, "service") /\ owner[Ns(t)] = task[t].member
    /\ To(t, "done")
    /\ UNCHANGED provisionState

-----------------------------------------------------------------------------
\* handleRuntimeTeamDelete: the record goes, and the watch list is read.
handleRuntimeTeamDelete(t) ==
    /\ TaskAt(t, "start") /\ task[t].kind = "deleteTeam"
    /\ task' = [task EXCEPT ![t].pc = "unwatch", ![t].version = version, ![t].list = watched \ {Ns(t)},
                            ![t].already = Ns(t) \in watched]
    /\ UNCHANGED provisionState

\* RemoveTraefikDeploymentWatchesNamespace: nothing to change, or an update of the version
\* read, begun again on a conflict.
RemoveTraefikDeploymentWatchesNamespace(t) ==
    /\ TaskAt(t, "unwatch")
    /\ IF ~ task[t].already THEN To(t, "done") /\ UNCHANGED <<watched, version, provisioned>>
       ELSE IF task[t].version # version
       THEN /\ task' = [task EXCEPT ![t].version = version, ![t].list = watched \ {Ns(t)},
                                    ![t].already = Ns(t) \in watched]
            /\ UNCHANGED <<watched, version, provisioned>>
       ELSE /\ watched' = task[t].list /\ version' = version + 1
            /\ provisioned' = provisioned \ {Ns(t)}
            /\ To(t, "done")
    /\ UNCHANGED <<objects, owner, workload, vanished, disturbed, deletions>>

\* A namespace is deleted with everything in it, watched or not, at any time.
NamespaceDeleted(n) ==
    /\ Exists(n) /\ deletions < MaxDeletions
    /\ deletions' = deletions + 1
    /\ objects' = [objects EXCEPT ![n] = {}]
    /\ owner' = [owner EXCEPT ![n] = Nothing0]
    /\ workload' = [workload EXCEPT ![n] = Nothing0]
    /\ provisioned' = provisioned \ {n}
    /\ vanished' = IF n \in watched THEN vanished \cup {n} ELSE vanished
    /\ disturbed' = IF \E t \in Tasks : Ns(t) = n /\ AtWork(t) THEN disturbed \cup {n} ELSE disturbed
    /\ UNCHANGED <<watched, version, task>>

TaskFails(t) ==
    /\ ~ Ended(t)
    /\ task' = [task EXCEPT ![t].pc = "failed", ![t].missing = {}]
    /\ UNCHANGED provisionState

ProvisionNext ==
    \/ \E n \in Namespaces : NamespaceDeleted(n)
    \/ \E t \in Tasks :
          \/ handleDeploymentApply(t) \/ ensureServerApplyNamespace(t)
          \/ ReconcileTeamNamespaceNetworkPolicies(t) \/ handleRuntimeTeamDelete(t)
          \/ EnsureNamespace(t) \/ ensureResourceQuota(t) \/ ensureLimitRange(t)
          \/ GenericWorkloadIngressNetworkPolicy(t) \/ DefaultDenyNetworkPolicy(t)
          \/ EnsureServiceAccount(t) \/ EnsurePlatformAPISecretAccess(t)
          \/ EnsureOperatorSecretAccess(t) \/ ensureNamespaceRegistryPullSecret(t)
          \/ ensureTraefikWatchRBAC(t) \/ traefikNamespaceWatchArg(t)
          \/ pruneMissingTraefikNamespaceWatches(t)
          \/ ensureTraefikDeploymentWatchesNamespace(t)
          \/ upsertRole(t) \/ EnsureUserWorkloadRBAC(t)
          \/ upsertDeployment(t) \/ upsertService(t)
          \/ RemoveTraefikDeploymentWatchesNamespace(t) \/ TaskFails(t)
ProvisionSpec == ProvisionInit /\ [][ProvisionNext]_provisionVars

-----------------------------------------------------------------------------
\* A tenant's deployment runs only where the quota, the limits and the network
\* policies are in place, whoever provisioned the namespace and however often
\* it was deleted and made again (handleDeploymentApply), unless it was deleted
\* between two calls of a task, which then goes on in what another has made.
TenantLockedDown ==
    \A n \in Namespaces \ disturbed : workload[n] # Nothing0 =>
        {"quota", "limits", "generic", "deny", "account", "pullSecret"} \subseteq objects[n]

\* ... and only from the repositories of the namespace's own team.
ImageInScope ==
    \A n \in Namespaces : workload[n] # Nothing0 =>
        (Approved = {} \/ workload[n].host \in Approved) /\ workload[n].path[1] = ImageScope(n)

\* Narrowing an old namespace's policy never cuts off its running generic
\* workloads, not even between two calls (EnsureDefaultDenyNetworkPolicy).
TrafficKept ==
    [][\A n \in Namespaces :
          "broad" \in objects[n] /\ Exists(n)' /\ "broad" \notin objects'[n]
             => "generic" \in objects'[n]]_provisionVars

\* What one task added to the watch list another does not lose, whatever they
\* read before (ensureTraefikDeploymentWatchesNamespace).  A namespace that was
\* deleted under its watch or under a task is another matter: a task that missed
\* it may still drop its name when it has come back.
WatchKept == provisioned \ (vanished \cup disturbed) \subseteq watched

\* The controller is never told to watch a namespace it may not read, which
\* would stall all its routes, except one deleted under its watch or under a task.
WatchReadable ==
    \A n \in watched \ (vanished \cup disturbed) : Exists(n) => "watchRole" \in objects[n]
\* Tenants stay confined: what runs in a team's namespace runs behind its limits and policies and from its
\* own images, and the shared controller's watch list loses no namespace and names none it cannot read.
TenantsConfined == [](TenantLockedDown /\ ImageInScope /\ WatchKept /\ WatchReadable) /\ TrafficKept
=============================================================================
