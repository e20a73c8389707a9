--------------------------- MODULE PlatformUpdate ---------------------------
(***************************************************************************)
(* `mcp-runtime update` moves an installed platform to a release: it plans *)
(* against the live cluster, asks, and applies CRDs, platform objects,     *)
(* catalog namespaces, ConfigMap keys and finally the Deployments, one at  *)
(* a time.  A failed rollout is rolled back.  Every call to Kubernetes may *)
(* fail, and the process may be killed between any two of them, after      *)
(* which the administrator runs the command again.                         *)
(***************************************************************************)
EXTENDS Naturals, Sequences, SequencesExt

CONSTANTS
    Order,       \* the Deployments of the catalog, in catalog order
    Wired,       \* those whose wiring names a ServiceAccount of the release
    References,  \* those with an env variable that is a reference the release makes a literal
    Dependents,  \* those that read the release's ConfigMaps when they start
    ConfigMaps,  \* the ConfigMaps the release declares keys of, in manifest order
    Target,      \* the version of the release
    Newest,      \* the highest version an administrator may have installed
    MaxCommands, \* bound on how often the command is run
    MaxEdits     \* bound on the administrator's own changes

Workloads == ToSet(Order)

ASSUME UpdateAssumption ==
    /\ Order \in Seq(Workloads) /\ IsInjective(Order) /\ ConfigMaps \in Seq(ToSet(ConfigMaps))
    /\ Newest \in Nat /\ Target \in 1..Newest
    /\ MaxCommands \in Nat /\ MaxEdits \in Nat

VARIABLES
    site,   \* which one-off migrations setup has done at this installation
    deploy, \* [Workloads -> the Deployment's pod template]
    pods,   \* [Workloads -> what the running pods were started with]
    objs,   \* the other objects of the release
    cmd,    \* the command that is running, if any
    settled,\* history: a command completed the whole release and nobody has interfered since
    commands, edits

updateVars == <<site, deploy, pods, objs, cmd, settled, commands, edits>>
cluster == <<deploy, pods, objs>>

Template == [image: 1..Newest, wired: BOOLEAN, env: {"reference", "literal"}, hash: BOOLEAN]
Statuses == {"not-attempted", "skipped", "updated", "failed", "rolled-back", "rollback-failed"}
Options == [only: SUBSET Workloads, rollback: BOOLEAN]  \* --dry-run, --build and --allow-downgrade are parameters below
Phases == {"idle", "plan", "confirm", "build", "crds", "objects", "binding", "namespaces", "config",
           "workloads", "wait", "rollback", "rollbackWait", "restore"}
Installed(w) == [image |-> 1, wired |-> FALSE, env |-> IF w \in References THEN "reference" ELSE "literal", hash |-> FALSE]

NoPlan == [crds |-> FALSE, objects |-> FALSE, namespaces |-> FALSE, config |-> {}, rows |-> {}]
NoOptions == [only |-> {}, rollback |-> FALSE]
Idle == [phase |-> "idle", opts |-> NoOptions, plan |-> NoPlan, at |-> 0, touched |-> <<>>,
         status |-> [w \in Workloads |-> "not-attempted"], before |-> [w \in Workloads |-> Installed(w)],
         saved |-> <<>>, failed |-> FALSE, seen |-> 0]

-----------------------------------------------------------------------------
(* Planning.  The release pins every Deployment to Target, names a          *)
(* ServiceAccount for Wired and declares a key of the ConfigMap.            *)

\* validateOptions: --only never comes with a change of mode, which is why it drops configuration.
Scoped(o) == o.only # {}
Selected(o, w) == Scoped(o) => w \in o.only

\* configHashes: the hash annotation counts only if the ConfigMaps are part of the plan.
HashDrift(o, w) == w \in Dependents /\ ~Scoped(o) /\ ~deploy[w].hash

\* planWiring: what of the declared wiring the live Deployment does not have.
WiringDrift(o, w) ==
    \/ w \in Wired /\ ~deploy[w].wired
    \/ deploy[w].env = "reference"
    \/ HashDrift(o, w)

\* planComponent: a row of the plan changes if the image or the wiring differs.
Changes(o, w) == Selected(o, w) /\ (deploy[w].image # Target \/ WiringDrift(o, w))

\* A version lower than the running one is refused.
DowngradeBlocked(o, w) == Changes(o, w) /\ Target < deploy[w].image

\* A wiring that needs a ServiceAccount that neither exists nor is planned.
AccountBlocked(o, w) ==
    Changes(o, w) /\ w \in Wired /\ ~deploy[w].wired /\ ~objs.account /\ Scoped(o)

Blocked(o, allowDowngrade) ==
    \E w \in Workloads : (DowngradeBlocked(o, w) /\ ~allowDowngrade) \/ AccountBlocked(o, w)

\* refineCRDPlan, objectAction, planCatalogNamespaces and refineConfigMapPlan keep what differs from
\* the live objects; --only drops all of them.
CRDPlan(o) == ~Scoped(o) /\ ~objs.crds
ObjectPlan(o) == ~Scoped(o) /\ (~objs.account \/ objs.binding # "release")
NamespacePlan(o) == ~Scoped(o) /\ objs.namespaces # "release"
ConfigPlan(o) == IF Scoped(o) THEN {} ELSE ToSet(ConfigMaps) \ objs.config

BuildPlan(o) ==
    [crds       |-> CRDPlan(o),
     objects    |-> ObjectPlan(o),
     namespaces |-> NamespacePlan(o),
     config     |-> ConfigPlan(o),
     rows       |-> {w \in Workloads : Changes(o, w)}]

NeedsApply(p) == p.crds \/ p.objects \/ p.namespaces \/ p.config # {} \/ p.rows # {}

\* The installed wiring shows whether setup has moved the installation to audience exchange and to
\* TLS between the analytics services; the release would break one that it has not.
AudienceMigrated == site.audience
AnalyticsTLSMigrated == site.analyticsTLS

\* A catalog namespace is created or adopted only if it has the wanted scope.
CatalogsOwned == objs.namespaces # "foreign"

\* Scoped Grafana policies are kept only where setup has enabled them, and then the route must have moved;
\* --only writes no policies and does not ask.
GrafanaGate(o) == Scoped(o) \/ site.grafana # "unmigrated"

-----------------------------------------------------------------------------
UpdateInit ==
    /\ site \in [audience: BOOLEAN, analyticsTLS: BOOLEAN, grafana: {"migrated", "unmigrated"}]
    /\ deploy = [w \in Workloads |-> Installed(w)]
    /\ pods = [w \in Workloads |-> [template |-> Installed(w), config |-> {}]]
    /\ objs = [crds |-> FALSE, account |-> FALSE, binding |-> "old", namespaces |-> "absent", config |-> {}]
    /\ cmd = Idle
    /\ settled = FALSE
    /\ commands = 0 /\ edits = 0

Go(phase) == cmd' = [cmd EXCEPT !.phase = phase]
EndFailed == cmd' = [cmd EXCEPT !.phase = "idle", !.failed = TRUE]

\* run: options, manifest and cluster identity are checked before anything is read.
StartUpdate(o) ==
    /\ cmd.phase = "idle" /\ commands < MaxCommands
    /\ commands' = commands + 1
    /\ cmd' = [Idle EXCEPT !.phase = "plan", !.opts = o]
    /\ UNCHANGED <<site, cluster, settled, edits>>

\* Any of the checks may fail: the manifest, the connection, the expected cluster, a read.
PlanFails ==
    /\ cmd.phase = "plan"
    /\ cmd' = Idle
    /\ UNCHANGED <<site, cluster, settled, commands, edits>>

\* BuildPlan and its refinements, up to the confirmation.
PlanUpdate(dryRun, allowDowngrade) ==
    LET o == cmd.opts  p == BuildPlan(o) IN
    /\ cmd.phase = "plan"
    /\ AudienceMigrated /\ AnalyticsTLSMigrated /\ GrafanaGate(o) /\ ~Blocked(o, allowDowngrade)
    /\ p.namespaces => CatalogsOwned
    /\ IF dryRun \/ ~NeedsApply(p)
       THEN cmd' = Idle
       ELSE cmd' = [cmd EXCEPT !.phase = "confirm", !.plan = p, !.before = deploy, !.seen = edits]
    /\ UNCHANGED <<site, cluster, settled, commands, edits>>

Confirm ==
    /\ cmd.phase = "confirm"
    /\ cmd' \in {Idle, [cmd EXCEPT !.phase = "build"], [cmd EXCEPT !.phase = "crds"]}
    /\ UNCHANGED <<site, cluster, settled, commands, edits>>

\* buildAndPushChanged publishes images or ends the command; the cluster is untouched.
BuildImages ==
    /\ cmd.phase = "build"
    /\ cmd' \in {Idle, [cmd EXCEPT !.phase = "crds"]}
    /\ UNCHANGED <<site, cluster, settled, commands, edits>>

\* applyReleaseCRDs: a document may be written and never become Established.
ApplyCRDs ==
    /\ cmd.phase = "crds"
    /\ \/ objs' = [objs EXCEPT !.crds = @ \/ cmd.plan.crds] /\ Go("objects")
       \/ cmd.plan.crds /\ objs' \in {objs, [objs EXCEPT !.crds = TRUE]} /\ EndFailed
    /\ UNCHANGED <<site, deploy, pods, settled, commands, edits>>

\* applyPlatformObjects, the ServiceAccount and the roles: created or corrected in place.
ApplyPlatformObjects ==
    /\ cmd.phase = "objects"
    /\ \/ objs' = [objs EXCEPT !.account = @ \/ cmd.plan.objects] /\ Go("binding")
       \/ cmd.plan.objects /\ UNCHANGED objs /\ EndFailed
    /\ UNCHANGED <<site, deploy, pods, settled, commands, edits>>

\* A binding refers to a role that cannot be changed: writeObject deletes it and creates another.
ReplaceBinding ==
    /\ cmd.phase = "binding"
    /\ \/ (~cmd.plan.objects \/ objs.binding = "release") /\ Go("namespaces") /\ UNCHANGED objs
       \/ /\ cmd.plan.objects /\ objs.binding = "old"
          /\ objs' = [objs EXCEPT !.binding = "absent"] /\ UNCHANGED cmd
       \/ /\ cmd.plan.objects /\ objs.binding = "absent"
          /\ objs' = [objs EXCEPT !.binding = "release"] /\ UNCHANGED cmd
       \/ cmd.plan.objects /\ UNCHANGED objs /\ EndFailed
    /\ UNCHANGED <<site, deploy, pods, settled, commands, edits>>

\* applyCatalogNamespaces compares again: a namespace of another scope is refused.
ApplyCatalogNamespaces ==
    /\ cmd.phase = "namespaces"
    /\ \/ ~cmd.plan.namespaces /\ Go("config") /\ UNCHANGED objs
       \/ /\ cmd.plan.namespaces /\ CatalogsOwned
          /\ objs' = [objs EXCEPT !.namespaces = "release"] /\ Go("config")
       \/ cmd.plan.namespaces /\ UNCHANGED objs /\ EndFailed
    /\ UNCHANGED <<site, deploy, pods, settled, commands, edits>>

\* applyConfigMaps writes one ConfigMap after the other and remembers the ones it changed.
\* If a write fails the earlier ones are restored, when rollback is on.
ApplyConfigMaps ==
    LET todo == {i \in DOMAIN ConfigMaps : ConfigMaps[i] \in cmd.plan.config \ objs.config}
        next == ConfigMaps[Min(todo)]
    IN
    /\ cmd.phase = "config"
    /\ \/ todo = {} /\ Go("workloads") /\ UNCHANGED objs
       \/ /\ todo # {}
          /\ objs' = [objs EXCEPT !.config = @ \cup {next}]
          /\ cmd' = [cmd EXCEPT !.saved = Append(@, next)]
       \/ /\ todo # {} /\ UNCHANGED objs
          /\ cmd' = [cmd EXCEPT !.failed = TRUE, !.phase = IF cmd.opts.rollback THEN "restore" ELSE "idle"]
    /\ UNCHANGED <<site, deploy, pods, settled, commands, edits>>

-----------------------------------------------------------------------------
(* The Deployments.                                                         *)

\* The rows that are left, by their place in the catalog; cmd.at is the place of the last one dealt with.
Todo == {i \in DOMAIN Order : i > cmd.at /\ Order[i] \in cmd.plan.rows}
More == Todo # {}
Current == Order[Min(Todo)]

\* What the forward patch makes of a template: the planned image, wiring and hash, and nothing else.
Forward(w) ==
    [image |-> Target,
     wired |-> deploy[w].wired \/ w \in Wired,
     env   |-> "literal",
     hash  |-> deploy[w].hash \/ (w \in Dependents /\ ~Scoped(cmd.opts))]

\* The backward patch puts back what the plan recorded, except that a reference stays a literal.
Backward(w) == [cmd.before[w] EXCEPT !.env = deploy[w].env]

AlreadyCurrent(w) == deploy[w] = Forward(w)

WorkloadFails(w) ==
    [cmd EXCEPT !.phase = IF cmd.opts.rollback THEN "rollback" ELSE "idle",
                !.failed = TRUE, !.status[w] = "failed"]

SkipWorkload ==
    /\ cmd.phase = "workloads" /\ More /\ AlreadyCurrent(Current)
    /\ cmd' = [cmd EXCEPT !.at = Min(Todo), !.status[Current] = "skipped"]
    /\ UNCHANGED <<site, cluster, settled, commands, edits>>

\* The live Deployment cannot be read: it was not touched, the earlier ones were.
ReadFails ==
    /\ cmd.phase = "workloads" /\ More
    /\ cmd' = WorkloadFails(Current)
    /\ UNCHANGED <<site, cluster, settled, commands, edits>>

PatchWorkload ==
    /\ cmd.phase = "workloads" /\ More /\ ~AlreadyCurrent(Current)
    /\ LET w == Current  t == Append(cmd.touched, w) IN
       \/ /\ deploy' = [deploy EXCEPT ![w] = Forward(w)]
          /\ cmd' = [cmd EXCEPT !.phase = "wait", !.touched = t]
       \/ UNCHANGED deploy /\ cmd' = [WorkloadFails(w) EXCEPT !.touched = t]
    /\ UNCHANGED <<site, pods, objs, settled, commands, edits>>

\* The waiter returns when the pods run the template, or gives up by its timeout.
WaitForRollout ==
    /\ cmd.phase = "wait"
    /\ LET w == Current IN
       \/ /\ pods[w].template = deploy[w]
          /\ cmd' = [cmd EXCEPT !.phase = "workloads", !.at = Min(Todo), !.status[w] = "updated"]
       \/ pods[w].template # deploy[w] /\ cmd' = WorkloadFails(w)
    /\ UNCHANGED <<site, cluster, settled, commands, edits>>

\* Mutant: a rollback that failed is reported as done.
Mutant_RollbackForgetsFailed ==
    /\ cmd.phase = "rollback" /\ cmd.touched # <<>>
    /\ cmd' = [cmd EXCEPT !.touched = Front(@), !.status[Last(cmd.touched)] = "rolled-back"]
    /\ UNCHANGED <<site, cluster, settled, commands, edits>>

\* Rollback goes through the touched Deployments from the last to the first.
RollbackPatch ==
    /\ cmd.phase = "rollback" /\ cmd.touched # <<>>
    /\ LET w == Last(cmd.touched) IN
       \/ deploy' = [deploy EXCEPT ![w] = Backward(w)] /\ Go("rollbackWait")
       \/ /\ UNCHANGED deploy
          /\ cmd' = [cmd EXCEPT !.touched = Front(@), !.status[w] = "rollback-failed"]
    /\ UNCHANGED <<site, pods, objs, settled, commands, edits>>

RollbackWait ==
    /\ cmd.phase = "rollbackWait"
    /\ LET w == Last(cmd.touched)
           Ended(s) == [cmd EXCEPT !.phase = "rollback", !.touched = Front(@), !.status[w] = s]
       IN \/ pods[w].template = deploy[w] /\ cmd' = Ended("rolled-back")
          \/ pods[w].template # deploy[w] /\ cmd' = Ended("rollback-failed")
    /\ UNCHANGED <<site, cluster, settled, commands, edits>>

Deployed ==
    /\ cmd.phase = "rollback" /\ cmd.touched = <<>>
    /\ Go("restore")
    /\ UNCHANGED <<site, cluster, settled, commands, edits>>

\* restoreConfigMaps comes after the Deployments, in reverse order; its own errors are ignored.
RestoreConfigMaps ==
    /\ cmd.phase = "restore"
    /\ IF cmd.saved = <<>>
       THEN Go("idle") /\ UNCHANGED objs
       ELSE /\ cmd' = [cmd EXCEPT !.saved = Front(@)]
            /\ objs' \in {objs, [objs EXCEPT !.config = @ \ {Last(cmd.saved)}]}
    /\ UNCHANGED <<site, deploy, pods, settled, commands, edits>>

Complete ==
    /\ cmd.phase = "workloads" /\ ~More
    /\ Go("idle")
    /\ settled' = (settled \/ (~Scoped(cmd.opts) /\ cmd.seen = edits))
    /\ UNCHANGED <<site, cluster, commands, edits>>

\* The process ends where it stands: a signal, a lost terminal.
Kill ==
    /\ cmd.phase # "idle"
    /\ cmd' = Idle
    /\ UNCHANGED <<site, cluster, settled, commands, edits>>

-----------------------------------------------------------------------------
(* The rest of the world.                                                   *)

\* The Deployment controller replaces the pods; they read the ConfigMaps as they start.
Rollout(w) ==
    /\ pods[w].template # deploy[w]
    /\ pods' = [pods EXCEPT ![w] = [template |-> deploy[w], config |-> objs.config]]
    /\ UNCHANGED <<site, deploy, objs, cmd, settled, commands, edits>>

Unattended == cmd.phase = "confirm" \/ cmd = Idle
Interfere == edits < MaxEdits /\ Unattended /\ edits' = edits + 1 /\ settled' = FALSE

\* kubectl set image, between two commands or while one waits to be confirmed.
SetImage(w, v) ==
    /\ Interfere /\ deploy[w].image # v
    /\ deploy' = [deploy EXCEPT ![w].image = v]
    /\ UNCHANGED <<site, pods, objs, cmd, commands>>

\* Somebody else takes the name of a catalog namespace.
TakeNamespace ==
    /\ Interfere /\ objs.namespaces = "absent"
    /\ objs' = [objs EXCEPT !.namespaces = "foreign"]
    /\ UNCHANGED <<site, deploy, pods, cmd, commands>>

ApplyStep == ApplyCRDs \/ ApplyPlatformObjects \/ ReplaceBinding \/ ApplyCatalogNamespaces \/ ApplyConfigMaps
WorkloadStep ==
    \/ SkipWorkload \/ ReadFails \/ PatchWorkload \/ WaitForRollout
    \/ RollbackPatch \/ RollbackWait \/ Deployed \/ RestoreConfigMaps \/ Complete
CommandStep ==
    \/ PlanFails \/ \E dryRun, allowDowngrade \in BOOLEAN : PlanUpdate(dryRun, allowDowngrade)
    \/ Confirm \/ BuildImages \/ ApplyStep \/ WorkloadStep

UpdateNext ==
    \/ \E o \in Options : StartUpdate(o)
    \/ CommandStep
    \/ Kill \/ TakeNamespace
    \/ \E w \in Workloads : Rollout(w) \/ \E v \in 1..Newest : SetImage(w, v)

UpdateSpec == UpdateInit /\ [][UpdateNext]_updateVars

-----------------------------------------------------------------------------
UpdateTypeOK ==
    /\ deploy \in [Workloads -> Template]
    /\ pods \in [Workloads -> [template: Template, config: SUBSET ToSet(ConfigMaps)]]
    /\ objs \in [crds: BOOLEAN, account: BOOLEAN, binding: {"old", "absent", "release"},
                 namespaces: {"absent", "foreign", "release"}, config: SUBSET ToSet(ConfigMaps)]
    /\ cmd.phase \in Phases /\ cmd.opts \in Options /\ cmd.status \in [Workloads -> Statuses]
    /\ settled \in BOOLEAN

\* What the release needs is there before what needs it: a Deployment that a full update has touched
\* finds the schemas, the permissions, the namespaces and every ConfigMap key of the release, until the last
\* of them is rolled back, and no Deployment names a ServiceAccount that does not exist, with --only either.
DependenciesFirst ==
    /\ \A w \in ToSet(cmd.touched) : ~Scoped(cmd.opts) =>
            /\ objs.crds /\ objs.account /\ objs.binding = "release"
            /\ objs.namespaces = "release" /\ objs.config = ToSet(ConfigMaps)
    /\ \A w \in Workloads : deploy[w].wired => objs.account

\* So the pods of a Deployment that a full update has touched start on the whole configuration of the
\* release.  The ones a rollback starts do so as well: restoreConfigMaps comes after them.
StartedOnRelease ==
    [][\A w \in ToSet(cmd.touched) :
            ~Scoped(cmd.opts) /\ pods'[w] # pods[w] => pods'[w].config = ToSet(ConfigMaps)]_updateVars

\* What the command reports when it ends is so: a Deployment it calls updated has the image of the release
\* and its pods run the template; one it calls rolled back has the template recorded by the plan again, but
\* for a literal, and its pods run that template, whatever configuration they started on; and after a failure
\* with rollback no Deployment is still called updated.
Restored(w) == deploy[w] = [cmd.before[w] EXCEPT !.env = deploy[w].env] /\ pods[w].template = deploy[w]
ReportIsTrue ==
    cmd.phase = "idle" => \A w \in Workloads :
        /\ cmd.status[w] = "updated" => deploy[w].image = Target /\ pods[w].template = deploy[w]
        /\ cmd.status[w] = "rolled-back" => Restored(w)
        /\ cmd.failed /\ cmd.opts.rollback => cmd.status[w] # "updated"

\* A second run of a release that has been applied changes nothing.
RerunIsNoOp == settled => \A o \in Options : ~NeedsApply(BuildPlan(o))

\* A namespace of another scope is never taken over, not even one that appears after planning.
ForeignCatalogsKept == [][objs.namespaces = "foreign" => objs'.namespaces = "foreign"]_updateVars
\* An update tells the truth and can be run again: what workloads need comes before them and is what their
\* pods start on, the report names the templates the cluster holds after failures and rollbacks, a second run
\* changes nothing, and another scope's namespaces are left alone.
UpdateSound ==
    /\ [](UpdateTypeOK /\ DependenciesFirst /\ ReportIsTrue /\ RerunIsNoOp)
    /\ StartedOnRelease /\ ForeignCatalogsKept
=============================================================================
