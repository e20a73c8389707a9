# A verification project for mcp-runtime

mcp-runtime runs Model Context Protocol servers on Kubernetes and puts a gateway
in front of each of them. The gateway authenticates a caller, decides by policy,
grant and session whether a tool may be called, forwards the call and reports it.
A platform API keeps accounts, agents, sessions and credentials in PostgreSQL; a
runtime API and an operator turn servers and grants into Kubernetes objects; an
event pipeline (ingest, Kafka, processor, ClickHouse) stores the audit trail; an
adapter on the user's machine holds the certificates of enrolled sessions; a
command line installs, updates and diagnoses all of it.

The TLA+ modules here model the parts of that system whose correctness depends
on the order in which things happen, on calls that fail half way, on limits that
are reached, or on caches that are behind. Each module is a translation of Go
code; `PROJECT.json` ("map") names the lines behind every definition.

Contents: [Running](#running), [Inventory](#inventory), [Modules](#modules),
[Runs](#runs), [Bounds](#bounds), [Fairness](#fairness),
[Disagreements](#where-code-and-documents-disagree), [Proofs](#proofs),
[Plan](#plan), [Not modelled](#not-modelled).

## Running

    tlc -config Traffic.cfg MCTraffic            # any run of PROJECT.json
    tlapm ClusterProofs.tla                       # the proofs of one module; the others are
                                                 # Idempotency-, SessionStore-, SessionSync-, Gateway-,
                                                 # Identity-, Runtime- and WorkstationProofs

Each run ends within four minutes on two workers. The two runs marked
`violation` are expected to end with a counterexample; see "Where code and
documents disagree".

## Inventory

| Component | State | Operations | What makes it hard |
|---|---|---|---|
| Gateway pipeline and policy cache (`services/mcp-gateway/filter_*.go`, `policy_cache.go`) | last good policy, the requests under way, the session view | five filters, reload, audit | reloads, revocations and stale views between two filters |
| Policy evaluator (`pkg/policy`) | none | validate, compile, evaluate | folding grants one by one, an index, monitor mode |
| Gateway idempotency (`idempotency*.go`) | keyed entries, in-flight counter | begin, complete, tombstone, release | concurrent retries, expiry, ambiguous outcomes, nested quotas |
| Gateway session sync (`session_sync.go`) | view, epoch, cursor | poll, lookup, invalidate | calls in flight while others invalidate, paging, outages |
| Upstream resilience (`upstream_resilience.go`) | breaker, permits | acquire, round trip, close | late answers, cancelled probes, leaks on error paths |
| Analytics dispatcher (`analytics.go`) | queue, workers, closed flag | emit, start, stop | lazy start and shutdown racing with emitters |
| Certificate, CA and token reload (`cert_reload.go`, `pkg/serviceutil`) | key pair, roots, connections, token | watch, reload, disconnect | two reads of a pair that is swapped between them |
| Ingest and processor | partition, committed offset, batch | fetch, batch, flush, commit | crashes, failing inserts, undecodable messages |
| Session store (`platformstore/sessions.go`, `session_enrollment.go`) | sessions, change log, fences | put, revoke, enroll, retire, deactivate | requests checked before a fence fell; a pruned log |
| Accounts, teams, login (`platformstore`, `auth/lockout.go`) | accounts, memberships, keys, lockout buckets | sign-in, deactivate, seed, record | checks before transactions, the tracker at its limit |
| Platform and registry tokens (`platformauth`, `registryauth`) | tokens out, pull keys, resolver cache | sign in, exchange, scope, verify | everything a token rests on may be gone |
| Credential broker and sign-in (`platformstore/credentials.go`, `credentialapi`, `mcp-gateway/credential`) | sources, bindings, verdicts, forms, codes, stored values | three-phase hand-out, token review, form, exchange | reads outside any lock; budgets and a cache at their limits |
| Runtime API (`services/runtime-api`, `pkg/access`) | Kubernetes objects, sessions | publish, retire, grant, enroll, deploy, push | every handler is a sequence of calls that fail apart |
| Operator (`internal/operator`) | Kubernetes objects, conditions | reconcile, sweep, own routes | port changes, missing Secrets, nothing that wakes it |
| Adapter daemon, proxy and service (`internal/adapterd`, `agentadapter`, `adapterservice`) | profiles, key pairs, routes, listeners | enroll, renew, reload, forward, stop | renewal against use, probes against removal |
| Platform update (`internal/cli/update`) | the installed release, images | plan, build, apply, roll back | a kill between any two writes; parallel builds |
| Setup (`internal/cli/setup`, `internal/cli/registry`) | the cluster it installs | some sixty calls in order | a run that ends anywhere and is run again, over old clusters |
| Doctor (`internal/cli/cluster/doctor`) | helper pods, a smoke server | its checks, cleanup | checks that give way to one another; cleanup against the operator |
| analytics-api, UI, other commands | none or sessions of others | queries, single requests | little |

They interact in these places. The gateway reads sessions from the platform's
change log over HTTP (`SessionSync` over `SessionLog`, which `SessionStore`
implements). The filters call the evaluator, the idempotency store and the
breaker in memory. The runtime API's handlers call the session store for issue,
enrollment, retirement and cleanup (`ServerRetirement` takes the answers and
fences of `SessionStore` at those calls). The operator and the runtime API meet in
Kubernetes objects. The adapter meets the platform in two calls, issue and
certificate. Where a component is used by another, its module is used or the
other states the answers it may get.

## Modules

    MCIdempotency    Idempotency                                  <- IdempotencyProofs
    MCSessionStore   SessionStore  implements  SessionLog         <- SessionStoreProofs
    MCSessionSync    SessionSync   reads       SessionLog         <- SessionSyncProofs
    MCTraffic        GatewayPipeline  UpstreamResilience          <- GatewayProofs
                     PolicyEvaluator
                     AdapterDaemon  AdapterProxy  AdapterService  <- WorkstationProofs
    MCPlatform       ServerRetirement  TeamProvisioning
                     RuntimeStores                                <- RuntimeProofs
                     Accounts  LoginLockout  PlatformTokens
                     SignIn  CredentialBroker                     <- IdentityProofs
    MCOperator       OperatorPass  RouteOwnership                 <- ClusterProofs
    MCInstallation   PlatformUpdate                               <- WorkstationProofs
                     SetupTrust <- SetupRegistry <- SetupOperator <- SetupPipeline
                     Doctor                                       <- ClusterProofs
    MCProgress       GatewayPipeline  UpstreamResilience  GatewayReload
                     AnalyticsDispatcher  EventProcessor          <- GatewayProofs
                     ImageBuilds                                  <- WorkstationProofs

Each proof module EXTENDS the components whose theorems it holds; the components in
it share no variables, so each theorem is about one specification.

An MC module that names several components runs them side by side: `part`, chosen
at the start, says which of them a behaviour is about, the others rest. The sum
of their state spaces is explored and not the product. Components whose
interaction matters are one module, or use one another.

Conventions. Definitions keep the names of the functions they translate. An
action is what runs between two points where something else can intervene: a
critical section, a transaction, a call to Kubernetes. A run's property is often
a conjunction that a comment names at the end of its module; its parts are
definitions with comments of their own, and are listed below. A definition whose
comment begins with "Mutant:" is a deliberately wrong variant of a definition;
no specification uses it. It shows that the property named in `PROJECT.json`
notices that mistake.

### The gateway

`Idempotency`: `entries`, `inflight`, `seq` are the fields of
`memoryIdempotencyStore`; a handler is a goroutine in `idempotentUpstream`. Each
store operation is one action because it holds the store's mutex throughout. Between
two of them come the actions of `forwardUpstream`: `Refuse` (before dispatch),
`Dispatch`, and what comes back. `sealed` and `latest` are histories; `answer` is
what the last step told a client from the store.

`SessionSync` runs a gateway against `SessionLog`. A call has a start, a moment at
which the platform serves it and a moment at which the answer is applied. Only ages
are kept of time. `Restart` is a new gateway process; `PanicInSync` is the write to
a nil map that ends the process.

`GatewayPipeline`: a request is an exchange that passes inspect, policy, auth, authz
and upstream, each with its early returns; a reload, a revocation, a stale view, a
new credential may come between any two. What is in a request is one of ten shapes
(a tool call with this identity, an unparsable one, a list, ...), what is in a
policy one of six documents. Every exchange that ends leaves one audit event, but for
one kind: a caller proved to be the platform's own inventory probe leaves none
(`proxy.go:250-257`), and `AuditedOnce` says exactly that. A policy in observe mode is
exempt from the check for a stale view (`filter_authz.go:38`).

`PolicyEvaluator` translates validation, compilation and evaluation as operators;
its behaviours take one document, tool and session each, and compare the decision
with a reading of the grants as a set that knows no order.

`UpstreamResilience`, `AnalyticsDispatcher`, `GatewayReload`: lock regions, channel
operations and file reads are the actions; `period` and `streak` are histories of
the breaker. In `AnalyticsDispatcher` a stop can fall between the check of
`analyticsClosed`, the fetch of the queue and the send.

`EventProcessor`: one partition, a message is its offset. The broker and ClickHouse
are external: an insert or a commit may fail with or without its effect. A crash
stands for every end of the process and every loss of the partition.

### The platform

`SessionStore` has the tables. All mutations lock the one row of
`session_sync_state` first and hold it until they commit, so each is one action; a
transaction that fails rolls back and is no step. `SessionLog` is the abstract
specification: one server's active sessions, its changes, the cursor arithmetic and
the two reads. `ImplementsLog` is the refinement, for a watched server, of the
tables onto it: revoked rows vanish from the view, changes of other servers become
steps with the identity `Other`.

`Accounts`: a request resolves its caller, with role and teams, and reaches the
database later; each transaction is an action. `LoginLockout`: a login asks, checks
the password and records, three holds of the tracker's lock. `PlatformTokens`: what
was signed stays out until it expires while accounts, teams and keys change.

`CredentialBroker`: a hand-out takes its unlocked snapshot in two reads, asks Kubernetes
for the server, the grant and the server again for the binding, reads the provider, takes
the session-state lock for a second read, asks Kubernetes the same three questions, and
commits audit row and answer together; each of these is an action. The lock is the
database's: it holds neither Kubernetes nor the clock still. A server retired, a grant
disabled or a session expired between its last read and the commit is therefore handed out
to once more, and `HandedInForce` claims only what the code gives: what the lock covers
stands at the commit, everything else stood at some moment since the provider answered
(the history `stood`). Its second half, `BrokerAuthSpec`: verdicts, renewals and budgets over
time, at the cache's limit. `SignIn`: forms with parallel submissions, codes,
tokens and stored values, with their limits and lifetimes.

`ServerRetirement`: up to four requests among publish, update, retire, grant, apply,
toggle, moderate, issue, certificate and abandon for one server name, each a sequence
of calls of which any may fail. `TeamProvisioning`: the namespace object by object,
tenants' deployments and the ingress controller's watch list under two replicas, with
namespaces deleted at any time, also between two calls of a task at work in them.
`RuntimeStores`: the key Secret; image pushes from upload to helper pod, any number at
once, with their transfers, purges and late fetches; the inventory cache by its clock.
Answers of Kubernetes may be lost; the death of a replica with its uploads is left out.

### The operator

`OperatorPass`: a pass over one server call by call, with the objects it creates,
their readiness, its requeues, the canary that is made and removed, and the sweep of a
restarted operator. What a pass asks before a write that depends on it (the grants for
the policy, the pods of the new port, Traefik's restrictions) is a step of its own, whose
answer the pass carries (`found`) while the cluster goes on; so is each of the deletions
of a certificate and its Secret. A failed call ends the pass with status Error, except
those that write no status (`Unreported`). Whether an older server has the route is the
environment's choice (`contested`): a refused pass removes the Ingress and comes back.
Reads see the cluster as it is: the model assumes that the informer cache has caught up,
that the garbage collector is at once and that a name is not created again under a running
pass. An event may queue the server at any time, the operator's own writes included.
`RouteOwnership`: three servers whose routes overlap pairwise; each pass lists, decides
and installs in separate steps. Beside it runs the controller that tells the bundled
authorization server which audiences to accept: it collects them from the servers that own
their route and use that server (`auth`, where an owner may name an audience himself),
publishes one only if its path is the server's and its host the server's, the default one or
the issuer's, gives up when one is also registered for the credential gateway, and writes
what differs. `applyAuthWiring` is that registration, by a command, at any time.

### The workstation

`AdapterDaemon`: profiles, their secrets and routes; everything that takes the
daemon's lock is split at its calls, and the reachability probe takes no lock.
`AdapterProxy`: flags, both identity modes, retries, rotation and shutdown.
`AdapterService`: listeners per profile over generations of the store, and the
managed binary. A daemon ends in steps: the control operation is closed
(`ExitBegins`), the HTTP server is drained, the lock is released; a reload that was
waiting for the control mutex runs in between and may start workers nobody waits for,
which end with their cancelled context. `Stop` waits for the lock unless no job is loaded
and nobody answers on the socket: then it returns at once (`launchd.go:168-172`). The
daemon is launchd's; lifecycle commands of the service come one at a time.

### Installation

`SetupTrust` begins with a frame: a plan is a sequence of calls; a call that fails ends the
run; a run can be started again under the same or another plan. It and the modules above
it say what each call changes and when a plan has it. `SetupPipeline` adds analytics,
Grafana and preflight.
`PlatformUpdate`: planning against the live cluster, each write, roll-outs, rollback
and the report; edits of others in between. A plan's rows and ConfigMaps are sets, which
the command deals with in the order of the catalog. `ImageBuilds`: one goroutine per image
with the limit, retries and the shared cancellation. `Doctor` gives each check
the faults it reports, the part it presupposes and what a failing call makes of
it, and runs them in order with the pods and the smoke server.

## Runs

| Run | Instance | Shows |
|---|---|---|
| idempotency_window | 2 handlers, 3 keys of 2 sessions, 2 requests, 2 replies, clock to 2 | `TypeOK`, `OwnersAndReservations`, `TombstonesKept`, `ReplayIsLatest`, `NoReExecution` |
| idempotency_quotas | 2 handlers, 6 keys of 3 sessions of 2 principals, limits ordered as the defaults are | `InflightExact`, `QuotasHold` |
| session_store | 2 identities, 2 servers, an agent, a human, 3 changes of which one is kept, 2 starts | `SessionsFenced`, `ImplementsLog` |
| session_sync | 2 sessions, 3 changes of which two are kept, pages of one, 2 epochs | `ViewSound` |
| session_sync_live | 1 session, 2 changes, 2 epochs | `Converges`, `RevocationTakesEffect` |
| session_sync_rejection | the same | violation: `RejectionInvalidates` |
| traffic | 2 requests among 11 cases and 6 documents; pairs of 11 grants; 3 upstream calls; 2 profiles; 2 proxied requests; 2 generations of a service's store | `CallsAuthorized`, `DecisionsFollowGrants`, `AdmissionSound`, `ProfilesSeparate`, `ProxyHonest`, `ServiceHonest` |
| platform | 6 scenarios of 4 requests; 2 plans of 3 provisioning tasks; 4 key calls; 2 pushes with 2 fetches; 3 inventories; 2 accounts; 3 addresses; 2 repositories; 3 submissions; 2 sources; 3 pod tokens | `ServerAuthority`, `TenantsConfined`, `StoresKeep`, `AccountsSound`, `LocksKept`, `TokensBounded`, `SignInSound`, `HandOutsSound`, `ReviewsSound` |
| operator | one server, each part of its life (ports; certificates and a canary; invalid and unresolved edits and a contested route; an unparsed edit and removal) with 2 edits and a failure; 3 servers on overlapping routes, 2 moves | `OperatorSound`, `OperatorConverges`, `RoutesConverge` |
| route_conflict | 3 servers with adapter certificates, 1 move | violation: `RefusedUnrouted` |
| installation | 2 updates of 2 Deployments with an edit; 2 setups under 6 plans over 2 clusters with an event; the doctor's suites on 3 clusters with one of about 70 faults or a failing call | `UpdateSound`, `RegistryUsable`, `ServicesTrusted`, `DoctorSound` |
| progress | a policy file, three mounts, 2 upstream calls, 3 emitters with 2 workers, 3 images with 2 builders, 6 messages with 2 crashes | `FilesTakeEffect`, `NothingStuck`, `BuildersSound`, `EventsAccounted`, `NoLoss`, `EventuallyStored` |

The parts of the conjunctions, each with its own comment in its module; every one
also has its module's type invariant:

* `QuotasHold`: `TombstoneBudget`, `EntryQuotas`, and `RefusalLosesNoReply` (a
  refused reservation has evicted nothing).
* `SessionsFenced`: `AuthorityFenced` (no live session behind a fence),
  `IdentityNeverRebound`.
* `ViewSound`: `LogReplays`, `ViewMatchesCursor`, `BoundedStaleness`.
* `CallsAuthorized`: `ForwardedOnlyIfAuthorized` (one valid document, the same for
  authentication and authorization, accepts what is forwarded),
  `CredentialsForOwnSession`, `AuditedOnce`, `LastKnownGood`.
* `DecisionsFollowGrants`: `GrantsMeanWhatTheySay`, `IndexFindsEveryGrant`,
  `MonitorDoesNotDecide`, `DelegatedFailsClosed`.
* `AdmissionSound`: `PermitsExact`, `OneProbe`, `CountsCurrentFailures`,
  `OnlyProbeCloses`.
* `ProfilesSeparate`: `CredentialSeparation`, `ConsentKept`, `ServingKept`.
* `ProxyHonest`: `NeverReplayed`, `CredentialsPinned`, `OneIdentity`,
  `NothingLeftRunning`, `SignalCancels`.
* `ServiceHonest`: `OldIdentityGone`, `NoExpiredCredential`, `ReplacedWhenStopped`,
  `BadStoreKeepsProfiles`.
* `ServerAuthority`: `AuthorityNotInherited` (a session acts on the deployment its
  grant was made for), `DeadServerNoSession`, `EnrollmentSurvives`,
  `RetiresWhatItRead` (a retirement takes only a server, sessions and grants it read under
  its name, which a slow one may find to be a replacement's).
* `TenantsConfined`: `TenantLockedDown`, `ImageInScope`, `WatchKept`,
  `WatchReadable`, `TrafficKept`.
* `StoresKeep`: `KeysKept`, `NothingServedAfterPush`, `TransferKept` (nobody takes a
  push's archive while its helper waits for it), `InventoryBounded`, `OneGeneration`.
* `AccountsSound`: `AdministratorRemains`, `TombstoneHoldsNothing`,
  `DeactivationFinal`, `DeactivationKeepsOwners`.
* `LocksKept`: `LockNeverShortened`, `EvictionSparesLocks`.
* `TokensBounded`: `RegistryStaleness`, `NodesOnlyPull`, `ExchangeNeverOutlives`,
  `RevokedKeyRefused`.
* `SignInSound`: `OneWinner`, `SingleUse`, `NewSignInKept`.
* `HandOutsSound`: `HandedIsCurrent` (the value is that of the source the binding names
  at the commit), `HandedInForce`.
* `ReviewsSound`: `VerdictStaleness`, `KnownCallerNotStarved`, `RejectedShedFirst`.
* `OperatorSound`: `BoundaryBeforePods` (no pod outside its ingress boundary),
  `QuietMeansReconciled` (the operator never falls asleep on unfinished work),
  `ServedThroughPortChange`, `RouteSurvivesSecretGaps`.
* `OperatorConverges`: with changes and failures at an end, what the server asks for is
  there, unless its route is another's.
* `RoutesConverge`: `OwnersDisjoint`, `AudiencesUnshared` (two servers share an audience on
  the default host only), `SingleBackend`, `AudiencesFollow` (what is accepted ends up as
  what owners publish, beside what is registered).
* `UpdateSound`: `DependenciesFirst`, `ReportIsTrue`, `RerunIsNoOp`,
  `ForeignCatalogsKept`, `StartedOnRelease` (pods that a command which took effect has
  started run on the release's configuration).
* `RegistryUsable`: `GuardResolves`, `PullersFirst`, `CopiesAgree`,
  `AuthenticatedEnd`, `TokenNeverOff`, `JournalOutlivesKeys`, `CredentialsStable`,
  `PreflightClean`.
* `ServicesTrusted`: `WebhookTrusted`, `AuthWired`, `TrustBeforeUse`,
  `SecretAccessKept`, `SignedRootKept`, `QuorumKept`, `ScopedGrafana`.
* `DoctorSound`: `FaultsReported`, `NoFalseAlarm`, `ProbesRemoved`.
* `FilesTakeEffect`: `PolicyApplied`, `RotationServed`, `WithdrawnRootRefused`,
  `TokenKept`. `NothingStuck`: `AdmitsAgain`, `StopEnds`, `BuildsEnd`.
* `BuildersSound`: `ImagesBeforeRollout`, `BuildersBounded`. `EventsAccounted`:
  `DrainedOnStop`, `AccountedBeforeStop`. `NoLoss`: `LostOnlyExposed`.

## Bounds

Why they are enough to be interesting.

* Idempotency: more keys than any quota admits, one more tick than a window, as many
  completions as it takes to fill a quota and evict.
* Session store: one change more than it takes to issue, fence and lift; a bulk
  revocation over both identities removes one of its own changes from the log.
  Session sync: more changes than the log keeps, more than fit a page, a reset by
  epoch and one by floor.
* Gateway pipeline: two requests of which the second is fixed, so that a reload and
  another event can fall between any of their steps; documents of every mode of
  authentication, two that differ in the audience only, and an invalid one.
* Evaluator: pairs of grants that agree and disagree in status, mode, subject, trust,
  side effect and rules. A fold that is wrong for more than two grants and right for
  every pair would combine maxima of three; the reference is checked with two.
* Upstream: a third request is admitted before the breaker opens and answers after it
  has recovered. Dispatcher: more handlers than workers, more events than the queue.
  Processor: a full batch that failed with an undecodable message next.
* Adapter: certificates that last shorter than a session, one renewal and one
  reconnection of each of two profiles; a call let in under each of two identities.
* Runtime API: two retirements and a publication between them, with an issue, a
  grant or an enrollment open across all three. Provisioning: two namespaces, one
  deletion, at any time; two deployments, of two members, beside the reconciliation at
  start, and a deployment and a publication in two namespaces beside a team's deletion.
* Stores: two creations beside a creation and a revocation of one key; two pushes of one
  replica or two, one admitted and one refused by scope, each with a late fetch; one
  inventory more than the cache keeps, two probes at a time, of two generations.
* Accounts: an administrator and one other, so that each can deactivate the other;
  two requests under way. Lockout: one address more than the tracker keeps, and
  failures enough for two levels. Tokens: two tokens over two teams; a lifetime is
  one tick, a sign-in three. Broker: a second revision of a name, or a second change of
  what a session rests on, around a hand-out, and not both (`FewChanges`). Review: a cache
  one entry smaller than the callers.
* Operator: two ports changed and changed back, a change between adapter certificates
  and a plain server with a canary, an edit that is invalid, one the operator cannot
  resolve and one it cannot parse, a route lost and won back, a removal, each with a
  failure of any call. Routes: one
  host-less route that overlaps two others that do not overlap each other; four
  specifications of authentication, one of which names the audience of another's route on
  the default host, and one registered resource. The issuer's host counts only where no
  default host is set, which the proof covers and the run does not.
* Update: two commands with a kill at any call, a later release, an edit by somebody
  else. Setup: the six plans cover each mode of TLS, registry certificate, workload
  issuer, authentication, test mode and external registry; one of the two runs takes
  the production plan (`Rerun`). The older cluster has what earlier releases left, also a
  runtime-api that makes namespaces for the length of a run (`AppearsIn`); seven conditions stop a
  preflight or warn in it (`Blockers`).
* Doctor: every fault alone, some of them appearing during the run, or one call
  failing: two independent faults are not combined.
* Progress: smaller instances of the same modules, since each temporal property is
  checked over the whole graph.

Deadlock checking is off where the bounds, or the end of the events, stop the
model; it is on in `session_sync`, which never stops.

## Fairness

* `SessionSync.Fairness`: time passes, the polling goroutine loops for ever, a call
  ends (the client's timeout is 3 s). Nothing is assumed of the platform, and
  `RevocationTakesEffect` needs nothing. `Converges` assumes `Answers`: calls
  that are made again and again are served, and their answers applied, again and
  again. It is a premise of that property, not of the code.
* `OperatorPass.OperatorFairness`: the work queue hands out what is queued and a pass
  goes on, the kubelet starts pods and cert-manager issues. `RoutesFairness`: a
  server's pass runs again at the resync at the latest.
* `MCProgress.MCFairness`: tickers fire, calls end by their timeouts, goroutines that
  can run do. Weak fairness of a disjunction over parts is weak fairness of each
  step, since the parts exclude each other for good. The processor's select
  chooses at random among ready cases, hence strong fairness of its tick; an insert
  that is tried again and again succeeds in the end, which is the one assumption
  about ClickHouse. A stream may stay open for ever, and no write to a mounted file
  is assumed: `PolicyApplied`, `RotationServed` and `WithdrawnRootRefused` speak of
  files that stay as they are from some point on. Nothing is assumed of disconnections
  either: a certificate is verified when a connection is made, by a handshake or on a
  ticket, and an open connection lives on under a withdrawn root until its client or
  the idle timeout ends it. `WithdrawnRootRefused` therefore speaks of new ones.

## Where code and documents disagree

Two runs end with a counterexample:

1. `RejectionInvalidates`: a lookup that is answered 401 or 403 empties the view;
   a page of changes that was already on its way is then applied to it and makes
   it fresh again. `docs/contributor/gateway-session-sync.md:107-109` says a
   rejection invalidates cached authority at once. The view is empty, so sessions
   are looked up one by one rather than wrongly admitted, but if the page holds
   an upsert it is written to a nil map and the process ends.
2. `RefusedUnrouted`: `internal/operator/route_ownership.go:73-75` says that the
   ownership check removes a refused server's Ingress "so the route has a single
   backend". A server with adapter certificates is served by a Traefik IngressRoute
   instead, which the check leaves: after an older server moves onto its route both
   answer on it. `SingleBackend` holds for servers served by a plain Ingress.

Other disagreements that the models follow the code in:

* A reservation that meets a full session quota and a full principal quota evicts
  twice, although the first eviction has made the room
  (`idempotency_store.go:192-224`); `docs/internals/gateway-idempotency.md:79`
  describes one eviction. The cost is a lost replay.
* A probe that its client cancels, or that finds no permit, re-opens the breaker
  (`upstream_resilience.go:78`); `docs/platform-services.md:278-280` says that
  cancellations do not count.
* An event offered while the dispatcher stops can vanish uncounted, or panic on the
  closed channel with the mutex held (`analytics.go:87`); `metrics.go:106` calls the
  counter the total of dropped events. `AccountedBeforeStop` therefore speaks of the
  time before the stop.
* `docs/internals/registry-auth.md:18-19` says that rerunning setup resumes an
  interrupted activation; `EnableNativeAuthForSetup` (`native_auth.go:92`) returns as
  soon as the registry has `REGISTRY_AUTH=token`. Only `registry enable-auth` resumes.
* The credential Secrets are applied one by one, platform-api's DSN before Postgres's
  own password (`pkg/platforminventory/credentials.go:12-22`). A first run that ends
  between the two leaves a DSN that no rerun repairs.
* `pkg/access/retirement.go:48` speaks of an "exact server identity"; lines 62-68
  select the grants by namespace and name, and `servers.go:751-770` collects every UID stored
  for the name. A slow second retirement fences the replacement's UID, revokes and deletes its
  sessions and deletes its grant. The replacement's server object and credential Secret are
  safe, because they are deleted by UID; `RetiresWhatItRead` says of the rest only that
  nothing goes that the retirement did not read.
* `internal/adapterservice/launchd.go:64` says that an install replaces the binary "only after
  stopping the previous service"; `Stop` returns without waiting for the lock when no job is loaded and
  the socket is silent (168-172), as it is while a daemon that was booted out drains.
  `ReplacedWhenStopped` leaves that path out.
* `internal/cli/update/update.go:112-113` says that a rollback restores the previous keys.
  It does so in the ConfigMaps, and ignores errors as it writes them; the Deployments are rolled
  back first (`apply.go:199-218`), so that the pods this starts read the configuration of the
  release. `ReportIsTrue` claims the templates only, of the Deployment and of its pods.
* Preflight warns of a stale Ingress of the registry that "setup will overwrite"; under a
  plan with an external registry or a development host setup does not touch it, and the
  warning comes back with each run. `PreflightClean` names this exception, and that of
  failed CertificateRequests, which nothing in setup removes.
* `docs/teams-and-access.md:177` says that deactivation removes a person's team
  memberships. A request to create a team that the person had under way inserts
  another one afterwards (`platformstore/teams.go:126-131` does not look at the
  account). `TombstoneHoldsNothing` speaks of keys, which are checked.
* `docs/connect-clients.md:423` documents a timeout for adapter requests, which is
  parsed (`adapter/flags.go:91`) and never applied. `docs/cluster-readiness.md:661` lists pending claims among what
  the preflight doctor checks; that suite does not.
### What the models show besides

Behaviour no document speaks of, which a maintainer may want to know. The
properties are worded so that they hold in its presence.

*Gateway.* The processor commits the offset of an undecodable message at once, and
with it those of the events batched before it: a crash then loses up to
BatchSize - 1 events, and `LostOnlyExposed` says which. A rotation between the first
load of the key pair (`main.go:187`) and the watch's baseline (`cert_reload.go:61`)
is noticed only with the next one. An empty policy file activates the default
document. A grant under observation takes part in a decision when the tool's
side effect is unknown (`evaluator.go:107-114`). Nothing bounds a stream.

*Runtime API.* A publication's update drops the retiring annotation; re-applying a
grant can enable what was disabled meanwhile; `EnsureUserWorkloadRBAC` names only the
last member that deployed; a namespace deleted between two calls of a
task that provisions it is not fenced: the task goes on in what another has made, and one
that read the watch list before may drop the namespace's name after it has come back
(`TenantLockedDown`, `WatchKept` and `WatchReadable` leave these out by the history
variables `disturbed` and `vanished`; `ImageInScope` and `TrafficKept` leave out nothing);
a transfer token can be fetched twice at once; the purge of transfers takes a zero
expiry for an expired one; a late refresh of an old generation evicts a newer
inventory; the limit of active servers and the ownership check of a publication are
checked before they are used; a server whose name collides loses its credential.

*Operator.* The owner of a hostless route or of a route elsewhere may name an audience on
the default host, where the same path is another server's: both publish it, and since the
list comes from a cache in no order the scopes can flip from pass to pass. A server whose
audience is registered for the credential gateway stops the collection for all: the list the
authorization server has stays as it is. Between the draining of the old pods and the next pass the Service may
point at a port no pod listens on; a server that turns to adapter certificates loses its
plain Ingress in the pass that finds the certificates of its IngressRoute not ready,
although `ingress.go` orders them the other way; a sweep whose call fails is not tried
again, so the egress policy of a server deleted while the operator was down stays until
the next start; a final status write that fails leaves the phase stale; a younger server is not
woken when an older one moves onto its route, and keeps it until the resync (10 h); Secrets,
Certificates and IngressRoutes are polled every 10 s rather than watched.

*Accounts.* Deactivating the administrator seeded from the environment makes later
starts fail; `EnsurePasswordUser` does not look at `deleted_at`; a membership can be
inserted for a deleted team; parallel logins all pass `Allow` before the first
failure is recorded; any success clears an address's bucket.

*Adapter.* A probe that looked at a route before a renewal writes the older route
back; `storeMaterial` can fail between certificate and key (the pair is then refused,
never mixed); a failing `Store.Put` leaves orphan secrets; requests let in after
`cancelAll` are drained only until the deadline; a reload that waits for the control
mutex while the daemon ends starts its workers under a cancelled context, and the lock
can be free before they are gone; an install on the silent path may replace the binary
under a daemon that drains. `internal/adapterservice` is imported
by no command. A session that has expired ends its renewal until the next reload.

*Update.* The command handles no signal; the guard against downgrades looks at the
plan only; a rollback restores the plan-time image but not the version annotation, and
leaves pods that started on the release's configuration.

*Setup.* A namespace that the older release's runtime-api, or anybody, makes between the
listing and the narrowing of the ClusterRole has no access to Secrets until the next run
(`SecretAccessKept` says which); after a root was lost, a rerun publishes a second one, and
clients that trust one can meet servers signed by the other until both were renewed:
`TrustBeforeUse` speaks of the moment of signing and of the time before another root is
made. The registry's TLS step makes a lost root anew (`ensureCASecretClientGo`)
where the analytics step refuses (`analytics_transport_pki.go:78`); preflight reads that fail are skipped; a run that ends after
platform-api answers leaves the bootstrap middleware; a namespace created between the
listing and the activation gets no pull credential; the webhook is untrusted for a
moment while its CA is replaced; applying the ClusterIssuer overwrites another signer;
test mode rewrites a TLS Kafka to plaintext; a partly applied ingress bundle makes
reruns skip it; an error while the webhook's Secret is read counts as its absence;
`cluster operator-rbac apply` narrows the ClusterRole without granting the bindings
first; the journal of a rotation is not rewritten when it exists.

*Doctor.* A transient error on the read that gates a check makes the check pass as
skipped; a Grafana that is not ready is reported nowhere (`grafana.go:39`); the DNS
check rejects the token challenge that the registry check accepts; two runs at once
see each other's finished pods; a killed run leaves its pods; the operator makes the ServiceAccount `mcp-workload`, and
maybe a pull Secret, for the smoke server's namespace, without an owner
(`deployment.go:377-426`), and cleanup does not delete them; deliveries are probed at
25 gateways at most; a smoke server whose deletion failed is created again.

## Proofs

Eight modules carry theorems, each about the components its runs already check. A
theorem holds for every value of the constants that meets the named assumptions:
any finite or infinite set of sessions, requests, keys, servers, people or ports,
and all limits. Those that state a property of a run use that property's own
definition; the others are parts of one.

| Module | Theorem | Establishes |
|---|---|---|
| `IdempotencyProofs` | `TypeCorrect` | `[]TypeOK` |
| | `ReservationsOwned` | `[]OwnersAndReservations` |
| | `CounterExact` | `[]InflightExact` |
| | `TombstonesStay` | `[]TombstonesKept` |
| | `ReplaysCorrect` | `[]ReplayIsLatest` |
| | `NeverReExecuted` | `NoReExecution` |
| | `QuotasAreHeld` | `QuotasHold`, with `BudgetBelowQuota` |
| `SessionStoreProofs` | `AuthorityStaysFenced` | `[]SessionsFenced` |
| | `StoreImplementsLog` | `ImplementsLog`: the store refines `SessionLog` |
| `SessionSyncProofs` | `ViewIsSound` | `[]ViewSound` |
| `GatewayProofs` | `CallsAreAuthorized` | `[]CallsAuthorized` |
| | `AdmissionIsSound` | `AdmissionSound` |
| | `EventsStayAccounted` | `[]EventsAccounted` |
| | `NothingIsLost` | `[]NoLoss` |
| `IdentityProofs` | `HandOutsAreSound` | `[]HandOutsSound` |
| | `SignInsAreSound` | `[]SignInSound` |
| | `ReviewsAreSound` | `ReviewsSound` |
| | `TokensAreBounded` | `[]TokensBounded` |
| | `LocksAreKept` | `LocksKept` |
| | `AccountsAreSound` | `AccountsSound` |
| `RuntimeProofs` | `StoresAreKept` | `[]StoresKeep` |
| | `AuthorityIsNotInherited` | `ServerAuthority` |
| | `TenantsAreConfined` | `TenantsConfined` |
| `WorkstationProofs` | `ProfilesAreSeparate` | `ProfilesSeparate` |
| | `ProxyIsHonest` | `ProxyHonest` |
| | `ServiceIsHonest` | `ServiceHonest` |
| | `BuildersAreSound` | `[]BuildersSound` |
| | `UpdateIsSound` | `UpdateSound` |
| `ClusterProofs` | `OperatorIsSound` | `OperatorSound` |
| | `OwnersStayDisjoint` | the safety part of `RoutesConverge`: owners are disjoint and share no audience off the default host |
| | `DoctorIsSound` | `[]DoctorSound` |

A proof module starts with its invariants and why they are what they are; then
come lemmas about the helpers, one lemma per action or kind of action, and the
theorem, which combines start, step and consequence. TLC has checked each
inductive invariant on the small instances before it was proved. Components that
share no variables share a module and not an argument.

### The arguments

**Idempotency.** `IInv` has seven parts. `OwnersAndReservations` alone is not
inductive: an owner's entry survives because only completed entries are swept or
evicted, and that needs the types. `InflightExact` needs it in turn, since a
completion takes the counter down by one only if the map still holds its entry.
`TombstonesKept` needs that a completion finds its own in-flight entry, so that a
tombstone is never overwritten within its window. `ReplayIsLatest` speaks of the last
answer only; it follows from `RepliesAreLatest` (what is stored is the last reply)
and this from `HandlerReplyIsLatest` (what a handler is about to store is the last
reply), which holds because a key has one owner at a time. `NoReExecution` is then
one step: a handler that dispatches owns an in-flight entry, so the key has no
tombstone, so its window is not open. For the quotas `QInv` adds that an entry about
to be reserved is counted before the eviction that makes room for it. The last
part of `QuotasHold`, that a refusal for capacity never costs a client a stored reply,
needs `BudgetBelowQuota`: a scope's tombstone budget smaller than its entry quota, as
the shipped defaults are. Where an operator sets them the other way round it is false.

**Sessions.** `StoreInv` adds two things to `SessionsFenced`. `BoundIsKept`: an identity
once bound is in the table or among the deleted, without which a new binding could
not be excluded. `LogBounds`: the log holds what the floor says it holds. Every
transaction is an instance of `Write` over a sequence of distinct rows, so that
one lemma about `Write` serves single revocations, deletions and the bulk revocations
in any order of rows. The refinement maps the table of one server to the table of
`SessionLog`; each transaction is shown to be a run of its changes, or a stutter.
The gateway's side rests on `LogInv` (entries are numbered apart, none is at or
below the floor, replaying between two covered cursors leads from table to table)
and on `SyncInv`, which says what the answer on its way will make of the view when it
is applied; the platform may move on, drop changes and rotate its epoch in between.

**The gateway.** `UpstreamInv` counts permits by the requests that hold them; late
reports are harmless because a breaker's generation is the period its requests were
admitted in (`BreakerInv`). `DispatcherInv` is the equation over handlers, queue,
workers, posted and dropped events; it becomes an inequality at the stop.
`ProcessorInv` says that the batch is the run of messages right before the next one.
`GatewayInv` is about what the exchange carries from filter to filter (`Snapshot`,
`Passed`, `Outcome`) and of the shared state says only that the served document is
valid and that a cached provider verifies the audience it is cached under.

**Identity.** `HandOutInv` ties the value that was fetched to the source named in the
snapshot of the resolution, and says of each phase what it rests on: rows read under
the lock stand (`Backed`), an answer of Kubernetes carried to the commit is in `stood`
(`Carried`). `SignInInv` follows a subject from form to code to store
to call. `BrokerAuthInv` bounds what is remembered of a stopped Pod by the length of
a review. `TokensInv` adds a token's remaining life to the time since a scope was
lost. `LockoutInv` bounds a lock by what its failures earn. `AccountsInv` carries the
owner and administrator counts through requests that were authorized earlier.

**Runtime.** `KeysInv` says what a call has read of the Secret by its resource
version: what Kubernetes accepts overwrites nobody. `PushInv` says by where a push is
what there is of it, and that no fetch of its archive is open before it is registered:
a purge meets only transfers that expired, never one a helper waits for. `InventoryInv`
ties the inventory to one generation. `RetireInv` has two parts
that matter: each server UID a session rests on is the present one or fenced
(`Rooted`), and what a request carries is good enough where it acts on it
(`LocalSound`). `ProvisionInv` says what a namespace has by the step its task is at
(`Laid`), unless it was deleted under it, that a name found missing at the version of the
list was deleted under its watch or under the task (`Gone`), so that an update of that
version drops no other, and what tasks grant one another (`Steady`).

**Workstation.** `DaemonInv` records that a serial is issued once and to one profile
(`Ledger`), by which routes and late probes are judged. `ProxyInv` and `ServiceInv` say
that what a caller was told never outlasts the certificate of its transport, and
that lock, control operation and drain imply one another in one direction.
`BuildInv` counts holders of slots. `UpdateInv` says what is there once a phase is over
(`Provided`), that rows are dealt with in catalog order and once (`Accounts`,
`Reported`, `Truthful`), and that a plan nobody interferes with leaves no row behind that
differs (`Settling`).

**Operator.** `OperatorInv` says what an unqueued server means all along the pass and not
only at its end: the copy the pass works on is the present specification, and what it has
written so far, or has read and is about to write, is what it would write now
(`UpToDate`, `Written`), because every change that would make it stale queues the server. `Bounded` keeps the boundary ahead of the
template, of the canary and of a pass about to write either. `PortsKept` ties a Service
that routes elsewhere than the template to the surging strategy, from the step that
chooses it to the step that moves the Service. That the owners of routes are disjoint
follows from age, with the name to break ties, being a total order; that an audience off
the default host is published by one server follows from that, since the host and the path
are then those of its route.

**The doctor.** The lists of checks are constant-level operators, so the larger part of
the proof has no state: for every healthy cluster each of the ninety-odd checks passes,
alone and beside the helper pods of the others, and for every cluster with a single fault the
suites that promise to look for it hold a check that fails, behind its gates and although
others give way to it. What is left is a run. `DocTyped` and `DocPlaced` tie a stage to
the pods its check runs; `DocRemoved` says that something is left behind only after a
failed deletion, and that the smoke server is there only where the next stages remove it.
`DocQuiet` is the part that makes `FaultsReported` inductive: in a run with no trouble but the
lasting fault, every check dealt with so far was answered as the one cluster the run is about
answers, so a report without a failure means that all of them pass on that cluster, which
an ill one contradicts. `DocCalm` is the same with no trouble at all: no answer was a bad one.

### The assumptions

All are named, stand in the modules that declare the constants and are evaluated by
the runs. They say that limits, lifetimes and capacities are natural numbers, positive
where the code's defaults or validation make them so (`LimitAssumption`,
`UpstreamAssumption`, `LockoutAssumption`, `TokensAssumption`, `ServiceAssumption`,
`ProxyAssumption`, `AdapterAssumption`, `BrokerAuthAssumption`, `BuildAssumption`); that
sets whose members are counted are finite (`ScopeAssumption`, `ProcessorAssumption`,
`DispatcherAssumption`, which also wants one worker); that the values for "none" are
not among the real ones (`RowAssumption`, `RetirementAssumption`, `OperatorAssumption`,
`AdapterAssumption`); that functions and records given as constants have their types
(`StoreAssumption`, `LogAssumption`, `SyncAssumption`, `GatewayAssumption`,
`BrokerAssumption`, `SignInAssumption`, `AccountsAssumption`, `StoresAssumption`,
`ProvisioningAssumption`); that the update's catalog is a sequence without repetition
(`UpdateAssumption`); that names order servers totally (`RouteAssumption`); and that the
clusters the doctor starts from, before a fault is put into one, are healthy
(`DoctorAssumption` with `HealthyCluster`): Traefik is where the distribution has it, its
Service is exposed as that distribution allows, and where the registry is the platform's own
the network policy that `config/registry/base` installs is there and enforced. Without a
CNI that enforces policies the probe from outside is answered 401 and not refused, and the
doctor reports that on a cluster with nothing else wrong; `NoFalseAlarm` says nothing of such.

### Only model-checked

* Liveness: `Converges`, `RevocationTakesEffect`, `OperatorConverges`, the eventual parts
  of `RoutesConverge`, `FilesTakeEffect`, `NothingStuck`, `EventuallyStored`. The prover
  handles neither fairness nor ENABLED.
* `DecisionsFollowGrants`: the decision is a fold over a list of grants, and what a fold
  computes for every list needs induction over data, which no installed prover does.
* The properties of the setup (`RegistryUsable`, `ServicesTrusted`), and the safety parts
  of `FilesTakeEffect`: not attempted.

## Plan

Modelled and checked: the gateway with everything on its request path and beside it,
the platform's stores and services, the runtime API, the operator, the adapter, and
the commands that install, update and examine a platform. No module uses a RECURSIVE
operator, so that each can carry theorems. Left to prove, most important first:

1. Setup: `RegistryUsable` and `ServicesTrusted`, one lemma for each step of the pipeline.
2. The safety parts of `FilesTakeEffect` (`RotationServed`, `TokenKept`).

What a further extension would add: expiry and restoration from a backup in the
session store; three grants at once in the evaluator; two faults at once for the
doctor.

## Not modelled

* analytics-api: authorized queries that change nothing. The UI: a browser front end
  and its server, without a protocol of its own. Other commands: single requests
  whose handlers are modelled where they keep state.
* Cryptography, the validation of signatures, the OIDC and OAuth exchanges with other
  parties, key-set caches: library code. Provider protocols and encryption at rest of
  the credential broker.
* The rendering of Kubernetes objects and manifests, except for the fields a property
  is about; wording, tables and remedies of the commands; prompts; the kubectl twins
  of setup's client-go steps, which the shipped command does not take.
* SQL of single-statement reads, listings, dashboards, resource history and activity;
  ingest's authentication and readiness; tracing and metrics.
* Session expiry in the store (a request compares it with the binding it uses),
  annotations other than the pending mark, row UIDs, the restoration of an older
  database; assertion ids that age out of the sign-in's memory.
* Argument matching in policy rules (data, no order); the pods of a canary, which are
  ready or not; a stale informer cache in the operator; its copies of the workload CA and
  default TLS options for the whole cluster, which no pass over a server reads back, and
  the annotation that hurries the kubelet's refresh of a mounted policy; the error branch of
  the egress requests (`traefik_egress.go:357-360`), which queues nothing where the model may
  queue the server at any time.
* Two lifecycle commands at once, two setups at once, two doctors at once: nothing in
  the code locks against them and nothing in it expects them.
