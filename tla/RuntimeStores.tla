----------------------------- MODULE RuntimeStores -----------------------------
(***************************************************************************)
(* Three small stores of the runtime API's replicas                        *)
(* (services/runtime-api/internal/runtimeapi): the user API keys kept in   *)
(* one Kubernetes Secret (user_keys.go), the one-time image transfers to   *)
(* helper pods (registry_push.go, registry_push_transfer.go and            *)
(* pkg/registrypush/push.go) and the cache of live server inventories      *)
(* (live_inventory.go).  Any call to Kubernetes may fail.                  *)
(***************************************************************************)
EXTENDS Integers, FiniteSets

CONSTANTS
    KeyCalls,       \* calls that create or revoke an API key
    KeyPlans,       \* functions from calls to [op, id]
    MaxKeyAttempts,    \* maxAttempts
    Pushes,         \* requests that push an image
    PushPlans,      \* functions from pushes to [scope, prefix, teams, admin]
    EnabledScopes,  \* enabledPublishScopes
    CatalogNames,   \* the repository scopes of each catalog scope: its namespace, its alias
    NoPrefix,       \* of a target with one component
    Fetchers,       \* requests for the archive of a push
    InventoryServers, MaxGen,\* servers with a live inventory, and their generations (or successors)
    MaxInventory,     \* liveInventoryMaxCacheEntries
    InventoryTTL, MaxInventoryTime \* liveInventoryTTL, and a bound on the time

ASSUME StoresAssumption ==
    /\ MaxKeyAttempts \in Nat \ {0} /\ MaxInventory \in Nat \ {0} /\ MaxGen \in Nat
    /\ \A plan \in KeyPlans, c \in KeyCalls : plan[c].op \in {"create", "revoke"}

-----------------------------------------------------------------------------
\* User API keys.

VARIABLES
    keySecret,   \* the Secret: its records, or absent at version 0
    keyCall,     \* the calls' local state
    promised,    \* keys whose creation was acknowledged
    withdrawn    \* keys whose revocation was acknowledged

keyVars == <<keySecret, keyCall, promised, withdrawn>>
NoKeys == [version |-> 0, keys |-> {}, revoked |-> {}]

KeysInit ==
    /\ keySecret = NoKeys /\ promised = {} /\ withdrawn = {}
    /\ \E plan \in KeyPlans :
          keyCall = [c \in KeyCalls |-> [pc |-> "load", op |-> plan[c].op, id |-> plan[c].id,
                                         seen |-> NoKeys, attempt |-> 1]]

\* The records of all users, as the Secret has them when they are needed.
loadUserAPIKeyRecords == keySecret

\* AuthenticateUserAPIKey loads the records at each use.
AuthenticateUserAPIKey(id) == id \in loadUserAPIKeyRecords.keys \ loadUserAPIKeyRecords.revoked

\* The records as CreateUserAPIKey or RevokeUserAPIKey would have them.
Mutate(call) ==
    [version |-> call.seen.version + 1,
     keys |-> IF call.op = "create" THEN call.seen.keys \cup {call.id} ELSE call.seen.keys,
     revoked |-> IF call.op = "revoke" THEN call.seen.revoked \cup {call.id} ELSE call.seen.revoked]

\* updateUserAPIKeyRecords reads the Secret; revoking an unknown key ends the call.
readKeySecret(c) ==
    /\ keyCall[c].pc = "load"
    /\ keyCall' = [keyCall EXCEPT ![c].seen = keySecret,
                     ![c].pc = IF keyCall[c].op = "revoke" /\ keyCall[c].id \notin keySecret.keys
                               THEN "failed" ELSE "store"]
    /\ UNCHANGED <<keySecret, promised, withdrawn>>

\* The caller learns of the change if the answer arrives.
Acknowledged(c) ==
    \/ /\ keyCall' = [keyCall EXCEPT ![c].pc = "done"]
       /\ IF keyCall[c].op = "create"
          THEN promised' = promised \cup {keyCall[c].id} /\ UNCHANGED withdrawn
          ELSE withdrawn' = withdrawn \cup {keyCall[c].id} /\ UNCHANGED promised
    \/ /\ keyCall' = [keyCall EXCEPT ![c].pc = "failed"]
       /\ UNCHANGED <<promised, withdrawn>>

\* Mutant: the Secret is replaced whatever version it has.
storeAnyway(c) == keyCall[c].pc = "store" /\ keySecret' = Mutate(keyCall[c]) /\ Acknowledged(c)

\* Created or updated if nobody did meanwhile, else tried again, a bounded number of times.
updateUserAPIKeyRecords(c) ==
    /\ keyCall[c].pc = "store"
    /\ IF keyCall[c].seen.version = keySecret.version
       THEN keySecret' = Mutate(keyCall[c]) /\ Acknowledged(c)
       ELSE /\ keyCall' = [keyCall EXCEPT ![c].attempt = @ + 1,
                             ![c].pc = IF keyCall[c].attempt = MaxKeyAttempts THEN "failed" ELSE "load"]
            /\ UNCHANGED <<keySecret, promised, withdrawn>>

\* The Secret cannot be read, parsed or written.
KeyCallFails(c) ==
    /\ keyCall[c].pc \in {"load", "store"}
    /\ keyCall' = [keyCall EXCEPT ![c].pc = "failed"]
    /\ UNCHANGED <<keySecret, promised, withdrawn>>

KeysNext == \E c \in KeyCalls : readKeySecret(c) \/ updateUserAPIKeyRecords(c) \/ KeyCallFails(c)
KeysSpec == KeysInit /\ [][KeysNext]_keyVars

\* A key that was handed out works until it is revoked, and never again once its revocation was
\* acknowledged, though replicas rewrite all records of all users at once (updateUserAPIKeyRecords).
KeysKept ==
    /\ \A id \in promised : AuthenticateUserAPIKey(id) \/ id \in keySecret.revoked
    /\ \A id \in withdrawn : ~ AuthenticateUserAPIKey(id)

-----------------------------------------------------------------------------
\* A push: an uploaded archive goes to a helper pod that copies it into the registry.

VARIABLES
    transfer,    \* each push's transfer Secret: "none", "live", "expired"
    archive,     \* its uploaded file, on the replica that has the request
    helper,      \* its helper pod: "none", "running", "succeeded", "failed", "deleted"
    push,        \* where each push is
    pushing,     \* what each is to push
    fetch,       \* where each request for an archive is, and of which push
    lateOpen     \* an archive was opened after its push had ended

pushVars == <<transfer, archive, helper, push, pushing, fetch, lateOpen>>

PushInit ==
    /\ transfer = [p \in Pushes |-> "none"] /\ archive = [p \in Pushes |-> FALSE]
    /\ helper = [p \in Pushes |-> "none"] /\ push = [p \in Pushes |-> "start"]
    /\ pushing \in PushPlans
    /\ fetch \in [Fetchers -> [pc : {"start"}, of : Pushes]] /\ lateOpen = FALSE

Goes(p, pc) == push' = [push EXCEPT ![p] = pc]

\* readRegistryPushRequestWithTimeout: the upload becomes a file, or what there is of it is removed.
readRegistryPushRequestWithTimeout(p) ==
    /\ push[p] = "start"
    /\ \/ archive' = [archive EXCEPT ![p] = TRUE] /\ Goes(p, "uploaded")
       \/ Goes(p, "ended") /\ UNCHANGED archive
    /\ UNCHANGED <<transfer, helper, pushing, fetch, lateOpen>>

\* registryPushAuthContext: the repository scopes the target may be in, empty if the push is
\* refused.  A tenant's prefix is the slug or the namespace of a team of theirs; the slug decides.
registryPushAuthContext(r) ==
    IF r.scope \notin EnabledScopes \cup {"unset"} THEN {}
    ELSE IF r.scope \in DOMAIN CatalogNames THEN CatalogNames[r.scope]
    ELSE {team.slug : team \in {t \in r.teams : r.prefix \in {t.slug, t.namespace}}}

\* ... with ValidateDeployImage for one who is no administrator.
PushAllowed(r) ==
    IF r.admin
    THEN r.scope \in EnabledScopes \cup {"unset"} /\ (r.scope = "tenant" => r.prefix # NoPrefix)
    ELSE r.prefix # NoPrefix /\ r.prefix \in registryPushAuthContext(r)

\* HandleRuntimeRegistryPush before its first write, ResolveHelperNamespace and
\* EnsureHelperNamespace included.
authorizePush(p) ==
    /\ push[p] = "uploaded"
    /\ \/ PushAllowed(pushing[p]) /\ Goes(p, "allowed")
       \/ Goes(p, "return")
    /\ UNCHANGED <<transfer, archive, helper, pushing, fetch, lateOpen>>

\* deleteRegistryPushTransfer of all in gone, by a replica that has the files in own: the Secret may
\* stay, the file does not.
Deleted(gone, own) ==
    /\ transfer' \in [Pushes -> {"none", "live", "expired"}]
    /\ \A q \in Pushes : transfer'[q] = transfer[q] \/ (q \in gone /\ transfer'[q] = "none")
    /\ archive' = [q \in Pushes |-> archive[q] /\ q \notin gone \cap own]

\* registerRegistryPushTransfer: all that expired are purged, then this one is created, or is and
\* the answer is lost.
purgeExpiredRegistryPushTransfers(p) ==
    /\ push[p] = "allowed" /\ Goes(p, "purged")
    /\ \E own \in SUBSET Pushes : Deleted({q \in Pushes : transfer[q] = "expired"}, own)
    /\ UNCHANGED <<helper, pushing, fetch, lateOpen>>
registerRegistryPushTransfer(p) ==
    /\ push[p] = "purged"
    /\ \/ transfer' = [transfer EXCEPT ![p] = "live"] /\ (Goes(p, "pushing") \/ Goes(p, "return"))
       \/ UNCHANGED transfer /\ Goes(p, "return")
    /\ UNCHANGED <<archive, helper, pushing, fetch, lateOpen>>

\* PushDockerArchive starts a helper pod with the token, or fails.
PushDockerArchive(p) ==
    /\ push[p] = "pushing"
    /\ \/ helper' = [helper EXCEPT ![p] = "running"] /\ (Goes(p, "waiting") \/ Goes(p, "revoke"))
       \/ UNCHANGED helper /\ Goes(p, "revoke")
    /\ UNCHANGED <<transfer, archive, pushing, fetch, lateOpen>>

\* helperCommand: the pod fetches the archive and copies it, or fails.
HelperEnds(p) ==
    /\ helper[p] = "running"
    /\ \/ /\ \E f \in Fetchers : fetch[f] = [pc |-> "served", of |-> p]
          /\ helper' = [helper EXCEPT ![p] = "succeeded"]
       \/ helper' = [helper EXCEPT ![p] = "failed"]
    /\ UNCHANGED <<transfer, archive, push, pushing, fetch, lateOpen>>

\* waitPodSucceeded, for as long as it may take; the pod is deleted either way, if it can be.
waitPodSucceeded(p) ==
    /\ push[p] = "waiting"
    /\ \/ helper[p] = "succeeded" /\ Goes(p, "return")
       \/ Goes(p, "revoke")
    /\ helper' \in {helper, [helper EXCEPT ![p] = "deleted"]}
    /\ UNCHANGED <<transfer, archive, pushing, fetch, lateOpen>>

\* revokeRegistryPushTransfer after a failure: deleted if it is found.
revokeRegistryPushTransfer(p) ==
    /\ push[p] = "revoke" /\ Goes(p, "return")
    /\ \/ transfer[p] # "none" /\ Deleted({p}, {p})
       \/ UNCHANGED <<transfer, archive>>
    /\ UNCHANGED <<helper, pushing, fetch, lateOpen>>

\* HandleRuntimeRegistryPush returns; whatever happened, the upload is removed.
HandleRuntimeRegistryPush(p) ==
    /\ push[p] = "return" /\ Goes(p, "ended")
    /\ archive' = [archive EXCEPT ![p] = FALSE]
    /\ UNCHANGED <<transfer, helper, pushing, fetch, lateOpen>>

\* Mutant: the upload is left to whoever fetches it.
returnKeepingUpload(p) ==
    /\ push[p] = "return" /\ Goes(p, "ended")
    /\ UNCHANGED <<transfer, archive, helper, pushing, fetch, lateOpen>>

\* lookupRegistryPushTransfer for a helper's request, which may come late: an expired transfer is
\* deleted and not found.
lookupRegistryPushTransfer(f) ==
    LET p == fetch[f].of
    IN /\ fetch[f].pc = "start" /\ helper[p] # "none"
       /\ \/ transfer[p] = "live" /\ fetch' = [fetch EXCEPT ![f].pc = "open"]
          \/ fetch' = [fetch EXCEPT ![f].pc = "refused"]
       /\ IF transfer[p] = "expired" THEN Deleted({p}, {p}) ELSE UNCHANGED <<transfer, archive>>
       /\ UNCHANGED <<helper, push, pushing, lateOpen>>

\* HandleRegistryPushTransfer opens the file if it is still there ...
HandleRegistryPushTransfer(f) ==
    LET p == fetch[f].of
    IN /\ fetch[f].pc = "open"
       /\ fetch' = [fetch EXCEPT ![f].pc = IF archive[p] THEN "delete" ELSE "refused"]
       /\ lateOpen' = (lateOpen \/ (archive[p] /\ push[p] = "ended"))
       /\ UNCHANGED <<transfer, archive, helper, push, pushing>>

\* ... deletes the transfer and serves what it opened.
deleteRegistryPushTransfer(f) ==
    /\ fetch[f].pc = "delete"
    /\ Deleted({fetch[f].of}, {fetch[f].of})
    /\ fetch' = [fetch EXCEPT ![f].pc = "served"]
    /\ UNCHANGED <<helper, push, pushing, lateOpen>>

\* A transfer lives longer than a push may take after registering it.
TransferExpires(p) ==
    /\ transfer[p] = "live" /\ push[p] \notin {"pushing", "waiting"}
    /\ transfer' = [transfer EXCEPT ![p] = "expired"]
    /\ UNCHANGED <<archive, helper, push, pushing, fetch, lateOpen>>

PushNext ==
    \/ \E p \in Pushes :
          \/ readRegistryPushRequestWithTimeout(p) \/ authorizePush(p)
          \/ purgeExpiredRegistryPushTransfers(p) \/ registerRegistryPushTransfer(p)
          \/ PushDockerArchive(p) \/ HelperEnds(p) \/ waitPodSucceeded(p)
          \/ revokeRegistryPushTransfer(p) \/ HandleRuntimeRegistryPush(p) \/ TransferExpires(p)
    \/ \E f \in Fetchers : \/ lookupRegistryPushTransfer(f) \/ HandleRegistryPushTransfer(f)
                           \/ deleteRegistryPushTransfer(f)
PushSpec == PushInit /\ [][PushNext]_pushVars

\* Nobody starts reading an archive after the push that uploaded it has returned, though a fetch may
\* have found the transfer before, and the transfer and the helper may have been left behind
\* (HandleRuntimeRegistryPush).
NothingServedAfterPush == ~ lateOpen

\* While a helper waits for its archive nobody takes it away: no other push's purge, no late
\* revocation (registerRegistryPushTransfer, purgeExpiredRegistryPushTransfers).
TransferKept ==
    \A p \in Pushes : push[p] \in {"pushing", "waiting"} =>
        \/ transfer[p] = "live" /\ archive[p]
        \/ \E f \in Fetchers : fetch[f] = [pc |-> "served", of |-> p]

-----------------------------------------------------------------------------
\* Live inventories.

VARIABLES
    generation,  \* each server's present generation
    inventory,   \* cached inventories: key -> storedAt
    inFlight,    \* keys being probed -> when the probe ended, or Probing
    inventoryClock

inventoryVars == <<generation, inventory, inFlight, inventoryClock>>
InventoryKeys == InventoryServers \X (1 .. MaxGen)
Probing == -1
Cached == DOMAIN inventory

InventoryInit ==
    /\ generation = [s \in InventoryServers |-> 1] /\ inventoryClock = 0
    /\ inventory = [k \in {} |-> 0] /\ inFlight = [k \in {} |-> Probing]

\* getOrStart, of a generation the caller listed some time ago: a fresh entry is
\* served, a probe under way is not doubled.
getOrStart(k) ==
    /\ k[2] <= generation[k[1]]
    /\ ~ (k \in Cached /\ inventoryClock - inventory[k] < InventoryTTL) /\ k \notin DOMAIN inFlight
    /\ inFlight' = [j \in DOMAIN inFlight \cup {k} |-> IF j = k THEN Probing ELSE inFlight[j]]
    /\ UNCHANGED <<generation, inventory, inventoryClock>>

\* refresh: the probe ends, with an inventory or a reason, and looks at the clock ...
probeEnds(k) ==
    /\ k \in DOMAIN inFlight /\ inFlight[k] = Probing
    /\ inFlight' = [inFlight EXCEPT ![k] = inventoryClock]
    /\ UNCHANGED <<generation, inventory, inventoryClock>>

\* pruneLocked: other generations of the server and what is older than twice the TTL go, and the
\* oldest until the limit is kept.  What may be left:
pruneLocked(all, now, keep) ==
    LET young == {k \in DOMAIN all : k = keep \/ (k[1] # keep[1] /\ now - all[k] < 2 * InventoryTTL)}
    IN {left \in SUBSET young :
           /\ keep \in left
           /\ Cardinality(left) = IF Cardinality(young) > MaxInventory THEN MaxInventory ELSE Cardinality(young)
           /\ \A k \in left \ {keep}, gone \in young \ left : all[gone] <= all[k]}

\* ... and under the lock its result is stored.
refresh(k) ==
    /\ k \in DOMAIN inFlight /\ inFlight[k] # Probing
    /\ inFlight' = [j \in DOMAIN inFlight \ {k} |-> inFlight[j]]
    /\ LET all == [j \in Cached \cup {k} |-> IF j = k THEN inFlight[k] ELSE inventory[j]]
       IN \E left \in pruneLocked(all, inFlight[k], k) : inventory' = [j \in left |-> all[j]]
    /\ UNCHANGED <<generation, inventoryClock>>

\* Time passes; a server is changed.
InventoryAges ==
    /\ inventoryClock < MaxInventoryTime
    /\ inventoryClock' = inventoryClock + 1
    /\ UNCHANGED <<generation, inventory, inFlight>>
ServerChanges(s) ==
    /\ generation[s] < MaxGen
    /\ generation' = [generation EXCEPT ![s] = @ + 1]
    /\ UNCHANGED <<inventory, inFlight, inventoryClock>>

InventoryNext ==
    \/ \E k \in InventoryKeys : getOrStart(k) \/ probeEnds(k) \/ refresh(k)
    \/ InventoryAges \/ \E s \in InventoryServers : ServerChanges(s)
InventorySpec == InventoryInit /\ [][InventoryNext]_inventoryVars

\* The cache keeps to its limit, in whatever order probes end (refresh,
\* pruneLocked).
InventoryBounded == Cardinality(Cached) <= MaxInventory

\* It holds one generation of a server, though probes of several generations
\* are under way together (pruneLocked).
OneGeneration == \A j, k \in Cached : j[1] = k[1] => j = k
\* The runtime API's small stores keep their word under concurrent replicas, fetches and probes.
StoresKeep == KeysKept /\ NothingServedAfterPush /\ TransferKept /\ InventoryBounded /\ OneGeneration
=============================================================================
