---------------------------- MODULE RuntimeProofs ----------------------------
(***************************************************************************)
(* Proofs about the runtime API's stores, servers and namespaces, for any  *)
(* calls, requests, tasks and namespaces.                                  *)
(*                                                                         *)
(* StoresAreKept (RuntimeStores).  What a call read of the key Secret is   *)
(* of some version, and of the present version it is the present contents  *)
(* (CallSound): a write that Kubernetes accepts overwrites nobody.  Where  *)
(* a push is says what there is of it, and until it is registered nobody   *)
(* fetches its archive (PushPlaced): no purge, revocation or fetch of      *)
(* another push takes it.                                                  *)
(*                                                                         *)
(* AuthorityIsNotInherited (ServerRetirement).  Every server UID a session *)
(* rests on is the present server's or fenced (Rooted), and what a request *)
(* carries from its earlier calls is good enough where it acts on it       *)
(* (LocalSound): what it deletes was fenced, the session it completes or   *)
(* answers with is one it stored, and nobody abandoned it.  Courses says   *)
(* where a retirement is and that it works off what it listed.             *)
(*                                                                         *)
(* TenantsAreConfined (TeamProvisioning).  A namespace has what the steps  *)
(* of a provisioning task before its present one create (Laid), so that    *)
(* whatever is deployed finds its limits and policies there                *)
(* (NamespaceSound); a list that was read is the present one as long as    *)
(* its version is (TaskSound), and Steady is what tasks grant each other.  *)
(***************************************************************************)
EXTENDS RuntimeStores, ServerRetirement, TeamProvisioning, TLAPS, FiniteSetTheorems
-----------------------------------------------------------------------------
\* The runtime API's stores.

\* What a call read is of some version up to the present one, and of the present one it is all there is.
CallSound(x) ==
    /\ x = [pc |-> x.pc, op |-> x.op, id |-> x.id, seen |-> x.seen, attempt |-> x.attempt]
    /\ x.op \in {"create", "revoke"} /\ x.seen.version \in 0..keySecret.version
    /\ x.seen.version = keySecret.version => x.seen = keySecret
KeysInv ==
    /\ keySecret.version \in Nat
    /\ DOMAIN keyCall = KeyCalls /\ \A c \in KeyCalls : CallSound(keyCall[c])
    /\ promised \subseteq keySecret.keys /\ withdrawn \subseteq keySecret.revoked

\* Where a push is says what there is of it; until it has a transfer nobody fetches its archive.
Fetched(p) == \E f \in Fetchers : fetch[f] = [pc |-> "served", of |-> p]
Early(p) == push[p] = "start" \/ push[p] = "uploaded" \/ push[p] = "allowed" \/ push[p] = "purged"
Under(p) == push[p] = "pushing" \/ push[p] = "waiting"
PushPlaced(p) ==
    /\ Early(p) => /\ transfer[p] = "none" /\ helper[p] = "none"
                   /\ \A f \in Fetchers : fetch[f].of = p => fetch[f].pc = "start" \/ fetch[f].pc = "refused"
    /\ push[p] = "start" \/ push[p] = "ended" => ~ archive[p]
    /\ Early(p) /\ push[p] # "start" => archive[p]
    /\ Under(p) => (transfer[p] = "live" /\ archive[p]) \/ Fetched(p)
PushTyped ==
    /\ DOMAIN transfer = Pushes /\ DOMAIN archive = Pushes /\ DOMAIN helper = Pushes /\ DOMAIN push = Pushes
    /\ DOMAIN fetch = Fetchers
    /\ \A f \in Fetchers : fetch[f] = [pc |-> fetch[f].pc, of |-> fetch[f].of] /\ fetch[f].of \in Pushes
PushInv == PushTyped /\ (\A p \in Pushes : PushPlaced(p)) /\ ~ lateOpen

InventoryInv ==
    IsFiniteSet(Cached) /\ Cardinality(Cached) <= MaxInventory /\ OneGeneration

\* The first write has version 1.
LEMMA KeysInitially == KeysInit => KeysInv
<1> SUFFICES ASSUME KeysInit PROVE KeysInv
  OBVIOUS
<1>1. keySecret = NoKeys /\ promised = {} /\ withdrawn = {} /\ keySecret.version = 0
  BY DEF KeysInit, NoKeys
<1>2. PICK plan \in KeyPlans :
         keyCall = [c \in KeyCalls |-> [pc |-> "load", op |-> plan[c].op, id |-> plan[c].id,
                                        seen |-> NoKeys, attempt |-> 1]]
  BY DEF KeysInit
<1>3. ASSUME NEW c \in KeyCalls PROVE CallSound(keyCall[c])
  <2>1. keyCall[c] = [pc |-> "load", op |-> plan[c].op, id |-> plan[c].id, seen |-> NoKeys, attempt |-> 1]
    BY <1>2
  <2>2. plan[c].op \in {"create", "revoke"}
    BY StoresAssumption
  <2> QED
    BY <1>1, <2>1, <2>2 DEF CallSound
<1> QED
  BY <1>1, <1>2, <1>3 DEF KeysInv

\* A read is of the present version.
LEMMA LoadStep ==
  ASSUME KeysInv, NEW c \in KeyCalls, readKeySecret(c)
  PROVE  KeysInv'
<1>1. UNCHANGED <<keySecret, promised, withdrawn>>
  BY DEF readKeySecret
<1>2. PICK next : next = IF keyCall[c].op = "revoke" /\ keyCall[c].id \notin keySecret.keys THEN "failed" ELSE "store"
  OBVIOUS
<1>3. keyCall' = [keyCall EXCEPT ![c].seen = keySecret, ![c].pc = next]
  BY <1>2 DEF readKeySecret
<1>4. PICK x : x = keyCall[c]
  OBVIOUS
<1>5. x = [pc |-> x.pc, op |-> x.op, id |-> x.id, seen |-> x.seen, attempt |-> x.attempt] /\ x.op \in {"create", "revoke"}
  BY <1>4 DEF KeysInv, CallSound
<1>6. PICK y : y = [x EXCEPT !.seen = keySecret]
  OBVIOUS
<1>7. y = [pc |-> x.pc, op |-> x.op, id |-> x.id, seen |-> keySecret, attempt |-> x.attempt]
  BY <1>5, <1>6
<1>8. PICK z : z = [y EXCEPT !.pc = next]
  OBVIOUS
<1>9. z = [pc |-> next, op |-> x.op, id |-> x.id, seen |-> keySecret, attempt |-> x.attempt]
  BY <1>7, <1>8
<1>10. keyCall' = [keyCall EXCEPT ![c] = z]
  BY <1>3, <1>4, <1>6, <1>8 DEF KeysInv
<1>11. CallSound(z)
  BY <1>5, <1>9 DEF CallSound, KeysInv
<1>12. DOMAIN keyCall' = KeyCalls /\ \A d \in KeyCalls : CallSound(keyCall'[d])
  BY <1>10, <1>11 DEF KeysInv
<1>13. \A d \in KeyCalls : CallSound(keyCall[d])'
  BY <1>1, <1>12 DEF CallSound
<1> QED
  BY <1>1, <1>12, <1>13 DEF KeysInv

\* A write of the version read adds to what is there, and leaves every other read behind.
LEMMA StoreStep ==
  ASSUME KeysInv, NEW c \in KeyCalls, updateUserAPIKeyRecords(c)
  PROVE  KeysInv'
<1>1. PICK x : x = keyCall[c]
  OBVIOUS
<1>2. CallSound(x) /\ x = [pc |-> x.pc, op |-> x.op, id |-> x.id, seen |-> x.seen, attempt |-> x.attempt]
      /\ x.op \in {"create", "revoke"} /\ x.seen.version \in Nat
  BY <1>1 DEF KeysInv, CallSound
<1>3. CASE x.seen.version = keySecret.version
  <2>1. keySecret' = Mutate(x) /\ x.seen = keySecret
    BY <1>1, <1>2, <1>3 DEF updateUserAPIKeyRecords, CallSound
  <2>2. PICK next : /\ keyCall' = [keyCall EXCEPT ![c].pc = next]
                    /\ \/ x.op = "create" /\ promised' = promised \cup {x.id} /\ withdrawn' = withdrawn
                       \/ x.op # "create" /\ withdrawn' = withdrawn \cup {x.id} /\ promised' = promised
                       \/ promised' = promised /\ withdrawn' = withdrawn
    BY <1>1, <1>3 DEF updateUserAPIKeyRecords, Acknowledged
  <2>3. /\ keySecret'.version = keySecret.version + 1
        /\ keySecret'.keys = IF x.op = "create" THEN keySecret.keys \cup {x.id} ELSE keySecret.keys
        /\ keySecret'.revoked = IF x.op = "revoke" THEN keySecret.revoked \cup {x.id} ELSE keySecret.revoked
    BY <2>1 DEF Mutate
  <2>4. \/ x.op = "create" /\ promised' = promised \cup {x.id} /\ withdrawn' = withdrawn
        \/ x.op = "revoke" /\ withdrawn' = withdrawn \cup {x.id} /\ promised' = promised
        \/ promised' = promised /\ withdrawn' = withdrawn
    BY <1>2, <2>2
  <2>5. promised' \subseteq keySecret'.keys /\ withdrawn' \subseteq keySecret'.revoked
    BY <2>3, <2>4 DEF KeysInv
  <2>6. PICK z : z = [x EXCEPT !.pc = next]
    OBVIOUS
  <2>7. z = [pc |-> next, op |-> x.op, id |-> x.id, seen |-> x.seen, attempt |-> x.attempt]
    BY <1>2, <2>6
  <2>8. keyCall' = [keyCall EXCEPT ![c] = z]
    BY <1>1, <2>2, <2>6 DEF KeysInv
  <2>9. ASSUME NEW d \in KeyCalls PROVE CallSound(keyCall[d])'
    <3>1. PICK w : w = keyCall'[d]
      OBVIOUS
    <3>2. /\ w = [pc |-> w.pc, op |-> w.op, id |-> w.id, seen |-> w.seen, attempt |-> w.attempt]
          /\ w.op \in {"create", "revoke"} /\ w.seen.version \in 0..keySecret.version
      <4>1. CASE d = c
        BY <1>2, <2>7, <2>8, <3>1, <4>1 DEF KeysInv, CallSound
      <4>2. CASE d # c
        BY <2>8, <3>1, <4>2 DEF KeysInv, CallSound
      <4> QED
        BY <4>1, <4>2
    <3>3. w.seen.version \in 0..keySecret'.version /\ w.seen.version # keySecret'.version
      BY <2>3, <3>2 DEF KeysInv
    <3> QED
      BY <3>1, <3>2, <3>3 DEF CallSound
  <2> QED
    BY <2>3, <2>5, <2>8, <2>9 DEF KeysInv
<1>4. CASE x.seen.version # keySecret.version
  <2>1. PICK next : next = IF x.attempt = MaxKeyAttempts THEN "failed" ELSE "load"
    OBVIOUS
  <2>2. keyCall' = [keyCall EXCEPT ![c].attempt = @ + 1, ![c].pc = next] /\ UNCHANGED <<keySecret, promised, withdrawn>>
    BY <1>1, <1>4, <2>1 DEF updateUserAPIKeyRecords
  <2>3. PICK y : y = [x EXCEPT !.attempt = @ + 1]
    OBVIOUS
  <2>4. y = [pc |-> x.pc, op |-> x.op, id |-> x.id, seen |-> x.seen, attempt |-> x.attempt + 1]
    BY <1>2, <2>3
  <2>5. PICK z : z = [y EXCEPT !.pc = next]
    OBVIOUS
  <2>6. z = [pc |-> next, op |-> x.op, id |-> x.id, seen |-> x.seen, attempt |-> x.attempt + 1]
    BY <2>4, <2>5
  <2>7. keyCall' = [keyCall EXCEPT ![c] = z]
    BY <1>1, <2>2, <2>3, <2>5 DEF KeysInv
  <2>8. CallSound(z)
    BY <1>2, <2>6 DEF CallSound
  <2>9. \A d \in KeyCalls : CallSound(keyCall'[d])
    BY <2>7, <2>8 DEF KeysInv
  <2>10. \A d \in KeyCalls : CallSound(keyCall[d])'
    BY <2>2, <2>9 DEF CallSound
  <2> QED
    BY <2>2, <2>7, <2>10 DEF KeysInv
<1> QED
  BY <1>3, <1>4

\* A call that fails has changed nothing.
LEMMA FailStep ==
  ASSUME KeysInv, NEW c \in KeyCalls, KeyCallFails(c)
  PROVE  KeysInv'
<1>1. keyCall' = [keyCall EXCEPT ![c].pc = "failed"] /\ UNCHANGED <<keySecret, promised, withdrawn>>
  BY DEF KeyCallFails
<1>2. PICK x : x = keyCall[c]
  OBVIOUS
<1>3. CallSound(x) /\ x = [pc |-> x.pc, op |-> x.op, id |-> x.id, seen |-> x.seen, attempt |-> x.attempt]
  BY <1>2 DEF KeysInv, CallSound
<1>4. PICK z : z = [x EXCEPT !.pc = "failed"]
  OBVIOUS
<1>5. z = [pc |-> "failed", op |-> x.op, id |-> x.id, seen |-> x.seen, attempt |-> x.attempt]
  BY <1>3, <1>4
<1>6. keyCall' = [keyCall EXCEPT ![c] = z]
  BY <1>1, <1>2, <1>4 DEF KeysInv
<1>7. CallSound(z)
  BY <1>3, <1>5 DEF CallSound
<1>8. \A d \in KeyCalls : CallSound(keyCall'[d])
  BY <1>6, <1>7 DEF KeysInv
<1>9. \A d \in KeyCalls : CallSound(keyCall[d])'
  BY <1>1, <1>8 DEF CallSound
<1> QED
  BY <1>1, <1>6, <1>9 DEF KeysInv

\* What nobody touches stays where it is.
LEMMA PushUntouched ==
  ASSUME NEW q \in Pushes, PushPlaced(q), fetch' = fetch,
         transfer'[q] = transfer[q], archive'[q] = archive[q], helper'[q] = helper[q], push'[q] = push[q]
  PROVE  PushPlaced(q)'
BY DEF PushPlaced, Early, Under, Fetched

\* A deletion takes what is meant, and brings nothing back.
LEMMA DeletedTakes ==
  ASSUME PushTyped, NEW gone, NEW own, Deleted(gone, own)
  PROVE  /\ DOMAIN transfer' = Pushes /\ DOMAIN archive' = Pushes
         /\ \A q \in Pushes : transfer'[q] = transfer[q] \/ (q \in gone /\ transfer'[q] = "none")
         /\ \A q \in Pushes : archive'[q] => archive[q]
         /\ \A q \in Pushes : q \notin gone /\ archive[q] => archive'[q]
<1>1. DOMAIN transfer' = Pushes /\ \A q \in Pushes : transfer'[q] = transfer[q] \/ (q \in gone /\ transfer'[q] = "none")
  BY DEF Deleted
<1>2. archive' = [q \in Pushes |-> archive[q] /\ q \notin gone \cap own]
  BY DEF Deleted
<1>3. DOMAIN archive' = Pushes /\ \A q \in Pushes : archive'[q] = (archive[q] /\ q \notin gone \cap own)
  BY <1>2, Zenon
<1>4. \A q \in Pushes : archive'[q] => archive[q]
  BY <1>3, Zenon
<1>5. \A q \in Pushes : q \notin gone /\ archive[q] => archive'[q]
  BY <1>3, Zenon
<1> QED
  BY <1>1, <1>3, <1>4, <1>5, Zenon

\* A push is as it was if what is deleted was not its own, or it is through with it.
LEMMA PushDeleted ==
  ASSUME PushTyped, NEW gone, NEW own, Deleted(gone, own), NEW q \in Pushes, PushPlaced(q),
         helper'[q] = helper[q], push'[q] = push[q], fetch' = fetch,
         q \in gone => ~ Early(q) /\ (Under(q) => Fetched(q))
  PROVE  PushPlaced(q)'
<1>1. transfer'[q] = transfer[q] \/ (q \in gone /\ transfer'[q] = "none")
  BY DeletedTakes
<1>2. archive'[q] => archive[q]
  BY DeletedTakes
<1>3. q \notin gone /\ archive[q] => archive'[q]
  BY DeletedTakes
<1> QED
  BY <1>1, <1>2, <1>3 DEF PushPlaced, Early, Under, Fetched

\* The steps of the push itself, which touch nothing of another push's.
LEMMA PushOwnStep ==
  ASSUME PushInv, NEW p \in Pushes,
         \/ readRegistryPushRequestWithTimeout(p) \/ authorizePush(p) \/ registerRegistryPushTransfer(p)
         \/ PushDockerArchive(p) \/ HelperEnds(p) \/ waitPodSucceeded(p)
         \/ HandleRuntimeRegistryPush(p) \/ TransferExpires(p)
  PROVE  PushInv'
<1>1. PushTyped /\ (\A q \in Pushes : PushPlaced(q)) /\ PushPlaced(p) /\ ~ lateOpen
  BY DEF PushInv
<1>2. fetch' = fetch /\ lateOpen' = lateOpen
  BY DEF readRegistryPushRequestWithTimeout, authorizePush, registerRegistryPushTransfer, PushDockerArchive,
         HelperEnds, waitPodSucceeded, HandleRuntimeRegistryPush, TransferExpires
<1>3. /\ DOMAIN transfer' = Pushes /\ DOMAIN archive' = Pushes /\ DOMAIN helper' = Pushes /\ DOMAIN push' = Pushes
      /\ \A q \in Pushes \ {p} : transfer'[q] = transfer[q] /\ helper'[q] = helper[q] /\ push'[q] = push[q]
  BY <1>1 DEF PushTyped, Goes, readRegistryPushRequestWithTimeout, authorizePush, registerRegistryPushTransfer,
              PushDockerArchive, HelperEnds, waitPodSucceeded, HandleRuntimeRegistryPush, TransferExpires
<1>4. \A q \in Pushes \ {p} : archive'[q] = archive[q]
  BY <1>1 DEF PushTyped, readRegistryPushRequestWithTimeout, authorizePush, registerRegistryPushTransfer,
              PushDockerArchive, HelperEnds, waitPodSucceeded, HandleRuntimeRegistryPush, TransferExpires
<1>5. PushTyped'
  BY <1>1, <1>2, <1>3 DEF PushTyped
<1>6. \A q \in Pushes \ {p} : PushPlaced(q)'
  BY <1>1, <1>2, <1>3, <1>4, PushUntouched
<1>7. PushPlaced(p)'
  <2>1. CASE readRegistryPushRequestWithTimeout(p)
    <3>1. push[p] = "start" /\ transfer' = transfer /\ helper' = helper
      BY <2>1 DEF readRegistryPushRequestWithTimeout
    <3>2. \/ push'[p] = "uploaded" /\ archive'[p]
          \/ push'[p] = "ended" /\ archive' = archive
      BY <1>1, <2>1 DEF PushTyped, Goes, readRegistryPushRequestWithTimeout
    <3> QED
      BY <1>1, <1>2, <3>1, <3>2 DEF PushPlaced, Early, Under
  <2>2. CASE authorizePush(p)
    <3>1. push[p] = "uploaded" /\ transfer' = transfer /\ helper' = helper /\ archive' = archive
      BY <2>2 DEF authorizePush
    <3>2. push'[p] = "allowed" \/ push'[p] = "return"
      BY <1>1, <2>2 DEF PushTyped, Goes, authorizePush
    <3> QED
      BY <1>1, <1>2, <3>1, <3>2 DEF PushPlaced, Early, Under
  <2>3. CASE registerRegistryPushTransfer(p)
    <3>1. push[p] = "purged" /\ helper' = helper /\ archive' = archive
      BY <2>3 DEF registerRegistryPushTransfer
    <3>2. (push'[p] = "pushing" /\ transfer'[p] = "live") \/ push'[p] = "return"
      BY <1>1, <2>3 DEF PushTyped, Goes, registerRegistryPushTransfer
    <3> QED
      BY <1>1, <1>2, <3>1, <3>2 DEF PushPlaced, Early, Under
  <2>4. CASE PushDockerArchive(p)
    <3>1. push[p] = "pushing" /\ transfer' = transfer /\ archive' = archive
      BY <2>4 DEF PushDockerArchive
    <3>2. push'[p] = "waiting" \/ push'[p] = "revoke"
      BY <1>1, <2>4 DEF PushTyped, Goes, PushDockerArchive
    <3> QED
      BY <1>1, <1>2, <3>1, <3>2 DEF PushPlaced, Early, Under, Fetched
  <2>5. CASE HelperEnds(p)
    <3>1. helper[p] = "running" /\ transfer' = transfer /\ archive' = archive /\ push' = push
      BY <2>5 DEF HelperEnds
    <3> QED
      BY <1>1, <1>2, <3>1 DEF PushPlaced, Early, Under, Fetched
  <2>6. CASE waitPodSucceeded(p)
    <3>1. push[p] = "waiting" /\ transfer' = transfer /\ archive' = archive
      BY <2>6 DEF waitPodSucceeded
    <3>2. push'[p] = "return" \/ push'[p] = "revoke"
      BY <1>1, <2>6 DEF PushTyped, Goes, waitPodSucceeded
    <3> QED
      BY <3>1, <3>2 DEF PushPlaced, Early, Under
  <2>7. CASE HandleRuntimeRegistryPush(p)
    <3>1. push'[p] = "ended" /\ ~ archive'[p]
      BY <1>1, <2>7 DEF PushTyped, Goes, HandleRuntimeRegistryPush
    <3> QED
      BY <3>1 DEF PushPlaced, Early, Under
  <2>8. CASE TransferExpires(p)
    <3>1. transfer[p] = "live" /\ ~ Under(p) /\ push' = push /\ archive' = archive /\ helper' = helper
      BY <2>8 DEF TransferExpires, Under
    <3> QED
      BY <1>1, <1>2, <3>1 DEF PushPlaced, Early, Under
  <2> QED
    BY <2>1, <2>2, <2>3, <2>4, <2>5, <2>6, <2>7, <2>8
<1> QED
  BY <1>1, <1>2, <1>5, <1>6, <1>7 DEF PushInv

\* Only what expired is purged, and only what failed is revoked.
LEMMA PushDeletingStep ==
  ASSUME PushInv, NEW p \in Pushes,
         purgeExpiredRegistryPushTransfers(p) \/ revokeRegistryPushTransfer(p)
  PROVE  PushInv'
<1>1. PushTyped /\ (\A q \in Pushes : PushPlaced(q)) /\ PushPlaced(p) /\ ~ lateOpen
  BY DEF PushInv
<1>2. fetch' = fetch /\ lateOpen' = lateOpen /\ helper' = helper
  BY DEF purgeExpiredRegistryPushTransfers, revokeRegistryPushTransfer
<1>3. DOMAIN push' = Pushes /\ \A q \in Pushes \ {p} : push'[q] = push[q]
  BY <1>1 DEF PushTyped, Goes, purgeExpiredRegistryPushTransfers, revokeRegistryPushTransfer
<1>4. CASE purgeExpiredRegistryPushTransfers(p)
  <2>1. PICK own : Deleted({q \in Pushes : transfer[q] = "expired"}, own)
    BY <1>4 DEF purgeExpiredRegistryPushTransfers
  <2>2. push[p] = "allowed" /\ push'[p] = "purged"
    BY <1>1, <1>4 DEF PushTyped, Goes, purgeExpiredRegistryPushTransfers
  <2>3. DOMAIN transfer' = Pushes /\ DOMAIN archive' = Pushes
    BY <1>1, <2>1, DeletedTakes
  <2>4. \A q \in Pushes : q \in {r \in Pushes : transfer[r] = "expired"} => ~ Early(q) /\ (Under(q) => Fetched(q))
    BY <1>1 DEF PushPlaced
  <2>5. \A q \in Pushes \ {p} : PushPlaced(q)'
    BY <1>1, <1>2, <1>3, <2>1, <2>4, PushDeleted
  <2>6. p \notin {r \in Pushes : transfer[r] = "expired"} /\ transfer[p] = "none" /\ archive[p]
    BY <1>1, <2>2 DEF PushPlaced, Early
  <2>7. transfer'[p] = transfer[p]
    BY <1>1, <2>1, <2>6, DeletedTakes
  <2>8. archive'[p]
    BY <1>1, <2>1, <2>6, DeletedTakes
  <2>9. PushPlaced(p)'
    BY <1>1, <1>2, <2>2, <2>7, <2>8 DEF PushPlaced, Early, Under
  <2> QED
    BY <1>1, <1>2, <1>3, <2>3, <2>5, <2>9 DEF PushInv, PushTyped
<1>5. CASE revokeRegistryPushTransfer(p) /\ UNCHANGED <<transfer, archive>>
  <2>1. push[p] = "revoke" /\ push'[p] = "return"
    BY <1>1, <1>5 DEF PushTyped, Goes, revokeRegistryPushTransfer
  <2>2. PushPlaced(p)'
    BY <2>1 DEF PushPlaced, Early, Under
  <2>3. \A q \in Pushes \ {p} : PushPlaced(q)'
    BY <1>1, <1>2, <1>3, <1>5, PushUntouched
  <2> QED
    BY <1>1, <1>2, <1>3, <1>5, <2>2, <2>3 DEF PushInv, PushTyped
<1>6. CASE revokeRegistryPushTransfer(p) /\ Deleted({p}, {p})
  <2>1. push[p] = "revoke" /\ push'[p] = "return"
    BY <1>1, <1>6 DEF PushTyped, Goes, revokeRegistryPushTransfer
  <2>2. PushPlaced(p)'
    BY <2>1 DEF PushPlaced, Early, Under
  <2>3. \A q \in Pushes \ {p} : q \notin {p}
    OBVIOUS
  <2>4. \A q \in Pushes \ {p} : PushPlaced(q)'
    BY <1>1, <1>2, <1>3, <1>6, <2>3, PushDeleted
  <2>5. DOMAIN transfer' = Pushes /\ DOMAIN archive' = Pushes
    BY <1>1, <1>6, DeletedTakes
  <2> QED
    BY <1>1, <1>2, <1>3, <2>2, <2>4, <2>5 DEF PushInv, PushTyped
<1> QED
  BY <1>4, <1>5, <1>6 DEF revokeRegistryPushTransfer

\* One fetch goes on: what its push had of fetches it has.
LEMMA PushFetch ==
  ASSUME PushTyped, NEW f \in Fetchers, NEW pc, fetch' = [fetch EXCEPT ![f].pc = pc],
         fetch[f].pc # "served"
  PROVE  /\ DOMAIN fetch' = Fetchers
         /\ \A g \in Fetchers : fetch'[g] = [pc |-> fetch'[g].pc, of |-> fetch[g].of] /\ fetch'[g].of = fetch[g].of
         /\ \A g \in Fetchers : (g = f /\ fetch'[g].pc = pc) \/ (g # f /\ fetch'[g].pc = fetch[g].pc)
         /\ \A q \in Pushes : Fetched(q) => Fetched(q)'
<1>1. PICK x : x = fetch[f]
  OBVIOUS
<1>2. x = [pc |-> x.pc, of |-> x.of]
  BY <1>1 DEF PushTyped
<1>3. PICK y : y = [x EXCEPT !.pc = pc]
  OBVIOUS
<1>4. y = [pc |-> pc, of |-> x.of] /\ y.pc = pc /\ y.of = x.of
  BY <1>2, <1>3
<1>5. fetch' = [fetch EXCEPT ![f] = y]
  BY <1>1, <1>3 DEF PushTyped
<1>6. DOMAIN fetch' = Fetchers /\ fetch'[f] = y /\ \A g \in Fetchers \ {f} : fetch'[g] = fetch[g]
  BY <1>5 DEF PushTyped
<1>7. \A g \in Fetchers : fetch'[g] = [pc |-> fetch'[g].pc, of |-> fetch[g].of] /\ fetch'[g].of = fetch[g].of
  BY <1>1, <1>4, <1>6 DEF PushTyped
<1>8. \A g \in Fetchers : (g = f /\ fetch'[g].pc = pc) \/ (g # f /\ fetch'[g].pc = fetch[g].pc)
  BY <1>4, <1>6
<1>9. ASSUME NEW q \in Pushes PROVE Fetched(q) => Fetched(q)'
  <2> SUFFICES ASSUME NEW g \in Fetchers, fetch[g] = [pc |-> "served", of |-> q] PROVE Fetched(q)'
    BY DEF Fetched
  <2>1. fetch[g].pc = "served"
    OBVIOUS
  <2>2. fetch'[g] = fetch[g]
    BY <1>6, <2>1
  <2> QED
    BY <2>2 DEF Fetched
<1> QED
  BY <1>6, <1>7, <1>8, <1>9

\* A helper's request moves on; what it takes away it has.
LEMMA PushFetchStep ==
  ASSUME PushInv, NEW f \in Fetchers,
         lookupRegistryPushTransfer(f) \/ HandleRegistryPushTransfer(f) \/ deleteRegistryPushTransfer(f)
  PROVE  PushInv'
<1>1. PushTyped /\ (\A q \in Pushes : PushPlaced(q)) /\ ~ lateOpen
  BY DEF PushInv
<1>2. PICK p \in Pushes : p = fetch[f].of
  BY <1>1 DEF PushTyped
<1>3. fetch[f].pc # "served" /\ helper' = helper /\ push' = push
  BY DEF lookupRegistryPushTransfer, HandleRegistryPushTransfer, deleteRegistryPushTransfer
<1>4. PICK pc : fetch' = [fetch EXCEPT ![f].pc = pc] /\
                (pc = "open" \/ pc = "refused" \/ pc = "delete" \/ pc = "served")
  BY DEF lookupRegistryPushTransfer, HandleRegistryPushTransfer, deleteRegistryPushTransfer
<1>5. ~ Early(p)
  BY <1>1, <1>2 DEF PushPlaced, lookupRegistryPushTransfer, HandleRegistryPushTransfer, deleteRegistryPushTransfer
<1>6. /\ DOMAIN fetch' = Fetchers
      /\ \A g \in Fetchers : fetch'[g] = [pc |-> fetch'[g].pc, of |-> fetch[g].of] /\ fetch'[g].of = fetch[g].of
      /\ \A g \in Fetchers : (g = f /\ fetch'[g].pc = pc) \/ (g # f /\ fetch'[g].pc = fetch[g].pc)
      /\ \A q \in Pushes : Fetched(q) => Fetched(q)'
  <2>1. PushTyped /\ fetch' = [fetch EXCEPT ![f].pc = pc] /\ fetch[f].pc # "served"
    BY <1>1, <1>3, <1>4
  <2> QED
    BY <2>1, PushFetch
<1>7. \A q \in Pushes : Fetched(q) => Fetched(q)'
  BY <1>6
<1>8. /\ DOMAIN transfer' = Pushes /\ DOMAIN archive' = Pushes
      /\ \A q \in Pushes : transfer'[q] = transfer[q] \/ (q = p /\ transfer'[q] = "none")
  <2>1. Deleted({p}, {p}) \/ UNCHANGED <<transfer, archive>>
    BY <1>2 DEF lookupRegistryPushTransfer, HandleRegistryPushTransfer, deleteRegistryPushTransfer
  <2> QED
    BY <1>1, <2>1, DeletedTakes DEF PushTyped
<1>9. \A q \in Pushes : archive'[q] => archive[q]
  <2>1. Deleted({p}, {p}) \/ archive' = archive
    BY <1>2 DEF lookupRegistryPushTransfer, HandleRegistryPushTransfer, deleteRegistryPushTransfer
  <2> QED
    BY <1>1, <2>1, DeletedTakes
<1>10. \A q \in Pushes \ {p} : archive[q] => archive'[q]
  <2>1. Deleted({p}, {p}) \/ archive' = archive
    BY <1>2 DEF lookupRegistryPushTransfer, HandleRegistryPushTransfer, deleteRegistryPushTransfer
  <2>2. \A q \in Pushes \ {p} : q \notin {p}
    OBVIOUS
  <2> QED
    BY <1>1, <2>1, <2>2, DeletedTakes
<1>11. Under(p) => (transfer'[p] = "live" /\ archive'[p]) \/ Fetched(p)'
  <2> SUFFICES ASSUME Under(p), ~ Fetched(p) PROVE (transfer'[p] = "live" /\ archive'[p]) \/ Fetched(p)'
    BY <1>7
  <2>1. transfer[p] = "live" /\ archive[p]
    BY <1>1 DEF PushPlaced
  <2>2. CASE lookupRegistryPushTransfer(f) \/ HandleRegistryPushTransfer(f)
    <3>1. transfer' = transfer /\ archive' = archive
      BY <1>2, <2>1, <2>2 DEF lookupRegistryPushTransfer, HandleRegistryPushTransfer
    <3> QED
      BY <2>1, <3>1
  <2>3. CASE deleteRegistryPushTransfer(f)
    <3>1. fetch' = [fetch EXCEPT ![f].pc = "served"]
      BY <2>3 DEF deleteRegistryPushTransfer
    <3>2. fetch'[f].pc = "served"
      BY <1>1, <3>1 DEF PushTyped
    <3>3. fetch'[f] = [pc |-> "served", of |-> p]
      BY <1>2, <1>6, <3>2
    <3> QED
      BY <3>3 DEF Fetched
  <2> QED
    BY <2>2, <2>3
<1>12. PushPlaced(p)'
  BY <1>1, <1>3, <1>5, <1>9, <1>11 DEF PushPlaced, Early, Under
<1>13. ASSUME NEW q \in Pushes \ {p} PROVE PushPlaced(q)'
  <2>1. \A g \in Fetchers : fetch'[g].of = q => fetch'[g].pc = fetch[g].pc /\ fetch[g].of = q
    BY <1>2, <1>6
  <2>2. transfer'[q] = transfer[q]
    BY <1>8
  <2>3. Fetched(q) => Fetched(q)'
    BY <1>7
  <2>4. /\ Early(q)' => /\ transfer'[q] = "none" /\ helper'[q] = "none"
                        /\ \A g \in Fetchers : fetch'[g].of = q => fetch'[g].pc = "start" \/ fetch'[g].pc = "refused"
    BY <1>1, <1>3, <2>1, <2>2 DEF PushPlaced, Early
  <2> QED
    BY <1>1, <1>3, <1>9, <1>10, <2>2, <2>3, <2>4 DEF PushPlaced, Early, Under
<1>14. ~ lateOpen'
  <2>1. CASE HandleRegistryPushTransfer(f)
    <3>1. lateOpen' = (lateOpen \/ (archive[p] /\ push[p] = "ended"))
      BY <1>2, <2>1 DEF HandleRegistryPushTransfer
    <3>2. ~ (archive[p] /\ push[p] = "ended")
      BY <1>1 DEF PushPlaced
    <3> QED
      BY <1>1, <3>1, <3>2, Zenon
  <2>2. CASE lateOpen' = lateOpen
    BY <1>1, <2>2
  <2> QED
    BY <2>1, <2>2 DEF lookupRegistryPushTransfer, deleteRegistryPushTransfer
<1>15. PushTyped'
  BY <1>1, <1>3, <1>6, <1>8 DEF PushTyped
<1> QED
  BY <1>12, <1>13, <1>14, <1>15 DEF PushInv

\* The stages of a push are kept.
LEMMA PushKept == PushInv /\ [PushNext]_pushVars => PushInv'
<1>1. ASSUME PushInv, UNCHANGED pushVars PROVE PushInv'
  BY <1>1 DEF pushVars, PushInv, PushTyped, PushPlaced, Early, Under, Fetched
<1> QED
  BY <1>1, PushOwnStep, PushDeletingStep, PushFetchStep DEF PushNext

\* One more inventory is stored, and the cache is pruned to the limit and to one generation.
LEMMA RefreshStep ==
  ASSUME InventoryInv, NEW k \in InventoryKeys, refresh(k)
  PROVE  InventoryInv'
<1>1. PICK all : all = [j \in Cached \cup {k} |-> IF j = k THEN inFlight[k] ELSE inventory[j]]
  OBVIOUS
<1>2. PICK left \in pruneLocked(all, inFlight[k], k) : inventory' = [j \in left |-> all[j]]
  BY <1>1 DEF refresh
<1>3. PICK young : young = {j \in DOMAIN all : j = k \/ (j[1] # k[1] /\ inFlight[k] - all[j] < 2 * InventoryTTL)}
  OBVIOUS
<1>4. left \in SUBSET young /\ Cardinality(left) = IF Cardinality(young) > MaxInventory THEN MaxInventory ELSE Cardinality(young)
  BY <1>2, <1>3 DEF pruneLocked
<1>5. young \in SUBSET (Cached \cup {k}) /\ \A j \in young : j = k \/ j[1] # k[1]
  BY <1>1, <1>3
<1>6. \A i, j \in left : i[1] = j[1] => i = j
  BY <1>4, <1>5 DEF InventoryInv, OneGeneration
<1>7. IsFiniteSet(young) /\ IsFiniteSet(left)
  <2>1. IsFiniteSet(Cached \cup {k})
    BY FS_AddElement DEF InventoryInv
  <2>2. IsFiniteSet(young)
    BY <1>5, <2>1, FS_Subset
  <2> QED
    BY <1>4, <2>2, FS_Subset
<1>8. Cardinality(left) <= MaxInventory
  <2>1. Cardinality(young) \in Nat /\ MaxInventory \in Nat
    BY <1>7, FS_CardinalityType, StoresAssumption
  <2> QED
    BY <1>4, <2>1
<1>9. Cached' = left
  BY <1>2 DEF Cached
<1> QED
  BY <1>6, <1>7, <1>8, <1>9 DEF InventoryInv, OneGeneration

\* Only a probe's end changes the cache.
LEMMA InventoryKept == InventoryInv /\ [InventoryNext]_inventoryVars => InventoryInv'
<1>1. ASSUME InventoryInv, inventory' = inventory PROVE InventoryInv'
  BY <1>1 DEF InventoryInv, Cached, OneGeneration
<1> QED
  BY <1>1, RefreshStep DEF InventoryNext, inventoryVars, getOrStart, probeEnds, InventoryAges, ServerChanges

\* At first no push has begun.
LEMMA PushInitially == PushInit => PushInv
<1> SUFFICES ASSUME PushInit PROVE PushInv
  OBVIOUS
<1>1. /\ transfer = [p \in Pushes |-> "none"] /\ archive = [p \in Pushes |-> FALSE]
      /\ helper = [p \in Pushes |-> "none"] /\ push = [p \in Pushes |-> "start"]
      /\ fetch \in [Fetchers -> [pc : {"start"}, of : Pushes]] /\ lateOpen = FALSE
  BY DEF PushInit
<1>2. \A f \in Fetchers : fetch[f] = [pc |-> fetch[f].pc, of |-> fetch[f].of] /\ fetch[f].of \in Pushes /\ fetch[f].pc = "start"
  BY <1>1
<1>3. PushTyped
  BY <1>1, <1>2 DEF PushTyped
<1>4. \A p \in Pushes : ~ archive[p]
  BY <1>1
<1>5. \A p \in Pushes : PushPlaced(p)
  BY <1>1, <1>2, <1>4 DEF PushPlaced, Early, Under
<1> QED
  BY <1>1, <1>3, <1>5 DEF PushInv

\* A key works while it was promised and not withdrawn, no archive is opened after its push or taken
\* from one under way, and the cache of inventories keeps to its limit and one generation of a server.
THEOREM StoresAreKept == KeysSpec /\ PushSpec /\ InventorySpec => []StoresKeep
<1>1. KeysInv /\ [KeysNext]_keyVars => KeysInv'
  <2>1. KeysInv /\ UNCHANGED keyVars => KeysInv'
    BY DEF keyVars, KeysInv, CallSound
  <2> QED
    BY <2>1, LoadStep, StoreStep, FailStep DEF KeysNext
<1>2. InventoryInit => InventoryInv
  <2> SUFFICES ASSUME InventoryInit PROVE InventoryInv
    OBVIOUS
  <2>1. Cached = {}
    BY DEF InventoryInit, Cached
  <2> QED
    BY <2>1, FS_EmptySet, StoresAssumption DEF InventoryInv, OneGeneration
<1>3. KeysInv => KeysKept
  BY DEF KeysInv, KeysKept, AuthenticateUserAPIKey, loadUserAPIKeyRecords
<1>4. PushInv => NothingServedAfterPush /\ TransferKept
  BY DEF PushInv, PushPlaced, Under, Fetched, NothingServedAfterPush, TransferKept
<1>5. InventoryInv => InventoryBounded /\ OneGeneration
  BY DEF InventoryInv, InventoryBounded
<1> QED
  BY <1>1, <1>2, <1>3, <1>4, <1>5, KeysInitially, PushInitially, PushKept, InventoryKept, PTL
     DEF KeysSpec, PushSpec, InventorySpec, StoresKeep
-----------------------------------------------------------------------------
\* One server's retirement.

\* A request that has come to one of these stores no session any more.
Settled == {"recheck", "done", "failed"}
Stored(s) == request[s].pc \in Settled

\* A server UID is the present server's, or fenced: once gone it is fenced.
Rooted(u) == u \in fenced \/ (server # NoObject /\ server.uid = u)

\* A session that has its certificate is not pending, nor was it abandoned.
Enrolled(s) == s \notin abandoned /\ (sessions[s] = NoObject \/ ~ sessions[s].pending)
SessionKept(s) ==
    /\ sessions[s] # NoObject =>
          Stored(s) /\ sessions[s].uid = sessions[s].grantUid /\ Rooted(sessions[s].uid)
    /\ Live(sessions[s]) => sessions[s].uid \notin fenced
    /\ s \in delivered => Stored(s) /\ Enrolled(s)
    /\ s \in abandoned => Stored(s) /\ sessions[s] = NoObject

\* What a request remembers, at each place where it acts on it.
LocalSound(x) ==
    /\ x.pc = "credential" => x.op \in {"publish", "update"}
    /\ x.pc \in {"mark", "bind", "apply", "reuse", "bindSession", "put"} => x.cur # NoObject
    /\ x.pc = "put" => x.secret = x.cur.uid /\ Rooted(x.secret)
    /\ x.pc = "fence" /\ x.cur # NoObject => x.cur.uid \in fenced \cup x.uids
    /\ x.pc \in {"access", "disable", "revoke", "delete", "grant", "secret", "unsecret", "server"}
          => x.cur = NoObject \/ x.cur.uid \in fenced
    /\ x.pc \in {"issued", "complete", "respond", "discard"} => x.sid \in Sids /\ Stored(x.sid)
    /\ x.pc = "respond" => Enrolled(x.sid)
WorldTyped ==
    /\ server \in Server \cup {NoObject} /\ secret \in 0 .. MaxUid
    /\ colliding \in BOOLEAN /\ agentActive \in BOOLEAN
    /\ grant \in Grant \cup {NoObject}
    /\ sessions \in [Sids -> Session \cup {NoObject}]
    /\ fenced \subseteq 1 .. MaxUid /\ lastUid \in 1 .. MaxUid
    /\ delivered \subseteq Sids /\ abandoned \subseteq Sids
RetireInv ==
    /\ WorldTyped /\ request \in [Requests -> Local]
    /\ \A s \in Sids : SessionKept(s)
    /\ \A r \in Requests : LocalSound(request[r])

\* UIDs are numbers.
LEMMA UidBound == MaxUid \in Nat \ {0}
BY FS_CardinalityType, RetirementAssumption DEF MaxUid

\* The world only goes on: what is fenced, rooted or enrolled stays so.
WorldOnward ==
    /\ fenced \subseteq fenced' /\ \A u : Rooted(u) => Rooted(u)'
    /\ \A s \in Sids : Stored(s) /\ Enrolled(s) => Enrolled(s)'

\* A settled request stays settled.
LEMMA StoredStays ==
  ASSUME RetireInv, NEW r \in Requests, NEW z \in Local, request' = [request EXCEPT ![r] = z],
         request[r].pc \in Settled => z.pc \in Settled
  PROVE  \A s \in Sids : Stored(s) => Stored(s)'
BY DEF RetireInv, Stored, Sids

\* One request's step keeps the invariant if it leaves the world, the sessions and itself sound.
LEMMA OneStep ==
  ASSUME RetireInv, NEW r \in Requests, NEW z \in Local, request' = [request EXCEPT ![r] = z],
         request[r].pc \in Settled => z.pc \in Settled,
         WorldOnward, WorldTyped', \A s \in Sids : SessionKept(s)', LocalSound(z)'
  PROVE  RetireInv'
<1>1. \A s \in Sids : Stored(s) => Stored(s)'
  BY StoredStays
<1>2. request' \in [Requests -> Local]
  BY DEF RetireInv
<1>3. ASSUME NEW q \in Requests, q # r PROVE LocalSound(request[q])'
  <2>1. PICK x : x = request[q]
    OBVIOUS
  <2>2. request'[q] = x /\ LocalSound(x)
    BY <1>3, <2>1 DEF RetireInv
  <2>3. LocalSound(x)'
    BY <1>1, <2>2 DEF LocalSound, WorldOnward
  <2> QED
    BY <2>2, <2>3 DEF LocalSound
<1>4. LocalSound(request[r])'
  BY DEF RetireInv, LocalSound
<1> QED
  BY <1>2, <1>3, <1>4 DEF RetireInv

\* A step that only reads.
LEMMA ReadStep ==
  ASSUME RetireInv, NEW r \in Requests, NEW z \in Local, request' = [request EXCEPT ![r] = z],
         request[r].pc \in Settled => z.pc \in Settled, UNCHANGED world, LocalSound(z)
  PROVE  RetireInv'
<1>1. \A s \in Sids : Stored(s) => Stored(s)'
  BY StoredStays
<1>2. WorldTyped' /\ WorldOnward
  BY DEF world, RetireInv, WorldTyped, WorldOnward, Rooted, Enrolled
<1>3. \A s \in Sids : SessionKept(s)'
  BY <1>1 DEF world, RetireInv, SessionKept, Rooted, Enrolled, Live
<1>4. LocalSound(z)'
  BY <1>1, <1>2 DEF LocalSound, world, WorldOnward
<1> QED
  BY <1>2, <1>3, <1>4, OneStep

\* A step that changes an object other than a session.
LEMMA ObjectStep ==
  ASSUME RetireInv, NEW r \in Requests, NEW z \in Local, request' = [request EXCEPT ![r] = z],
         request[r].pc \in Settled => z.pc \in Settled, WorldTyped', \A u : Rooted(u) => Rooted(u)',
         UNCHANGED <<sessions, fenced, delivered, abandoned>>, LocalSound(z)
  PROVE  RetireInv'
<1>1. \A s \in Sids : Stored(s) => Stored(s)'
  BY StoredStays
<1>2. WorldOnward
  BY DEF WorldOnward, Enrolled
<1>3. \A s \in Sids : SessionKept(s)'
  BY <1>1 DEF RetireInv, SessionKept, Enrolled, Live
<1>4. LocalSound(z)'
  BY <1>1, <1>2 DEF LocalSound, WorldOnward
<1> QED
  BY <1>2, <1>3, <1>4, OneStep

\* A session is kept, revoked or removed.
Lessened(s) ==
    \/ sessions'[s] \in {NoObject, sessions[s]}
    \/ sessions[s] # NoObject /\ sessions'[s] = [sessions[s] EXCEPT !.revoked = TRUE]
SessionsTyped == sessions' = [s \in Sids |-> sessions'[s]]
\* It keeps what its session rests on, and what was not live does not become so.
LEMMA LessenedKept ==
  ASSUME WorldTyped, NEW s \in Sids, Lessened(s)
  PROVE  /\ sessions'[s] \in Session \cup {NoObject}
         /\ sessions'[s] # NoObject =>
               /\ sessions[s] # NoObject /\ sessions'[s].uid = sessions[s].uid
               /\ sessions'[s].grantUid = sessions[s].grantUid /\ sessions'[s].pending = sessions[s].pending
               /\ Live(sessions'[s]) => Live(sessions[s])
<1>1. CASE sessions'[s] \in {NoObject, sessions[s]}
  BY <1>1 DEF WorldTyped
<1>2. CASE sessions[s] # NoObject /\ sessions'[s] = [sessions[s] EXCEPT !.revoked = TRUE]
  <2>1. PICK x \in Session : x = sessions[s]
    BY <1>2 DEF WorldTyped
  <2>2. sessions'[s] = [x EXCEPT !.revoked = TRUE]
    BY <1>2, <2>1
  <2>3. sessions'[s] = [uid |-> x.uid, grantUid |-> x.grantUid, revoked |-> TRUE, pending |-> x.pending]
    BY <2>2 DEF Session
  <2>4. sessions'[s].revoked = TRUE
    BY <2>3
  <2>5. ~ Live(sessions'[s])
    BY <2>4 DEF Live
  <2> QED
    BY <1>2, <2>1, <2>3, <2>5 DEF Session
<1> QED
  BY <1>1, <1>2 DEF Lessened

\* A step that takes sessions away.
LEMMA SessionsStep ==
  ASSUME RetireInv, NEW r \in Requests, NEW z \in Local, request' = [request EXCEPT ![r] = z],
         request[r].pc \in Settled => z.pc \in Settled, agentActive' \in BOOLEAN, grant' \in Grant \cup {NoObject},
         UNCHANGED <<server, secret, colliding, lastUid, fenced, delivered, abandoned>>,
         SessionsTyped, \A s \in Sids : Lessened(s), LocalSound(z)
  PROVE  RetireInv'
<1>1. \A s \in Sids : Stored(s) => Stored(s)'
  BY StoredStays
<1>2. \A s \in Sids :
         /\ sessions'[s] \in Session \cup {NoObject}
         /\ sessions'[s] # NoObject =>
               /\ sessions[s] # NoObject /\ sessions'[s].uid = sessions[s].uid
               /\ sessions'[s].grantUid = sessions[s].grantUid /\ sessions'[s].pending = sessions[s].pending
               /\ Live(sessions'[s]) => Live(sessions[s])
  BY LessenedKept DEF RetireInv
<1>3. WorldTyped'
  BY <1>2 DEF RetireInv, WorldTyped, SessionsTyped
<1>4. \A u : Rooted(u) => Rooted(u)'
  BY DEF Rooted
<1>5. \A s \in Sids : Enrolled(s) => Enrolled(s)'
  BY <1>2 DEF Enrolled
<1>6. ASSUME NEW s \in Sids PROVE SessionKept(s)'
  <2>1. SessionKept(s)
    BY DEF RetireInv
  <2>2. PICK y : y = sessions'[s]
    OBVIOUS
  <2>3. y # NoObject => Stored(s)' /\ y.uid = y.grantUid /\ Rooted(y.uid)'
    BY <1>1, <1>2, <1>4, <2>1, <2>2 DEF SessionKept
  <2>4. Live(y) => y.uid \notin fenced'
    BY <1>2, <2>1, <2>2 DEF SessionKept, Live
  <2>5. s \in delivered' => Stored(s)' /\ Enrolled(s)'
    BY <1>1, <1>5, <2>1 DEF SessionKept
  <2>6. s \in abandoned' => Stored(s)' /\ y = NoObject
    BY <1>1, <1>2, <2>1, <2>2 DEF SessionKept
  <2> QED
    BY <2>2, <2>3, <2>4, <2>5, <2>6 DEF SessionKept, Live
<1>7. LocalSound(z)'
  BY <1>1, <1>4, <1>5 DEF LocalSound
<1> QED
  BY <1>3, <1>4, <1>5, <1>6, <1>7, OneStep DEF WorldOnward

\* What is left of a request that goes on.
Onward(z, x, pc) ==
    z.pc = pc /\ z.op = x.op /\ z.cur = x.cur /\ z.secret = x.secret /\ z.uids = x.uids /\ z.sid = x.sid
\* A request that goes on moves to one such state.
LEMMA GoStep ==
  ASSUME RetireInv, NEW r \in Requests, NEW pc \in Places, Go(r, pc)
  PROVE  \E z \in Local : request' = [request EXCEPT ![r] = z] /\ Onward(z, request[r], pc)
<1>1. PICK x \in Local : x = request[r]
  BY DEF RetireInv
<1>2. PICK z : z = [x EXCEPT !.pc = pc]
  OBVIOUS
<1>3. z \in Local /\ Onward(z, x, pc)
  BY <1>2 DEF Local, Onward
<1>4. request' = [request EXCEPT ![r] = z]
  BY <1>1, <1>2 DEF RetireInv, Go
<1> QED
  BY <1>1, <1>3, <1>4

\* A failure leaves things as they are.
LEMMA FailKept ==
  ASSUME RetireInv, NEW r \in Requests, fail(r)
  PROVE  RetireInv'
<1>1. PICK z \in Local : request' = [request EXCEPT ![r] = z] /\ Onward(z, request[r], "failed")
  BY GoStep DEF fail, Places
<1>2. z.pc = "failed"
  BY <1>1 DEF Onward
<1>3. LocalSound(z)
  BY <1>2 DEF LocalSound
<1> QED
  BY <1>1, <1>2, <1>3, ReadStep DEF fail, Settled

\* Publishing makes a new server or keeps the UID of the one there is.
LEMMA PublishKept ==
  ASSUME RetireInv, NEW r \in Requests, publishCheck(r) \/ publishCredential(r) \/ publishWrite(r)
  PROVE  RetireInv'
<1>1. CASE publishCheck(r)
  <2>1. PICK z \in Local : request' = [request EXCEPT ![r] = z] /\ Onward(z, request[r], "credential")
    BY <1>1, GoStep DEF publishCheck, Places
  <2>2. z.pc = "credential" /\ z.op \in {"publish", "update"} /\ request[r].pc \notin Settled
    BY <1>1, <2>1 DEF Onward, publishCheck, At, Settled
  <2>3. LocalSound(z)
    BY <2>2 DEF LocalSound
  <2> QED
    BY <1>1, <2>1, <2>2, <2>3, ReadStep DEF publishCheck
<1>2. CASE publishCredential(r)
  <2>1. PICK z \in Local : request' = [request EXCEPT ![r] = z] /\ Onward(z, request[r], "write")
    BY <1>2, GoStep DEF publishCredential, Places
  <2>2. z.pc = "write" /\ request[r].pc \notin Settled
    BY <1>2, <2>1 DEF Onward, publishCredential, At, Settled
  <2>3. LocalSound(z)
    BY <2>2 DEF LocalSound
  <2>4. lastUid' \in 1..MaxUid /\ secret' \in 0..MaxUid
    BY <1>2, UidBound DEF publishCredential, RetireInv, WorldTyped
  <2>5. WorldTyped' /\ \A u : Rooted(u) => Rooted(u)'
    BY <1>2, <2>4 DEF publishCredential, RetireInv, WorldTyped, Rooted
  <2> QED
    BY <1>2, <2>1, <2>2, <2>3, <2>5, ObjectStep DEF publishCredential
<1>3. CASE publishWrite(r)
  <2>1. PICK z \in Local : request' = [request EXCEPT ![r] = z] /\ Onward(z, request[r], "done")
    BY <1>3, GoStep DEF publishWrite, Places
  <2>2. z.pc = "done" /\ request[r].pc \notin Settled
    BY <1>3, <2>1 DEF Onward, publishWrite, At, Settled
  <2>3. LocalSound(z)
    BY <2>2 DEF LocalSound
  <2>4. /\ server' \in Server /\ lastUid' \in 1..MaxUid
        /\ server # NoObject => server'.uid = server.uid
    <3>1. CASE server = NoObject
      <4>1. lastUid + 1 \in 1..MaxUid
        BY <1>3, <3>1, UidBound DEF publishWrite, RetireInv, WorldTyped
      <4>2. server' = [uid |-> lastUid', retiring |-> FALSE, by |-> r] /\ lastUid' = lastUid + 1
        BY <1>3, <3>1 DEF publishWrite
      <4> QED
        BY <3>1, <4>1, <4>2 DEF Server
    <3>2. CASE server # NoObject
      <4>1. PICK y \in Server : y = server
        BY <3>2 DEF RetireInv, WorldTyped
      <4>2. server' = [y EXCEPT !.retiring = FALSE, !.by = r] /\ lastUid' = lastUid
        BY <1>3, <3>2, <4>1 DEF publishWrite
      <4>3. server' \in Server /\ server'.uid = y.uid
        BY <4>2 DEF Server
      <4> QED
        BY <4>1, <4>2, <4>3 DEF RetireInv, WorldTyped
    <3> QED
      BY <3>1, <3>2
  <2>5. WorldTyped' /\ \A u : Rooted(u) => Rooted(u)'
    BY <1>3, <2>4, RetirementAssumption DEF publishWrite, RetireInv, WorldTyped, Rooted
  <2> QED
    BY <1>3, <2>1, <2>2, <2>3, <2>5, ObjectStep DEF publishWrite
<1> QED
  BY <1>1, <1>2, <1>3

\* The retirement starts: what it is about to retire is in its list.
LEMMA RetireStarts ==
  ASSUME RetireInv, NEW r \in Requests, retireInspect(r) \/ retireMark(r) \/ retireList(r)
  PROVE  RetireInv'
<1> PICK x \in Local : x = request[r] /\ LocalSound(x)
  BY DEF RetireInv
<1>1. CASE retireInspect(r)
  <2>1. PICK p \in Places : p = IF server = NoObject THEN "list" ELSE "mark"
    BY DEF Places
  <2>2. PICK z : z = [x EXCEPT !.pc = p, !.cur = server]
    OBVIOUS
  <2>3. z \in Local /\ z.pc = p /\ z.cur = server
    BY <2>2 DEF RetireInv, WorldTyped, Local
  <2>4. request' = [request EXCEPT ![r] = z] /\ request[r].pc \notin Settled
    BY <1>1, <2>1, <2>2 DEF retireInspect, Step, At, Settled
  <2>5. LocalSound(z)
    BY <2>1, <2>3 DEF LocalSound
  <2> QED
    BY <1>1, <2>3, <2>4, <2>5, ReadStep DEF retireInspect
<1>2. CASE retireMark(r)
  <2>1. PICK z \in Local : request' = [request EXCEPT ![r] = z] /\ Onward(z, request[r], "list")
    BY <1>2, GoStep DEF retireMark, Places
  <2>2. z.pc = "list" /\ request[r].pc \notin Settled /\ x.pc = "mark"
    BY <1>2, <2>1 DEF Onward, retireMark, At, Settled
  <2>3. LocalSound(z)
    BY <2>2 DEF LocalSound
  <2>4. PICK y \in Server : y = server
    BY <1>2, <2>2 DEF retireMark, RetireInv, WorldTyped, LocalSound
  <2>5. server' = [y EXCEPT !.retiring = TRUE, !.by = r]
    BY <1>2, <2>4 DEF retireMark
  <2>6. server' \in Server /\ server'.uid = y.uid
    BY <2>5 DEF Server
  <2>7. WorldTyped' /\ \A u : Rooted(u) => Rooted(u)'
    BY <1>2, <2>4, <2>6, RetirementAssumption DEF retireMark, RetireInv, WorldTyped, Rooted
  <2> QED
    BY <1>2, <2>1, <2>2, <2>3, <2>7, ObjectStep DEF retireMark
<1>3. CASE retireList(r)
  <2>1. PICK all : all = {sessions[s].uid : s \in {t \in Sids : sessions[t] # NoObject}}
                         \cup (IF x.cur = NoObject THEN {} ELSE {x.cur.uid})
    OBVIOUS
  <2>2. all \in SUBSET (1..MaxUid)
    BY <2>1 DEF RetireInv, WorldTyped, Local, Session, Server
  <2>3. PICK z : z = [x EXCEPT !.pc = "fence", !.uids = all]
    OBVIOUS
  <2>4. z \in Local /\ z.pc = "fence" /\ z.uids = all /\ z.cur = x.cur
    BY <2>2, <2>3 DEF Local, Places
  <2>5. request' = [request EXCEPT ![r] = z] /\ request[r].pc \notin Settled
    BY <1>3, <2>1, <2>3 DEF retireList, Step, At, Settled
  <2>6. LocalSound(z)
    BY <2>1, <2>4 DEF LocalSound
  <2> QED
    BY <1>3, <2>4, <2>5, <2>6, ReadStep DEF retireList
<1> QED
  BY <1>1, <1>2, <1>3

\* A UID is fenced and its sessions revoked at once; when none is left the server's own is fenced.
LEMMA FenceKept ==
  ASSUME RetireInv, NEW r \in Requests, retireFence(r)
  PROVE  RetireInv'
<1> PICK x \in Local : x = request[r] /\ LocalSound(x)
  BY DEF RetireInv
<1>1. x.pc = "fence" /\ request[r].pc \notin Settled
  BY DEF retireFence, At, Settled
<1>2. CASE x.uids = {}
  <2>1. PICK z \in Local : request' = [request EXCEPT ![r] = z] /\ Onward(z, request[r], "access")
    BY <1>2, GoStep DEF retireFence, Places
  <2>2. LocalSound(z)
    BY <1>1, <1>2, <2>1 DEF Onward, LocalSound
  <2> QED
    BY <1>1, <1>2, <2>1, <2>2, ReadStep DEF retireFence, world
<1>3. ASSUME NEW u \in x.uids, fenced' = fenced \cup {u},
             sessions' = [s \in Sids |-> IF Live(sessions[s]) /\ sessions[s].uid = u
                                         THEN [sessions[s] EXCEPT !.revoked = TRUE] ELSE sessions[s]],
             request' = [request EXCEPT ![r].uids = @ \ {u}],
             UNCHANGED <<server, secret, colliding, grant, lastUid, delivered, abandoned, agentActive>>
      PROVE  RetireInv'
  <2>1. PICK z : z = [x EXCEPT !.uids = @ \ {u}]
    OBVIOUS
  <2>2. z \in Local /\ z.pc = "fence" /\ z.uids = x.uids \ {u} /\ z.cur = x.cur
    BY <1>1, <2>1 DEF Local
  <2>3. request' = [request EXCEPT ![r] = z]
    BY <1>3, <2>1 DEF RetireInv
  <2>4. \A s \in Sids : Stored(s) => Stored(s)'
    BY <1>1, <2>2, <2>3, StoredStays
  <2>5. \A s \in Sids : Lessened(s)
    BY <1>3 DEF Lessened, Live
  <2>6. \A s \in Sids :
           /\ sessions'[s] \in Session \cup {NoObject}
           /\ sessions'[s] # NoObject =>
                 /\ sessions[s] # NoObject /\ sessions'[s].uid = sessions[s].uid
                 /\ sessions'[s].grantUid = sessions[s].grantUid /\ sessions'[s].pending = sessions[s].pending
                 /\ Live(sessions'[s]) => Live(sessions[s])
    BY <2>5, LessenedKept DEF RetireInv
  <2>7. WorldTyped'
    BY <1>3, <2>6 DEF RetireInv, WorldTyped, Local
  <2>8. WorldOnward
    BY <1>3, <2>6 DEF WorldOnward, Rooted, Enrolled
  <2>9. ASSUME NEW s \in Sids PROVE SessionKept(s)'
    <3>1. SessionKept(s)
      BY DEF RetireInv
    <3>2. PICK y : y = sessions'[s]
      OBVIOUS
    <3>3. y # NoObject => Stored(s)' /\ y.uid = y.grantUid /\ Rooted(y.uid)'
      BY <2>4, <2>6, <2>8, <3>1, <3>2 DEF SessionKept, WorldOnward
    <3>4. Live(y) => y.uid \notin fenced /\ y.uid # u
      <4>1. CASE Live(sessions[s]) /\ sessions[s].uid = u
        <5>1. PICK w \in Session : w = sessions[s]
          BY <4>1 DEF Live, RetireInv, WorldTyped
        <5>2. y = [w EXCEPT !.revoked = TRUE]
          BY <1>3, <3>2, <4>1, <5>1
        <5>3. y.revoked = TRUE
          BY <5>2 DEF Session
        <5> QED
          BY <5>3 DEF Live
      <4>2. CASE ~ (Live(sessions[s]) /\ sessions[s].uid = u)
        BY <1>3, <3>1, <3>2, <4>2 DEF SessionKept
      <4> QED
        BY <4>1, <4>2
    <3>5. s \in delivered' => Stored(s)' /\ Enrolled(s)'
      BY <1>3, <2>4, <2>8, <3>1 DEF SessionKept, WorldOnward
    <3>6. s \in abandoned' => Stored(s)' /\ y = NoObject
      BY <1>3, <2>4, <2>6, <3>1, <3>2 DEF SessionKept
    <3> QED
      BY <1>3, <3>2, <3>3, <3>4, <3>5, <3>6 DEF SessionKept, Live
  <2>10. LocalSound(z)'
    BY <1>1, <1>3, <2>2 DEF LocalSound
  <2> QED
    BY <1>1, <2>2, <2>3, <2>7, <2>8, <2>9, <2>10, OneStep
<1> QED
  BY <1>2, <1>3 DEF retireFence

\* Once the server's UID is fenced its access is listed, disabled, revoked and deleted.
LEMMA RetireAccessKept ==
  ASSUME RetireInv, NEW r \in Requests, retireAccessList(r) \/ retireDisable(r) \/ retireSession(r)
  PROVE  RetireInv'
<1> PICK x \in Local : x = request[r] /\ LocalSound(x)
  BY DEF RetireInv
<1>1. CASE retireAccessList(r)
  <2>1. PICK rows : rows = {s \in Sids : sessions[s] # NoObject}
    OBVIOUS
  <2>2. PICK left : left = {s \in rows : ~ sessions[s].revoked}
    OBVIOUS
  <2>3. PICK z : z = [x EXCEPT !.pc = "disable", !.grant = grant, !.listed = rows, !.todo = left]
    OBVIOUS
  <2>4. z \in Local /\ z.pc = "disable" /\ z.cur = x.cur
    BY <2>1, <2>2, <2>3 DEF RetireInv, WorldTyped, Local, Places
  <2>5. request' = [request EXCEPT ![r] = z] /\ request[r].pc \notin Settled /\ x.pc = "access"
    BY <1>1, <2>1, <2>2, <2>3 DEF retireAccessList, Step, At, Settled
  <2>6. LocalSound(z)
    BY <2>4, <2>5 DEF LocalSound
  <2> QED
    BY <1>1, <2>4, <2>5, <2>6, ReadStep DEF retireAccessList
<1>2. CASE retireDisable(r)
  <2>1. PICK z \in Local : request' = [request EXCEPT ![r] = z] /\ Onward(z, request[r], "revoke")
    BY <1>2, GoStep DEF retireDisable, Places
  <2>2. request[r].pc \notin Settled /\ x.pc = "disable"
    BY <1>2 DEF retireDisable, At, Settled
  <2>3. LocalSound(z)
    BY <2>1, <2>2 DEF LocalSound, Onward
  <2>4. grant' \in Grant \cup {NoObject}
    <3>1. CASE grant' = grant
      BY <3>1 DEF RetireInv, WorldTyped
    <3>2. CASE grant' # grant
      <4>1. grant # NoObject /\ grant' = [grant EXCEPT !.disabled = TRUE, !.by = r]
        BY <1>2, <3>2 DEF retireDisable
      <4>2. PICK y \in Grant : y = grant
        BY <4>1 DEF RetireInv, WorldTyped
      <4>3. grant' = [y EXCEPT !.disabled = TRUE, !.by = r]
        BY <4>1, <4>2
      <4> QED
        BY <4>3 DEF Grant
    <3> QED
      BY <3>1, <3>2
  <2>5. WorldTyped' /\ \A u : Rooted(u) => Rooted(u)'
    BY <1>2, <2>4 DEF retireDisable, RetireInv, WorldTyped, Rooted
  <2> QED
    BY <1>2, <2>1, <2>2, <2>3, <2>5, ObjectStep DEF retireDisable
<1>3. CASE retireSession(r)
  <2>1. x.pc \in {"revoke", "delete"} /\ request[r].pc \notin Settled
    BY <1>3 DEF retireSession, Settled
  <2>2. UNCHANGED <<server, secret, colliding, grant, fenced, lastUid, delivered, abandoned, agentActive>>
    BY <1>3 DEF retireSession
  <2>3. CASE x.todo = {}
    <3>1. PICK z : z = IF x.pc = "revoke" THEN [x EXCEPT !.pc = "delete", !.todo = x.listed] ELSE [x EXCEPT !.pc = "grant"]
      OBVIOUS
    <3>2. z \in Local /\ z.pc \in {"delete", "grant"} /\ z.cur = x.cur
      <4>1. CASE x.pc = "revoke"
        <5>1. z = [x EXCEPT !.pc = "delete", !.todo = x.listed]
          BY <3>1, <4>1
        <5> QED
          BY ZenonT(30), <5>1 DEF Local, Places
      <4>2. CASE x.pc # "revoke"
        <5>1. z = [x EXCEPT !.pc = "grant"]
          BY <3>1, <4>2
        <5> QED
          BY <5>1 DEF Local, Places
      <4> QED
        BY <4>1, <4>2
    <3>3. request' = [request EXCEPT ![r] = z] /\ UNCHANGED sessions
      BY <1>3, <2>3, <3>1 DEF retireSession, Step, At
    <3>4. LocalSound(z)
      BY <2>1, <3>2 DEF LocalSound
    <3> QED
      BY <2>1, <2>2, <3>2, <3>3, <3>4, ReadStep DEF world
  <2>4. CASE x.todo # {}
    <3>1. PICK s \in x.todo :
             /\ request' = [request EXCEPT ![r].todo = @ \ {s}]
             /\ sessions' = [sessions EXCEPT ![s] = IF @ = NoObject \/ At(r, "delete") THEN NoObject
                                                    ELSE [@ EXCEPT !.revoked = TRUE]]
      BY <1>3, <2>4 DEF retireSession
    <3>2. PICK z : z = [x EXCEPT !.todo = @ \ {s}]
      OBVIOUS
    <3>3. z \in Local /\ z.pc = x.pc /\ z.cur = x.cur
      BY <3>2 DEF Local
    <3>4. request' = [request EXCEPT ![r] = z]
      BY <3>1, <3>2 DEF RetireInv
    <3>5. LocalSound(z)
      BY <2>1, <3>3 DEF LocalSound
    <3>6. SessionsTyped
      BY <3>1 DEF SessionsTyped, RetireInv, WorldTyped
    <3>7. \A q \in Sids : Lessened(q)
      BY <3>1 DEF Lessened, RetireInv, WorldTyped
    <3>8. agentActive' \in BOOLEAN /\ grant' \in Grant \cup {NoObject}
      BY <2>2 DEF RetireInv, WorldTyped
    <3> QED
      BY <2>1, <2>2, <3>3, <3>4, <3>5, <3>6, <3>7, <3>8, SessionsStep
  <2> QED
    BY <2>3, <2>4
<1> QED
  BY <1>1, <1>2, <1>3

\* Only a server whose UID is fenced goes.
LEMMA RetireEndsKept ==
  ASSUME RetireInv, NEW r \in Requests,
         retireGrant(r) \/ retireSecretRead(r) \/ retireSecret(r) \/ retireServer(r)
  PROVE  RetireInv'
<1> PICK x \in Local : x = request[r] /\ LocalSound(x)
  BY DEF RetireInv
<1>1. CASE retireGrant(r)
  <2>1. PICK z \in Local : request' = [request EXCEPT ![r] = z] /\ Onward(z, request[r], "secret")
    BY <1>1, GoStep DEF retireGrant, Places
  <2>2. request[r].pc \notin Settled /\ x.pc = "grant"
    BY <1>1 DEF retireGrant, At, Settled
  <2>3. LocalSound(z)
    BY <2>1, <2>2 DEF LocalSound, Onward
  <2>4. WorldTyped' /\ \A u : Rooted(u) => Rooted(u)'
    BY <1>1 DEF retireGrant, RetireInv, WorldTyped, Rooted
  <2> QED
    BY <1>1, <2>1, <2>2, <2>3, <2>4, ObjectStep DEF retireGrant
<1>2. CASE retireSecretRead(r)
  <2>1. PICK p \in {"server", "unsecret"} : p = IF secret = 0 \/ colliding THEN "server" ELSE "unsecret"
    OBVIOUS
  <2>2. PICK z : z = [x EXCEPT !.secret = secret, !.pc = p]
    OBVIOUS
  <2>3. z \in Local /\ z.pc \in {"server", "unsecret"} /\ z.cur = x.cur
    BY <2>1, <2>2 DEF RetireInv, WorldTyped, Local, Places
  <2>4. request' = [request EXCEPT ![r] = z] /\ request[r].pc \notin Settled /\ x.pc = "secret"
    BY <1>2, <2>1, <2>2 DEF retireSecretRead, Step, At, Settled
  <2>5. LocalSound(z)
    BY <2>3, <2>4 DEF LocalSound
  <2> QED
    BY <1>2, <2>3, <2>4, <2>5, ReadStep DEF retireSecretRead
<1>3. CASE retireSecret(r)
  <2>1. PICK z \in Local : request' = [request EXCEPT ![r] = z] /\ Onward(z, request[r], "server")
    BY <1>3, GoStep DEF retireSecret, Places
  <2>2. request[r].pc \notin Settled /\ x.pc = "unsecret"
    BY <1>3 DEF retireSecret, At, Settled
  <2>3. LocalSound(z)
    BY <2>1, <2>2 DEF LocalSound, Onward
  <2>4. WorldTyped' /\ \A u : Rooted(u) => Rooted(u)'
    BY <1>3, UidBound DEF retireSecret, RetireInv, WorldTyped, Rooted
  <2> QED
    BY <1>3, <2>1, <2>2, <2>3, <2>4, ObjectStep DEF retireSecret
<1>4. CASE retireServer(r)
  <2>1. PICK z \in Local : request' = [request EXCEPT ![r] = z] /\ Onward(z, request[r], "done")
    BY <1>4, GoStep DEF retireServer, Places
  <2>2. request[r].pc \notin Settled /\ x.pc = "server"
    BY <1>4 DEF retireServer, At, Settled
  <2>3. LocalSound(z)
    BY <2>1 DEF LocalSound, Onward
  <2>4. server' = server \/ (server' = NoObject /\ server.uid \in fenced)
    BY <1>4, <2>2 DEF retireServer, LocalSound
  <2>5. WorldTyped' /\ \A u : Rooted(u) => Rooted(u)'
    BY <1>4, <2>4 DEF retireServer, RetireInv, WorldTyped, Rooted
  <2> QED
    BY <1>4, <2>1, <2>2, <2>3, <2>5, ObjectStep DEF retireServer
<1> QED
  BY <1>1, <1>2, <1>3, <1>4

\* A grant is written for the server that was checked.
LEMMA GrantsKept ==
  ASSUME RetireInv, NEW r \in Requests, grantCheck(r) \/ grantBind(r) \/ grantApply(r) \/ grantToggle(r)
  PROVE  RetireInv'
<1> PICK x \in Local : x = request[r] /\ LocalSound(x)
  BY DEF RetireInv
<1>1. CASE grantCheck(r)
  <2>1. PICK d \in BOOLEAN : d = (grant # NoObject /\ grant.disabled)
    OBVIOUS
  <2>2. PICK z : z = [x EXCEPT !.pc = "bind", !.cur = server, !.disabled = d]
    OBVIOUS
  <2>3. z \in Local /\ z.pc = "bind" /\ z.cur = server
    BY ZenonT(30), <2>2 DEF RetireInv, WorldTyped, Local, Places
  <2>4. request' = [request EXCEPT ![r] = z] /\ request[r].pc \notin Settled /\ server # NoObject
    BY <1>1, <2>1, <2>2 DEF grantCheck, Step, At, Settled, GetActiveMCPServerRef
  <2>5. LocalSound(z)
    BY <2>3, <2>4 DEF LocalSound
  <2> QED
    BY <1>1, <2>3, <2>4, <2>5, ReadStep DEF grantCheck
<1>2. CASE grantBind(r)
  <2>1. PICK z \in Local : request' = [request EXCEPT ![r] = z] /\ Onward(z, request[r], "apply")
    BY <1>2, GoStep DEF grantBind, Places
  <2>2. request[r].pc \notin Settled /\ x.pc = "bind"
    BY <1>2 DEF grantBind, At, Settled
  <2>3. LocalSound(z)
    BY <2>1, <2>2 DEF LocalSound, Onward
  <2> QED
    BY <1>2, <2>1, <2>2, <2>3, ReadStep DEF grantBind
<1>3. CASE grantApply(r)
  <2>1. PICK z \in Local : request' = [request EXCEPT ![r] = z] /\ Onward(z, request[r], "done")
    BY <1>3, GoStep DEF grantApply, Places
  <2>2. request[r].pc \notin Settled /\ x.pc = "apply"
    BY <1>3 DEF grantApply, At, Settled
  <2>3. LocalSound(z)
    BY <2>1, <2>2 DEF LocalSound, Onward
  <2>4. PICK o \in Requests \cup {NoObject} : o = IF grant = NoObject THEN r ELSE grant.obj
    BY DEF RetireInv, WorldTyped, Grant
  <2>5. x.cur.uid \in 1..MaxUid /\ x.disabled \in BOOLEAN
    BY <2>2 DEF LocalSound, Local, Server
  <2>6. grant' = [obj |-> o, by |-> r, uid |-> x.cur.uid, disabled |-> x.disabled]
    BY <1>3, <2>4 DEF grantApply
  <2>7. grant' \in Grant
    BY <2>5, <2>6 DEF Grant
  <2>8. WorldTyped' /\ \A u : Rooted(u) => Rooted(u)'
    BY <1>3, <2>7 DEF grantApply, RetireInv, WorldTyped, Rooted
  <2> QED
    BY <1>3, <2>1, <2>2, <2>3, <2>8, ObjectStep DEF grantApply
<1>4. CASE grantToggle(r)
  <2>1. PICK z \in Local : request' = [request EXCEPT ![r] = z] /\ Onward(z, request[r], "done")
    BY <1>4, GoStep DEF grantToggle, Places
  <2>2. request[r].pc \notin Settled
    BY <1>4 DEF grantToggle, At, Settled
  <2>3. LocalSound(z)
    BY <2>1, <2>2 DEF LocalSound, Onward
  <2>4. PICK y \in Grant : y = grant
    BY <1>4 DEF grantToggle, RetireInv, WorldTyped
  <2>5. PICK d \in BOOLEAN : d = (~ y.disabled)
    OBVIOUS
  <2>6. grant' = [y EXCEPT !.disabled = d, !.by = r]
    BY <1>4, <2>4, <2>5 DEF grantToggle
  <2>7. grant' \in Grant
    BY <2>6 DEF Grant
  <2>8. WorldTyped' /\ \A u : Rooted(u) => Rooted(u)'
    BY <1>4, <2>7 DEF grantToggle, RetireInv, WorldTyped, Rooted
  <2> QED
    BY <1>4, <2>1, <2>2, <2>3, <2>8, ObjectStep DEF grantToggle
<1> QED
  BY <1>1, <1>2, <1>3, <1>4

\* A session is selected and bound for one server, read once.
LEMMA IssueReadsKept ==
  ASSUME RetireInv, NEW r \in Requests, issueSelect(r) \/ issueReuse(r) \/ issueBind(r) \/ sessionApply(r)
  PROVE  RetireInv'
<1> PICK x \in Local : x = request[r] /\ LocalSound(x)
  BY DEF RetireInv
<1>1. CASE issueSelect(r) \/ sessionApply(r)
  <2>1. PICK p \in {"reuse", "bindSession"} : request' = [request EXCEPT ![r] = [request[r] EXCEPT !.pc = p, !.cur = server]]
    BY <1>1 DEF issueSelect, sessionApply, Step
  <2>2. PICK z : z = [x EXCEPT !.pc = p, !.cur = server]
    OBVIOUS
  <2>3. z \in Local /\ z.pc \in {"reuse", "bindSession"} /\ z.cur = server
    BY <2>2 DEF RetireInv, WorldTyped, Local, Places
  <2>4. request' = [request EXCEPT ![r] = z] /\ request[r].pc \notin Settled /\ server # NoObject
    BY <1>1, <2>1, <2>2 DEF issueSelect, sessionApply, At, Settled, GetActiveMCPServerRef, selectAdapterGrant
  <2>5. LocalSound(z)
    BY <2>3, <2>4 DEF LocalSound
  <2> QED
    BY <1>1, <2>3, <2>4, <2>5, ReadStep DEF issueSelect, sessionApply
<1>2. CASE issueReuse(r)
  <2>1. PICK p \in {"done", "bindSession"} : Go(r, p)
    BY <1>2 DEF issueReuse
  <2>2. p \in Places
    BY DEF Places
  <2>3. PICK z \in Local : request' = [request EXCEPT ![r] = z] /\ Onward(z, request[r], p)
    BY <2>1, <2>2, GoStep
  <2>4. request[r].pc \notin Settled /\ x.pc = "reuse"
    BY <1>2 DEF issueReuse, At, Settled
  <2>5. LocalSound(z)
    BY <2>3, <2>4 DEF LocalSound, Onward
  <2> QED
    BY <1>2, <2>3, <2>4, <2>5, ReadStep DEF issueReuse
<1>3. CASE issueBind(r)
  <2>1. PICK y \in Server : y = server
    BY <1>3 DEF issueBind, GetActiveMCPServerRef, RetireInv, WorldTyped
  <2>2. y.uid \in 0..MaxUid
    BY UidBound DEF Server
  <2>3. PICK z : z = [x EXCEPT !.pc = "put", !.secret = y.uid]
    OBVIOUS
  <2>4. z \in Local /\ z.pc = "put" /\ z.cur = x.cur /\ z.secret = y.uid
    BY <2>2, <2>3 DEF Local, Places
  <2>5. request' = [request EXCEPT ![r] = z] /\ request[r].pc \notin Settled /\ x.pc = "bindSession"
        /\ server.uid = x.cur.uid /\ server # NoObject
    BY <1>3, <2>1, <2>3 DEF issueBind, Step, At, Settled, GetActiveMCPServerRef
  <2>6. LocalSound(z)
    BY <2>1, <2>4, <2>5 DEF LocalSound, Rooted
  <2> QED
    BY <1>3, <2>4, <2>5, <2>6, ReadStep DEF issueBind
<1> QED
  BY <1>1, <1>2, <1>3

\* What is stored is for the server its grant was selected for, which is not fenced and so still there.
LEMMA PutKept ==
  ASSUME RetireInv, NEW r \in Requests, issuePut(r)
  PROVE  RetireInv'
<1> PICK x \in Local : x = request[r] /\ LocalSound(x)
  BY DEF RetireInv
<1>1. x.pc = "put" /\ request[r].pc \notin Settled /\ ~ Stored(r)
  BY DEF issuePut, At, Settled, Stored
<1>2. x.secret = x.cur.uid /\ server # NoObject /\ server.uid = x.secret /\ x.secret \notin fenced
  BY <1>1 DEF issuePut, LocalSound, Rooted
<1>3. x.secret \in 1..MaxUid
  BY <1>2 DEF RetireInv, WorldTyped, Server
<1>4. PICK b \in BOOLEAN : b = (x.op = "issue")
  OBVIOUS
<1>5. PICK row : row = [uid |-> x.secret, grantUid |-> x.cur.uid, revoked |-> FALSE, pending |-> b]
  OBVIOUS
<1>6. row \in Session /\ row.uid = x.secret /\ row.grantUid = x.secret /\ row # NoObject
  <2>1. row \in Session
    BY <1>2, <1>3, <1>5 DEF Session
  <2> QED
    BY <1>2, <1>5, <2>1, RetirementAssumption
<1>7. sessions' = [sessions EXCEPT ![r] = row]
      /\ UNCHANGED <<server, secret, colliding, grant, fenced, lastUid, delivered, abandoned, agentActive>>
  BY <1>4, <1>5 DEF issuePut
<1>8. PICK p \in {"recheck", "done"} : p = IF x.op = "issue" THEN "recheck" ELSE "done"
  OBVIOUS
<1>9. p \in Places /\ Go(r, p)
  BY <1>8 DEF issuePut, Places
<1>10. PICK z \in Local : request' = [request EXCEPT ![r] = z] /\ Onward(z, request[r], p)
  BY <1>9, GoStep
<1>11. z.pc \in Settled /\ z.pc = p
  BY <1>10 DEF Onward, Settled
<1>12. \A s \in Sids : Stored(s) => Stored(s)'
  BY <1>10, <1>11, StoredStays
<1>13. Stored(r)'
  BY <1>10, <1>11 DEF Stored, RetireInv
<1>14. sessions[r] = NoObject /\ r \notin delivered \cup abandoned
  BY <1>1 DEF RetireInv, SessionKept, Sids
<1>15. WorldTyped'
  BY <1>6, <1>7 DEF RetireInv, WorldTyped, Sids
<1>16. WorldOnward
  BY <1>1, <1>7 DEF WorldOnward, Rooted, Enrolled, Sids, RetireInv, WorldTyped
<1>17. ASSUME NEW s \in Sids PROVE SessionKept(s)'
  <2>1. CASE s = r
    <3>1. sessions'[s] = row
      BY <1>7, <2>1 DEF RetireInv, WorldTyped
    <3> QED
      BY <1>2, <1>6, <1>7, <1>13, <1>14, <2>1, <3>1 DEF SessionKept, Rooted
  <2>2. CASE s # r
    <3>1. sessions'[s] = sessions[s] /\ SessionKept(s)
      BY <1>7, <2>2 DEF RetireInv, WorldTyped
    <3> QED
      BY <1>7, <1>12, <3>1 DEF SessionKept, Rooted, Enrolled, Live
  <2> QED
    BY <2>1, <2>2
<1>18. LocalSound(z)'
  BY <1>11 DEF LocalSound
<1> QED
  BY <1>1, <1>10, <1>11, <1>15, <1>16, <1>17, <1>18, OneStep

\* A certificate is issued for a stored session, which stops being pending before it is handed out.
LEMMA CertificateKept ==
  ASSUME RetireInv, NEW r \in Requests, certCheck(r) \/ certConfirm(r) \/ certComplete(r) \/ certRespond(r)
  PROVE  RetireInv'
<1> PICK x \in Local : x = request[r] /\ LocalSound(x)
  BY DEF RetireInv
<1>1. CASE certCheck(r)
  <2>1. PICK s \in Sids : Live(sessions[s]) /\ Step(r, [request[r] EXCEPT !.pc = "issued", !.sid = s])
    BY <1>1 DEF certCheck
  <2>2. PICK z : z = [x EXCEPT !.pc = "issued", !.sid = s]
    OBVIOUS
  <2>3. z \in Local /\ z.pc = "issued" /\ z.sid = s
    BY <2>2 DEF Local, Places
  <2>4. request' = [request EXCEPT ![r] = z] /\ request[r].pc \notin Settled
    BY <1>1, <2>1, <2>2 DEF certCheck, Step, At, Settled
  <2>5. Stored(s)
    BY <2>1 DEF RetireInv, SessionKept, Live
  <2>6. LocalSound(z)
    BY <2>3, <2>5 DEF LocalSound
  <2> QED
    BY <1>1, <2>3, <2>4, <2>6, ReadStep DEF certCheck
<1>2. CASE certConfirm(r)
  <2>1. PICK p \in {"complete", "respond"} : p = IF sessions[x.sid].pending THEN "complete" ELSE "respond"
    OBVIOUS
  <2>2. p \in Places /\ Go(r, p)
    BY <1>2, <2>1 DEF certConfirm, Places
  <2>3. PICK z \in Local : request' = [request EXCEPT ![r] = z] /\ Onward(z, request[r], p)
    BY <2>2, GoStep
  <2>4. request[r].pc \notin Settled /\ x.pc = "issued" /\ x.sid \in Sids /\ Stored(x.sid) /\ Live(sessions[x.sid])
    BY <1>2 DEF certConfirm, At, Settled, LocalSound
  <2>5. x.sid \notin abandoned
    BY <2>4 DEF RetireInv, SessionKept, Live
  <2>6. LocalSound(z)
    BY <2>1, <2>3, <2>4, <2>5 DEF LocalSound, Onward, Enrolled
  <2> QED
    BY <1>2, <2>3, <2>4, <2>6, ReadStep DEF certConfirm
<1>3. CASE certComplete(r)
  <2>1. PICK z \in Local : request' = [request EXCEPT ![r] = z] /\ Onward(z, request[r], "respond")
    BY <1>3, GoStep DEF certComplete, Places
  <2>2. request[r].pc \notin Settled /\ x.pc = "complete" /\ x.sid \in Sids /\ Stored(x.sid) /\ Live(sessions[x.sid])
    BY <1>3 DEF certComplete, At, Settled, LocalSound
  <2>3. PICK row \in Session : row = sessions[x.sid]
    BY <2>2 DEF RetireInv, WorldTyped, Live
  <2>4. PICK new : new = [row EXCEPT !.pending = FALSE]
    OBVIOUS
  <2>5. /\ new \in Session /\ new # NoObject /\ new.uid = row.uid /\ new.grantUid = row.grantUid
        /\ new.pending = FALSE /\ new.revoked = row.revoked
    BY <2>4, RetirementAssumption DEF Session
  <2>6. sessions' = [sessions EXCEPT ![x.sid] = new]
        /\ UNCHANGED <<server, secret, colliding, grant, fenced, lastUid, delivered, abandoned, agentActive>>
    BY <1>3, <2>2, <2>3, <2>4 DEF certComplete, RetireInv, WorldTyped
  <2>7. \A s \in Sids : Stored(s) => Stored(s)'
    BY <2>1, <2>2, StoredStays
  <2>8. WorldTyped'
    BY <2>5, <2>6 DEF RetireInv, WorldTyped
  <2>9. WorldOnward
    BY <2>5, <2>6 DEF WorldOnward, Rooted, Enrolled, RetireInv, WorldTyped
  <2>10. x.sid \notin abandoned
    BY <2>2 DEF RetireInv, SessionKept, Live
  <2>11. sessions'[x.sid] = new
    BY <2>2, <2>6 DEF RetireInv, WorldTyped
  <2>12. ASSUME NEW s \in Sids PROVE SessionKept(s)'
    <3>1. CASE s = x.sid
      <4>1. SessionKept(s) /\ sessions[s] = row
        BY <2>3, <3>1 DEF RetireInv
      <4>2. row # NoObject /\ Live(row)
        BY <2>2, <2>3 DEF Live
      <4>3. Rooted(new.uid)' /\ new.uid = new.grantUid /\ new.uid \notin fenced'
        BY <2>5, <2>6, <2>9, <4>1, <4>2 DEF SessionKept, WorldOnward
      <4>4. Stored(s)' /\ Enrolled(s)' /\ s \notin abandoned'
        BY <2>2, <2>5, <2>6, <2>7, <2>10, <2>11, <3>1 DEF Enrolled
      <4> QED
        BY <2>11, <3>1, <4>3, <4>4 DEF SessionKept
    <3>2. CASE s # x.sid
      <4>1. sessions'[s] = sessions[s] /\ SessionKept(s)
        BY <2>6, <3>2 DEF RetireInv, WorldTyped
      <4> QED
        BY <2>6, <2>7, <4>1 DEF SessionKept, Rooted, Enrolled, Live
    <3> QED
      BY <3>1, <3>2
  <2>13. z.pc = "respond" /\ z.sid = x.sid
    BY <2>1 DEF Onward
  <2>14. LocalSound(z)'
    BY <2>2, <2>5, <2>6, <2>7, <2>10, <2>11, <2>13 DEF LocalSound, Enrolled
  <2> QED
    BY <2>1, <2>2, <2>8, <2>9, <2>12, <2>14, OneStep
<1>4. CASE certRespond(r)
  <2>1. PICK z \in Local : request' = [request EXCEPT ![r] = z] /\ Onward(z, request[r], "done")
    BY <1>4, GoStep DEF certRespond, Places
  <2>2. request[r].pc \notin Settled /\ x.sid \in Sids /\ Stored(x.sid) /\ Enrolled(x.sid)
    BY <1>4 DEF certRespond, At, Settled, LocalSound
  <2>3. delivered' = delivered \cup {x.sid}
        /\ UNCHANGED <<server, secret, colliding, grant, sessions, fenced, lastUid, abandoned, agentActive>>
    BY <1>4 DEF certRespond
  <2>4. \A s \in Sids : Stored(s) => Stored(s)'
    BY <2>1, <2>2, StoredStays
  <2>5. WorldTyped' /\ WorldOnward
    BY <2>2, <2>3 DEF RetireInv, WorldTyped, WorldOnward, Rooted, Enrolled
  <2>6. \A s \in Sids : SessionKept(s)'
    BY <2>2, <2>3, <2>4 DEF RetireInv, SessionKept, Rooted, Enrolled, Live
  <2>7. LocalSound(z)'
    BY <2>1 DEF LocalSound, Onward
  <2> QED
    BY <2>1, <2>2, <2>5, <2>6, <2>7, OneStep
<1> QED
  BY <1>1, <1>2, <1>3, <1>4

\* A pending session is given up only while it is pending, so no caller has its certificate.
LEMMA AbandonKept ==
  ASSUME RetireInv, NEW r \in Requests, abandonCheck(r) \/ abandon(r)
  PROVE  RetireInv'
<1> PICK x \in Local : x = request[r] /\ LocalSound(x)
  BY DEF RetireInv
<1>1. CASE abandonCheck(r)
  <2>1. PICK s \in Sids : sessions[s] # NoObject /\ Step(r, [request[r] EXCEPT !.pc = "discard", !.sid = s])
    BY <1>1 DEF abandonCheck
  <2>2. PICK z : z = [x EXCEPT !.pc = "discard", !.sid = s]
    OBVIOUS
  <2>3. z \in Local /\ z.pc = "discard" /\ z.sid = s
    BY <2>2 DEF Local, Places
  <2>4. request' = [request EXCEPT ![r] = z] /\ request[r].pc \notin Settled
    BY <1>1, <2>1, <2>2 DEF abandonCheck, Step, At, Settled
  <2>5. Stored(s)
    BY <2>1 DEF RetireInv, SessionKept
  <2>6. LocalSound(z)
    BY <2>3, <2>5 DEF LocalSound
  <2> QED
    BY <1>1, <2>3, <2>4, <2>6, ReadStep DEF abandonCheck
<1>2. CASE abandon(r)
  <2>1. PICK z \in Local : request' = [request EXCEPT ![r] = z] /\ Onward(z, request[r], "done")
    BY <1>2, GoStep DEF abandon, Places
  <2>2. /\ request[r].pc \notin Settled /\ x.sid \in Sids /\ Stored(x.sid)
        /\ sessions[x.sid] # NoObject /\ sessions[x.sid].pending
    BY <1>2 DEF abandon, At, Settled, LocalSound
  <2>3. sessions' = [sessions EXCEPT ![x.sid] = NoObject] /\ abandoned' = abandoned \cup {x.sid}
        /\ UNCHANGED <<server, secret, colliding, grant, fenced, lastUid, delivered, agentActive>>
    BY <1>2 DEF abandon
  <2>4. \A s \in Sids : Stored(s) => Stored(s)'
    BY <2>1, <2>2, StoredStays
  <2>5. x.sid \notin delivered
    BY <2>2 DEF RetireInv, SessionKept, Enrolled
  <2>6. WorldTyped'
    BY <2>2, <2>3 DEF RetireInv, WorldTyped
  <2>7. WorldOnward
    BY <2>2, <2>3 DEF RetireInv, WorldTyped, WorldOnward, Rooted, Enrolled
  <2>8. ASSUME NEW s \in Sids PROVE SessionKept(s)'
    <3>1. CASE s = x.sid
      <4>1. sessions'[s] = NoObject
        BY <2>3, <3>1 DEF RetireInv, WorldTyped
      <4> QED
        BY <2>2, <2>3, <2>4, <2>5, <3>1, <4>1 DEF SessionKept, Live
    <3>2. CASE s # x.sid
      <4>1. sessions'[s] = sessions[s] /\ SessionKept(s)
        BY <2>3, <3>2 DEF RetireInv, WorldTyped
      <4> QED
        BY <2>3, <2>4, <3>2, <4>1 DEF SessionKept, Rooted, Enrolled, Live
    <3> QED
      BY <3>1, <3>2
  <2>9. LocalSound(z)'
    BY <2>1 DEF LocalSound, Onward
  <2> QED
    BY <2>1, <2>2, <2>6, <2>7, <2>8, <2>9, OneStep
<1> QED
  BY <1>1, <1>2

\* Moderation and the recheck of an agent take sessions away, except that a revocation may be lifted.
LEMMA ModerationKept ==
  ASSUME RetireInv, NEW r \in Requests, moderateSession(r) \/ issueRecheck(r) \/ moderateAgent(r) \/ moderateGrant(r)
  PROVE  RetireInv'
<1> PICK x \in Local : x = request[r] /\ LocalSound(x)
  BY DEF RetireInv
<1>1. PICK p \in {"done", "failed"} : Go(r, p)
  BY DEF moderateSession, issueRecheck, moderateAgent, moderateGrant
<1>2. p \in Places
  BY DEF Places
<1>3. PICK z \in Local : request' = [request EXCEPT ![r] = z] /\ Onward(z, request[r], p)
  BY <1>1, <1>2, GoStep
<1>4. LocalSound(z) /\ z.pc \in Settled
  BY <1>3 DEF LocalSound, Onward, Settled
<1>5. CASE issueRecheck(r) \/ moderateAgent(r) \/ moderateGrant(r)
  <2>1. /\ UNCHANGED <<server, secret, colliding, lastUid, fenced, delivered, abandoned>>
        /\ grant' \in {grant, NoObject}
    BY <1>5 DEF issueRecheck, moderateAgent, moderateGrant
  <2>2. agentActive' \in BOOLEAN
    <3>1. agentActive \in BOOLEAN
      BY DEF RetireInv, WorldTyped
    <3>2. CASE moderateAgent(r)
      BY <3>2, Zenon DEF moderateAgent
    <3>3. CASE ~ moderateAgent(r)
      BY <1>5, <3>1, <3>3 DEF issueRecheck, moderateGrant
    <3> QED
      BY <3>2, <3>3
  <2>3. SessionsTyped /\ \A s \in Sids : Lessened(s)
    <3>1. CASE issueRecheck(r)
      <4>1. sessions' = sessions \/ (sessions[r] # NoObject /\ sessions' = [sessions EXCEPT ![r].revoked = TRUE])
        BY <3>1 DEF issueRecheck
      <4> QED
        BY <4>1 DEF SessionsTyped, Lessened, RetireInv, WorldTyped
    <3>2. CASE moderateAgent(r)
      <4>1. sessions' = [s \in Sids |-> IF agentActive /\ Live(sessions[s])
                                        THEN [sessions[s] EXCEPT !.revoked = TRUE] ELSE sessions[s]]
        BY <3>2 DEF moderateAgent
      <4> QED
        BY <4>1 DEF SessionsTyped, Lessened, Live
    <3>3. CASE moderateGrant(r)
      <4>1. \/ sessions' = sessions
            \/ sessions' = [s \in Sids |-> IF sessions[s] = NoObject THEN NoObject
                                           ELSE [sessions[s] EXCEPT !.revoked = TRUE]]
        BY <3>3 DEF moderateGrant
      <4> QED
        BY <4>1 DEF SessionsTyped, Lessened, RetireInv, WorldTyped
    <3> QED
      BY <1>5, <3>1, <3>2, <3>3
  <2>4. grant' \in Grant \cup {NoObject}
    BY <2>1 DEF RetireInv, WorldTyped
  <2> QED
    BY <1>3, <1>4, <2>1, <2>2, <2>3, <2>4, SessionsStep
<1>6. CASE moderateSession(r)
  <2>1. PICK s \in Sids, to \in {"revoked", "unrevoked", "deleted"} :
          /\ sessions[s] # NoObject
          /\ to = "unrevoked" => sessions[s].uid \notin fenced /\ agentActive
          /\ sessions' = [sessions EXCEPT ![s] = IF to = "deleted" THEN NoObject
                                                 ELSE [@ EXCEPT !.revoked = to = "revoked"]]
    BY <1>6 DEF moderateSession
  <2>2. UNCHANGED <<server, secret, colliding, grant, fenced, lastUid, delivered, abandoned, agentActive>>
    BY <1>6 DEF moderateSession
  <2>3. PICK row \in Session : row = sessions[s]
    BY <2>1 DEF RetireInv, WorldTyped
  <2>4. CASE to # "unrevoked"
    <3>1. SessionsTyped
      BY <2>1 DEF SessionsTyped, RetireInv, WorldTyped
    <3>2. PICK new : new = IF to = "deleted" THEN NoObject ELSE [row EXCEPT !.revoked = TRUE]
      OBVIOUS
    <3>3. sessions' = [sessions EXCEPT ![s] = new]
      <4>1. CASE to = "deleted"
        BY <2>1, <3>2, <4>1
      <4>2. CASE to = "revoked"
        <5>1. (to = "revoked") = TRUE
          BY <4>2, Zenon
        <5>2. new = [row EXCEPT !.revoked = TRUE]
          BY <3>2, <4>2
        <5>3. sessions' = [sessions EXCEPT ![s] = [@ EXCEPT !.revoked = TRUE]]
          BY <2>1, <4>2, <5>1
        <5> QED
          BY <2>3, <5>2, <5>3
      <4> QED
        BY <2>4, <4>1, <4>2
    <3>4. \A q \in Sids : Lessened(q)
      BY <2>1, <2>3, <3>2, <3>3 DEF Lessened, RetireInv, WorldTyped
    <3>5. agentActive' \in BOOLEAN /\ grant' \in Grant \cup {NoObject}
      BY <2>2 DEF RetireInv, WorldTyped
    <3> QED
      BY <1>3, <1>4, <2>2, <3>1, <3>4, <3>5, SessionsStep
  <2>5. CASE to = "unrevoked"
    <3>1. PICK new : new = [row EXCEPT !.revoked = FALSE]
      OBVIOUS
    <3>2. /\ new \in Session /\ new # NoObject /\ new.uid = row.uid /\ new.grantUid = row.grantUid
          /\ new.pending = row.pending
      BY <3>1, RetirementAssumption DEF Session
    <3>3. (to = "revoked") = FALSE
      BY <2>5
    <3>4. sessions' = [sessions EXCEPT ![s] = new]
      BY <2>1, <2>3, <2>5, <3>1, <3>3
    <3>5. \A q \in Sids : Stored(q) => Stored(q)'
      BY <1>3, <1>4, StoredStays
    <3>6. WorldTyped'
      BY <2>2, <3>2, <3>4 DEF RetireInv, WorldTyped
    <3>7. WorldOnward
      BY <2>1, <2>2, <2>3, <3>2, <3>4 DEF WorldOnward, Rooted, Enrolled, RetireInv, WorldTyped
    <3>8. sessions'[s] = new
      BY <3>4 DEF RetireInv, WorldTyped
    <3>9. ASSUME NEW q \in Sids PROVE SessionKept(q)'
      <4>1. CASE q = s
        <5>1. SessionKept(s) /\ sessions[s] = row /\ row # NoObject /\ row.uid \notin fenced
          BY <2>1, <2>3, <2>5 DEF RetireInv
        <5>2. Rooted(new.uid)' /\ new.uid = new.grantUid /\ new.uid \notin fenced'
          BY <2>2, <3>2, <3>7, <5>1 DEF SessionKept, WorldOnward
        <5>3. Stored(s)' /\ s \notin abandoned'
          BY <2>2, <3>5, <5>1 DEF SessionKept
        <5>4. s \in delivered' => Enrolled(s)'
          BY <2>2, <3>7, <5>1 DEF SessionKept, WorldOnward
        <5> QED
          BY <3>8, <4>1, <5>2, <5>3, <5>4 DEF SessionKept
      <4>2. CASE q # s
        <5>1. sessions'[q] = sessions[q] /\ SessionKept(q)
          BY <3>4, <4>2 DEF RetireInv, WorldTyped
        <5> QED
          BY <2>2, <3>5, <5>1 DEF SessionKept, Rooted, Enrolled, Live
      <4> QED
        BY <4>1, <4>2
    <3>10. LocalSound(z)'
      BY <1>3 DEF LocalSound, Onward
    <3> QED
      BY <1>3, <1>4, <3>6, <3>7, <3>9, <3>10, OneStep
  <2> QED
    BY <2>4, <2>5
<1> QED
  BY <1>5, <1>6

\* The present server and its grant, and requests that have only started.
LEMMA RetireInitially == RetireInit => RetireInv
<1> SUFFICES ASSUME RetireInit PROVE RetireInv
  OBVIOUS
<1>1. PICK op \in Scenarios :
         request = [r \in Requests |->
            [pc |-> "start", op |-> op[r], cur |-> NoObject, secret |-> 0,
             uids |-> {}, grant |-> NoObject, listed |-> {}, todo |-> {},
             sid |-> NoObject, disabled |-> FALSE]]
  BY DEF RetireInit
<1>2. op \in [Requests -> Ops] /\ 0 \in 0..MaxUid /\ 1 \in 1..MaxUid /\ 1 \in 0..MaxUid
  BY RetirementAssumption, UidBound
<1>3. ASSUME NEW r \in Requests PROVE request[r] \in Local /\ request[r].pc = "start"
  BY <1>1, <1>2 DEF Local, Places
<1>4. request \in [Requests -> Local]
  <2>1. request = [r \in Requests |-> request[r]]
    BY <1>1
  <2> QED
    BY <1>3, <2>1
<1>5. WorldTyped
  <2>1. server \in Server /\ grant \in Grant
    BY <1>2 DEF RetireInit, Server, Grant
  <2> QED
    BY <1>2, <2>1 DEF RetireInit, WorldTyped
<1>6. \A s \in Sids : SessionKept(s)
  BY DEF RetireInit, SessionKept, Live
<1>7. \A r \in Requests : LocalSound(request[r])
  BY <1>3 DEF LocalSound
<1> QED
  BY <1>4, <1>5, <1>6, <1>7 DEF RetireInv

\* Every step of every request keeps the invariant.
LEMMA RetireKept == RetireInv /\ [RetireNext]_retireVars => RetireInv'
<1> SUFFICES ASSUME RetireInv, [RetireNext]_retireVars PROVE RetireInv'
  OBVIOUS
<1>1. CASE UNCHANGED <<request, server, secret, grant, sessions, fenced, lastUid, delivered, abandoned, agentActive>>
           /\ colliding' \in BOOLEAN
  <2>1. WorldTyped' /\ request' \in [Requests -> Local]
    BY <1>1 DEF RetireInv, WorldTyped
  <2>2. \A s \in Sids : SessionKept(s)'
    BY <1>1 DEF RetireInv, SessionKept, Stored, Rooted, Enrolled, Live
  <2>3. ASSUME NEW r \in Requests PROVE LocalSound(request[r])'
    <3>1. PICK x : x = request[r] /\ LocalSound(x)
      BY DEF RetireInv
    <3>2. LocalSound(x)'
      BY <1>1, <3>1 DEF LocalSound, Rooted, Stored, Enrolled
    <3> QED
      BY <1>1, <3>1, <3>2 DEF LocalSound
  <2> QED
    BY <2>1, <2>2, <2>3 DEF RetireInv
<1>2. CASE UNCHANGED retireVars
  BY <1>1, <1>2 DEF retireVars, world, RetireInv, WorldTyped
<1>3. CASE publishColliding
  BY <1>1, <1>3 DEF publishColliding
<1> QED
  BY <1>2, <1>3, FailKept, PublishKept, RetireStarts, FenceKept, RetireAccessKept, RetireEndsKept, GrantsKept,
     IssueReadsKept, PutKept, CertificateKept, AbandonKept, ModerationKept DEF RetireNext

\* Where no retirement comes; and at its sessions a retirement deals with those that it listed.
Others == {"credential", "write", "bind", "apply", "reuse", "bindSession", "put", "recheck",
           "issued", "complete", "respond", "discard"}
Course(x) ==
    /\ x.pc \in Others => x.op # "retire"
    /\ x.pc \in {"disable", "revoke", "delete"} => x.todo \subseteq x.listed
Courses == \A r \in Requests : Course(request[r])

\* One request moves to a state that is on its course.
LEMMA CourseStep ==
  ASSUME RetireInv, Courses, NEW r \in Requests, NEW z, request' = [request EXCEPT ![r] = z], Course(z)
  PROVE  Courses'
<1>1. \A q \in Requests : request'[q] = IF q = r THEN z ELSE request[q]
  BY DEF RetireInv
<1>2. ASSUME NEW q \in Requests PROVE Course(request[q])'
  <2>1. PICK y : y = request'[q] /\ Course(y)
    BY <1>1 DEF Courses
  <2> QED
    BY <2>1 DEF Course
<1> QED
  BY <1>2 DEF Courses

\* A request that goes on, not at a retirement's sessions.
LEMMA GoCourse ==
  ASSUME RetireInv, Courses, NEW r \in Requests, NEW pc \in Places, Go(r, pc),
         pc \notin {"disable", "revoke", "delete"}, pc \in Others => request[r].op # "retire"
  PROVE  Courses'
<1>1. PICK z \in Local : request' = [request EXCEPT ![r] = z] /\ Onward(z, request[r], pc)
  BY GoStep
<1>2. z.pc = pc /\ z.op = request[r].op
  BY <1>1 DEF Onward
<1>3. Course(z)
  BY <1>2 DEF Course
<1> QED
  BY <1>1, <1>3, CourseStep

\* Requests that retire nothing stay off a retirement's course.
LEMMA OthersCourse ==
  ASSUME RetireInv, Courses, NEW r \in Requests,
         \/ publishCheck(r) \/ publishCredential(r) \/ publishWrite(r)
         \/ grantCheck(r) \/ grantBind(r) \/ grantApply(r) \/ grantToggle(r)
         \/ issueSelect(r) \/ issueReuse(r) \/ issueBind(r) \/ issuePut(r) \/ sessionApply(r)
         \/ certCheck(r) \/ certConfirm(r) \/ certComplete(r) \/ certRespond(r)
         \/ abandonCheck(r) \/ abandon(r) \/ moderateSession(r)
         \/ issueRecheck(r) \/ moderateAgent(r) \/ moderateGrant(r)
  PROVE  Courses' /\ request[r].op # "retire"
<1>1. PICK x \in Local : x = request[r] /\ Course(x)
  BY DEF RetireInv, Courses
<1>2. request[r].op # "retire"
  BY <1>1 DEF publishCheck, publishCredential, publishWrite, grantCheck, grantBind, grantApply, grantToggle, issueSelect,
              issueReuse, issueBind, issuePut, sessionApply, certCheck, certConfirm, certComplete, certRespond,
              abandonCheck, abandon, moderateSession, issueRecheck, moderateAgent, moderateGrant, At, Course, Others
<1>3. CASE \/ publishCheck(r) \/ publishCredential(r) \/ publishWrite(r) \/ grantBind(r) \/ grantApply(r) \/ grantToggle(r)
           \/ issueReuse(r) \/ issuePut(r) \/ certConfirm(r) \/ certComplete(r) \/ certRespond(r)
           \/ abandon(r) \/ moderateSession(r) \/ issueRecheck(r) \/ moderateAgent(r) \/ moderateGrant(r)
  <2>1. PICK pc : Go(r, pc) /\ \/ pc = "credential" \/ pc = "write" \/ pc = "done" \/ pc = "apply" \/ pc = "bindSession"
                               \/ pc = "recheck" \/ pc = "failed" \/ pc = "complete" \/ pc = "respond"
    BY <1>3 DEF publishCheck, publishCredential, publishWrite, grantBind, grantApply, grantToggle,
                issueReuse, issuePut, certConfirm, certComplete, certRespond, abandon, moderateSession, issueRecheck,
                moderateAgent, moderateGrant
  <2>2. pc \in Places /\ pc \notin {"disable", "revoke", "delete"}
    BY <2>1 DEF Places
  <2> QED
    BY <1>2, <2>1, <2>2, GoCourse
<1>4. CASE grantCheck(r) \/ issueSelect(r) \/ issueBind(r) \/ sessionApply(r) \/ certCheck(r) \/ abandonCheck(r)
  <2>1. PICK z : request' = [request EXCEPT ![r] = z] /\ z.op = x.op
                 /\ z.pc \notin {"disable", "revoke", "delete"}
    <3>1. CASE grantCheck(r)
      <4>1. PICK z : z = [x EXCEPT !.pc = "bind", !.cur = server, !.disabled = grant # NoObject /\ grant.disabled]
        OBVIOUS
      <4>2. request' = [request EXCEPT ![r] = z]
        BY <1>1, <3>1, <4>1 DEF grantCheck, Step
      <4>3. z.op = x.op /\ z.pc = "bind"
        BY <4>1 DEF Local
      <4> QED
        BY <4>2, <4>3
    <3>2. CASE issueSelect(r)
      <4>1. PICK z : z = [x EXCEPT !.pc = "reuse", !.cur = server]
        OBVIOUS
      <4>2. request' = [request EXCEPT ![r] = z]
        BY <1>1, <3>2, <4>1 DEF issueSelect, Step
      <4>3. z.op = x.op /\ z.pc = "reuse"
        BY <4>1 DEF Local
      <4> QED
        BY <4>2, <4>3
    <3>3. CASE issueBind(r)
      <4>1. PICK z : z = [x EXCEPT !.pc = "put", !.secret = server.uid]
        OBVIOUS
      <4>2. request' = [request EXCEPT ![r] = z]
        BY <1>1, <3>3, <4>1 DEF issueBind, Step
      <4>3. z.op = x.op /\ z.pc = "put"
        BY <4>1 DEF Local
      <4> QED
        BY <4>2, <4>3
    <3>4. CASE sessionApply(r)
      <4>1. PICK z : z = [x EXCEPT !.pc = "bindSession", !.cur = server]
        OBVIOUS
      <4>2. request' = [request EXCEPT ![r] = z]
        BY <1>1, <3>4, <4>1 DEF sessionApply, Step
      <4>3. z.op = x.op /\ z.pc = "bindSession"
        BY <4>1 DEF Local
      <4> QED
        BY <4>2, <4>3
    <3>5. CASE certCheck(r)
      <4>1. PICK s : Step(r, [x EXCEPT !.pc = "issued", !.sid = s])
        BY <1>1, <3>5 DEF certCheck
      <4>2. PICK z : z = [x EXCEPT !.pc = "issued", !.sid = s]
        OBVIOUS
      <4>3. request' = [request EXCEPT ![r] = z]
        BY <4>1, <4>2 DEF Step
      <4>4. z.op = x.op /\ z.pc = "issued"
        BY <4>2 DEF Local
      <4> QED
        BY <4>3, <4>4
    <3>6. CASE abandonCheck(r)
      <4>1. PICK s : Step(r, [x EXCEPT !.pc = "discard", !.sid = s])
        BY <1>1, <3>6 DEF abandonCheck
      <4>2. PICK z : z = [x EXCEPT !.pc = "discard", !.sid = s]
        OBVIOUS
      <4>3. request' = [request EXCEPT ![r] = z]
        BY <4>1, <4>2 DEF Step
      <4>4. z.op = x.op /\ z.pc = "discard"
        BY <4>2 DEF Local
      <4> QED
        BY <4>3, <4>4
    <3> QED
      BY <1>4, <3>1, <3>2, <3>3, <3>4, <3>5, <3>6
  <2>2. Course(z)
    BY <1>1, <1>2, <2>1 DEF Course
  <2> QED
    BY <1>2, <2>1, <2>2, CourseStep
<1> QED
  BY <1>2, <1>3, <1>4

\* A retirement stays on its course.
LEMMA RetireCourse ==
  ASSUME RetireInv, Courses, NEW r \in Requests,
         \/ retireInspect(r) \/ retireMark(r) \/ retireList(r) \/ retireFence(r)
         \/ retireAccessList(r) \/ retireDisable(r) \/ retireSession(r) \/ retireGrant(r)
         \/ retireSecretRead(r) \/ retireSecret(r) \/ retireServer(r)
  PROVE  Courses'
<1>1. PICK x \in Local : x = request[r] /\ Course(x)
  BY DEF RetireInv, Courses
<1>2. CASE \/ retireMark(r) \/ retireGrant(r) \/ retireSecret(r) \/ retireServer(r)
           \/ retireFence(r) /\ request[r].uids = {}
  <2>1. PICK pc : Go(r, pc) /\ (pc = "list" \/ pc = "secret" \/ pc = "server" \/ pc = "done" \/ pc = "access")
    BY <1>2 DEF retireMark, retireGrant, retireSecret, retireServer, retireFence
  <2>2. pc \in Places /\ pc \notin {"disable", "revoke", "delete"} /\ pc \notin Others
    BY <2>1 DEF Places, Others
  <2> QED
    BY <2>1, <2>2, GoCourse
<1>3. CASE retireInspect(r)
  <2>1. PICK p : p = (IF server = NoObject THEN "list" ELSE "mark")
    OBVIOUS
  <2>2. PICK z : z = [x EXCEPT !.pc = p, !.cur = server]
    OBVIOUS
  <2>3. request' = [request EXCEPT ![r] = z]
    BY <1>1, <1>3, <2>1, <2>2 DEF retireInspect, Step
  <2>4. Course(z)
    BY <2>1, <2>2 DEF Local, Course, Others
  <2> QED
    BY <2>3, <2>4, CourseStep
<1>4. CASE retireList(r)
  <2>1. PICK us, z : z = [x EXCEPT !.pc = "fence", !.uids = us] /\ Step(r, z)
    BY <1>1, <1>4 DEF retireList
  <2>2. request' = [request EXCEPT ![r] = z]
    BY <2>1 DEF Step
  <2>3. Course(z)
    BY <2>1 DEF Local, Course, Others
  <2> QED
    BY <2>2, <2>3, CourseStep
<1>5. CASE retireFence(r) /\ request[r].uids # {}
  <2>1. PICK u : request' = [request EXCEPT ![r].uids = @ \ {u}]
    BY <1>5 DEF retireFence
  <2>2. PICK z : z = [x EXCEPT !.uids = x.uids \ {u}]
    OBVIOUS
  <2>3. request' = [request EXCEPT ![r] = z]
    BY <1>1, <2>1, <2>2 DEF RetireInv
  <2>4. z.pc = x.pc /\ z.op = x.op /\ z.todo = x.todo /\ z.listed = x.listed
    BY <2>2 DEF Local
  <2>5. Course(z)
    BY <1>1, <2>4 DEF Course
  <2> QED
    BY <2>3, <2>5, CourseStep
<1>6. CASE retireAccessList(r)
  <2>1. PICK rows, todo, z : /\ todo \subseteq rows
                             /\ z = [x EXCEPT !.pc = "disable", !.grant = grant, !.listed = rows, !.todo = todo]
                             /\ Step(r, z)
    <3>1. PICK rows : rows = {s \in Sids : sessions[s] # NoObject}
      OBVIOUS
    <3>2. PICK todo : todo = {s \in rows : ~ sessions[s].revoked}
      OBVIOUS
    <3>3. Step(r, [x EXCEPT !.pc = "disable", !.grant = grant, !.listed = rows, !.todo = todo])
      BY <1>1, <1>6, <3>1, <3>2 DEF retireAccessList
    <3>4. todo \subseteq rows
      BY <3>2
    <3> QED
      BY <3>3, <3>4
  <2>2. request' = [request EXCEPT ![r] = z]
    BY <2>1 DEF Step
  <2>3. z.pc = "disable" /\ z.todo \subseteq z.listed
    BY <2>1 DEF Local
  <2>4. Course(z)
    BY <2>3 DEF Course, Others
  <2> QED
    BY <2>2, <2>4, CourseStep
<1>7. CASE retireDisable(r)
  <2>1. PICK z : z = [x EXCEPT !.pc = "revoke"]
    OBVIOUS
  <2>2. request' = [request EXCEPT ![r] = z] /\ x.pc = "disable"
    BY <1>1, <1>7, <2>1 DEF retireDisable, Go, At, RetireInv
  <2>3. z.pc = "revoke" /\ z.todo = x.todo /\ z.listed = x.listed
    BY <2>1 DEF Local
  <2>4. Course(z)
    BY <1>1, <2>2, <2>3 DEF Course, Others
  <2> QED
    BY <2>2, <2>4, CourseStep
<1>8. CASE retireSession(r)
  <2>1. CASE request[r].todo = {} /\ At(r, "revoke")
    <3>1. PICK z : z = [x EXCEPT !.pc = "delete", !.todo = x.listed]
      OBVIOUS
    <3>2. request' = [request EXCEPT ![r] = z]
      BY <1>1, <1>8, <2>1, <3>1 DEF retireSession, Step
    <3>3. z.pc = "delete" /\ z.todo = z.listed
      BY <3>1 DEF Local
    <3>4. Course(z)
      BY <3>3 DEF Course, Others
    <3> QED
      BY <3>2, <3>4, CourseStep
  <2>2. CASE request[r].todo = {} /\ ~ At(r, "revoke")
    <3>1. PICK z : z = [x EXCEPT !.pc = "grant"]
      OBVIOUS
    <3>2. request' = [request EXCEPT ![r] = z]
      BY <1>1, <1>8, <2>2, <3>1 DEF retireSession, Step
    <3>3. z.pc = "grant"
      BY <3>1 DEF Local
    <3>4. Course(z)
      BY <3>3 DEF Course, Others
    <3> QED
      BY <3>2, <3>4, CourseStep
  <2>3. CASE request[r].todo # {}
    <3>1. PICK s : request' = [request EXCEPT ![r].todo = @ \ {s}]
      BY <1>8, <2>3 DEF retireSession
    <3>2. PICK z : z = [x EXCEPT !.todo = x.todo \ {s}]
      OBVIOUS
    <3>3. request' = [request EXCEPT ![r] = z]
      BY <1>1, <3>1, <3>2 DEF RetireInv
    <3>4. z.pc = x.pc /\ z.op = x.op /\ z.todo \subseteq x.todo /\ z.listed = x.listed
      BY <3>2 DEF Local
    <3>5. Course(z)
      BY <1>1, <3>4 DEF Course
    <3> QED
      BY <3>3, <3>5, CourseStep
  <2> QED
    BY <2>1, <2>2, <2>3
<1>9. CASE retireSecretRead(r)
  <2>1. PICK p : p = (IF secret = 0 \/ colliding THEN "server" ELSE "unsecret")
    OBVIOUS
  <2>2. PICK z : z = [x EXCEPT !.secret = secret, !.pc = p]
    OBVIOUS
  <2>3. request' = [request EXCEPT ![r] = z]
    BY <1>1, <1>9, <2>1, <2>2 DEF retireSecretRead, Step
  <2>4. Course(z)
    BY <2>1, <2>2 DEF Local, Course, Others
  <2> QED
    BY <2>3, <2>4, CourseStep
<1> QED
  BY <1>2, <1>3, <1>4, <1>5, <1>6, <1>7, <1>8, <1>9

\* Every request stays on its course.
LEMMA CourseKept == RetireInv /\ Courses /\ [RetireNext]_retireVars => Courses'
<1> SUFFICES ASSUME RetireInv, Courses, [RetireNext]_retireVars PROVE Courses'
  OBVIOUS
<1>1. CASE UNCHANGED request
  BY <1>1 DEF Courses, Course
<1>2. ASSUME NEW r \in Requests, fail(r) PROVE Courses'
  BY <1>2, GoCourse DEF fail, Places, Others
<1> QED
  BY <1>1, <1>2, OthersCourse, RetireCourse DEF RetireNext, retireVars, publishColliding

\* The retirement that takes something has read it.
Takes(r) ==
    /\ secret' # secret => secret' = 0 /\ request[r].secret = secret
    /\ server # NoObject /\ server' = NoObject => request[r].cur # NoObject /\ request[r].cur.uid = server.uid
    /\ grant # NoObject /\ grant' = NoObject => request[r].grant # NoObject /\ request[r].grant.obj = grant.obj
    /\ \A s \in Sids : Live(sessions[s]) /\ ~ Live(sessions'[s]) =>
          s \in request[r].listed \/ sessions[s].uid \in request[r].uids

\* A step that a retirement takes is one of a retirement.
LEMMA RetireStep ==
  ASSUME RetireInv, Courses, [RetireNext]_retireVars, NEW r \in Requests, request[r].op = "retire", request'[r] # request[r]
  PROVE  \/ fail(r) \/ retireInspect(r) \/ retireMark(r) \/ retireList(r) \/ retireFence(r)
         \/ retireAccessList(r) \/ retireDisable(r) \/ retireSession(r) \/ retireGrant(r)
         \/ retireSecretRead(r) \/ retireSecret(r) \/ retireServer(r)
<1> DEFINE Retires(q) == \/ fail(q) \/ retireInspect(q) \/ retireMark(q) \/ retireList(q) \/ retireFence(q)
                         \/ retireAccessList(q) \/ retireDisable(q) \/ retireSession(q) \/ retireGrant(q)
                         \/ retireSecretRead(q) \/ retireSecret(q) \/ retireServer(q)
           Else(q) == \/ publishCheck(q) \/ publishCredential(q) \/ publishWrite(q)
                      \/ grantCheck(q) \/ grantBind(q) \/ grantApply(q) \/ grantToggle(q)
                      \/ issueSelect(q) \/ issueReuse(q) \/ issueBind(q) \/ issuePut(q) \/ sessionApply(q)
                      \/ certCheck(q) \/ certConfirm(q) \/ certComplete(q) \/ certRespond(q)
                      \/ abandonCheck(q) \/ abandon(q) \/ moderateSession(q)
                      \/ issueRecheck(q) \/ moderateAgent(q) \/ moderateGrant(q)
<1>1. PICK q \in Requests : Retires(q) \/ Else(q)
  BY Zenon DEF RetireNext, retireVars, publishColliding
<1>2. \E z : request' = [request EXCEPT ![q] = z]
  BY <1>1 DEF fail, publishCheck, publishCredential, publishWrite, retireInspect, retireMark, retireList, retireFence,
              retireAccessList, retireDisable, retireSession, retireGrant, retireSecretRead, retireSecret, retireServer,
              grantCheck, grantBind, grantApply, grantToggle, issueSelect, issueReuse, issueBind, issuePut, sessionApply,
              certCheck, certConfirm, certComplete, certRespond, abandonCheck, abandon, moderateSession, issueRecheck,
              moderateAgent, moderateGrant, Go, Step
<1>3. q = r
  BY <1>2 DEF RetireInv
<1>4. ~ Else(r)
  BY OthersCourse
<1> QED
  BY <1>1, <1>3, <1>4

\* What a retirement takes it has read.
LEMMA TakesWhatItRead ==
  ASSUME RetireInv, Courses, [RetireNext]_retireVars, NEW r \in Requests, request[r].op = "retire", request'[r] # request[r]
  PROVE  Takes(r)
<1>1. CASE fail(r) \/ retireInspect(r) \/ retireList(r) \/ retireAccessList(r) \/ retireSecretRead(r)
  <2>1. UNCHANGED <<secret, server, grant, sessions>>
    BY <1>1 DEF fail, retireInspect, retireList, retireAccessList, retireSecretRead, world
  <2> QED
    BY <2>1 DEF Takes
<1>2. CASE retireMark(r)
  <2>1. UNCHANGED <<secret, grant, sessions>> /\ server' = [server EXCEPT !.retiring = TRUE, !.by = r]
    BY <1>2 DEF retireMark
  <2>2. ASSUME server # NoObject PROVE server' # NoObject
    <3>1. PICK y \in Server : y = server
      BY <2>2 DEF RetireInv, WorldTyped
    <3>2. [y EXCEPT !.retiring = TRUE, !.by = r] \in Server
      BY DEF Server
    <3> QED
      BY <2>1, <3>1, <3>2, RetirementAssumption
  <2> QED
    BY <2>1, <2>2 DEF Takes
<1>3. CASE retireFence(r)
  <2>1. UNCHANGED <<secret, server, grant>>
    BY <1>3 DEF retireFence
  <2>2. CASE request[r].uids = {}
    BY <1>3, <2>1, <2>2 DEF retireFence, Takes
  <2>3. CASE request[r].uids # {}
    <3>1. PICK u \in request[r].uids :
             sessions' = [s \in Sids |-> IF Live(sessions[s]) /\ sessions[s].uid = u
                                         THEN [sessions[s] EXCEPT !.revoked = TRUE] ELSE sessions[s]]
      BY <1>3, <2>3 DEF retireFence
    <3>2. ASSUME NEW s \in Sids, Live(sessions[s]), ~ Live(sessions'[s]) PROVE sessions[s].uid \in request[r].uids
      BY <3>1, <3>2
    <3> QED
      BY <2>1, <3>2 DEF Takes
  <2> QED
    BY <2>2, <2>3
<1>4. CASE retireDisable(r)
  <2>1. UNCHANGED <<secret, server, sessions>>
    BY <1>4 DEF retireDisable
  <2>2. ASSUME grant # NoObject PROVE grant' # NoObject
    <3>1. PICK y \in Grant : y = grant
      BY <2>2 DEF RetireInv, WorldTyped
    <3>2. [y EXCEPT !.disabled = TRUE, !.by = r] \in Grant
      BY DEF Grant
    <3> QED
      BY <1>4, <2>2, <3>1, <3>2, RetirementAssumption DEF retireDisable
  <2> QED
    BY <2>1, <2>2 DEF Takes
<1>5. CASE retireSession(r)
  <2>1. UNCHANGED <<secret, server, grant>>
    BY <1>5 DEF retireSession
  <2>2. CASE request[r].todo = {}
    BY <1>5, <2>1, <2>2 DEF retireSession, Takes
  <2>3. CASE request[r].todo # {}
    <3>0. PICK s \in request[r].todo : \E y : sessions' = [sessions EXCEPT ![s] = y]
      BY <1>5, <2>3 DEF retireSession
    <3>1. PICK y : sessions' = [sessions EXCEPT ![s] = y]
      BY <3>0
    <3>2. request[r].todo \subseteq request[r].listed
      BY <1>5 DEF retireSession, Courses, Course
    <3>3. ASSUME NEW t \in Sids, Live(sessions[t]), ~ Live(sessions'[t]) PROVE t \in request[r].listed
      BY <3>1, <3>2, <3>3
    <3> QED
      BY <2>1, <3>3 DEF Takes
  <2> QED
    BY <2>2, <2>3
<1>6. CASE retireGrant(r)
  BY <1>6 DEF retireGrant, Takes
<1>7. CASE retireSecret(r)
  BY <1>7 DEF retireSecret, Takes
<1>8. CASE retireServer(r)
  BY <1>8 DEF retireServer, Takes
<1> QED
  BY RetireStep, <1>1, <1>2, <1>3, <1>4, <1>5, <1>6, <1>7, <1>8

\* A server's name may be used again, its authority may not: no session outlives its deployment or acts on
\* the next, no delivered enrollment is taken back, and a retirement takes nothing it did not read: the credential,
\* server and grant objects themselves, and sessions that it listed or whose deployment it collected.
THEOREM AuthorityIsNotInherited == RetireSpec => ServerAuthority
<1>1. RetireInv => RetireTypeOK /\ AuthorityNotInherited /\ DeadServerNoSession /\ EnrollmentSurvives
  <2> SUFFICES ASSUME RetireInv
               PROVE  RetireTypeOK /\ AuthorityNotInherited /\ DeadServerNoSession /\ EnrollmentSurvives
    OBVIOUS
  <2>1. RetireTypeOK
    BY DEF RetireInv, WorldTyped, RetireTypeOK
  <2>2. AuthorityNotInherited /\ DeadServerNoSession
    BY DEF RetireInv, SessionKept, Live, Rooted, AuthorityNotInherited, DeadServerNoSession
  <2>3. EnrollmentSurvives
    BY DEF RetireInv, WorldTyped, SessionKept, Enrolled, EnrollmentSurvives
  <2> QED
    BY <2>1, <2>2, <2>3
<1>2. RetireInit => Courses
  <2> SUFFICES ASSUME RetireInit PROVE Courses
    OBVIOUS
  <2>1. \A r \in Requests : request[r].pc = "start"
    BY DEF RetireInit
  <2> QED
    BY <2>1 DEF Courses, Course, Others
<1>3. RetireInv /\ Courses /\ [RetireNext]_retireVars =>
         [\A r \in Requests : request[r].op = "retire" /\ request'[r] # request[r] =>
          /\ secret' # secret => secret' = 0 /\ request[r].secret = secret
          /\ server # NoObject /\ server' = NoObject => request[r].cur # NoObject /\ request[r].cur.uid = server.uid
          /\ grant # NoObject /\ grant' = NoObject => request[r].grant # NoObject /\ request[r].grant.obj = grant.obj
          /\ \A s \in Sids : Live(sessions[s]) /\ ~ Live(sessions'[s]) =>
                s \in request[r].listed \/ sessions[s].uid \in request[r].uids]_retireVars
  BY TakesWhatItRead DEF Takes
<1> QED
  BY <1>1, <1>2, <1>3, RetireInitially, RetireKept, CourseKept, PTL DEF RetireSpec, ServerAuthority, RetiresWhatItRead

-----------------------------------------------------------------------------
\* Team namespaces and the ingress controller's watch list.

Fresh == {"start", "namespace", "done", "failed"}
Granting == {"ownerRole", "ownerBinding"}
Deploying == {"deployment", "service"}
\* The namespaces deleted under their watch or under a task.
Gone == vanished \cup disturbed
\* Where a task of each kind may be ...
Placed(kind, pc) ==
    /\ kind = "deleteTeam" => pc \in {"start", "unwatch", "done", "failed"}
    /\ kind = "reconcile" => pc \in {"start", "generic", "deny", "done", "failed"}
    /\ pc \in Deploying => kind = "deploy"
    /\ pc = "unwatch" => kind = "deleteTeam"
\* ... and what a provisioning one has laid by then, if it was not taken from under it.
Laid(pc, has) ==
    /\ pc \in Fresh \/ "namespace" \in has
    /\ pc \in Fresh \cup {"quota"} \/ "quota" \in has
    /\ pc \in Fresh \cup {"quota", "limits"} \/ "limits" \in has
    /\ pc \in Fresh \cup {"quota", "limits", "generic"} \/ "generic" \in has
    /\ pc \in Fresh \cup {"quota", "limits", "generic", "deny"} \/ "deny" \in has
    /\ pc \in Fresh \cup {"quota", "limits", "generic", "deny", "account"} \/ "account" \in has
    /\ pc \in {"watchRole", "watchRead", "prune", "watchUpdate"} \cup Granting \cup Deploying => "pullSecret" \in has
    /\ pc \in {"watchRead", "prune", "watchUpdate"} \cup Granting \cup Deploying => "watchRole" \in has
TaskShape(x) ==
    /\ x = [pc |-> x.pc, kind |-> x.kind, ns |-> x.ns, member |-> x.member, image |-> x.image,
            version |-> x.version, list |-> x.list, already |-> x.already, toCheck |-> x.toCheck, missing |-> x.missing]
    /\ x.kind \in Kinds /\ x.ns \in Namespaces /\ Placed(x.kind, x.pc)
    /\ x.toCheck \subseteq Namespaces /\ (x.pc = "prune" => x.toCheck \subseteq x.list)
    /\ x.kind = "deploy" /\ x.pc \notin {"start", "done", "failed"} => ValidateDeployImage(x.image, x.ns)
\* What a task read is of some version, and of the present one it is the present watch list.
TaskSound(x) ==
    /\ TaskShape(x)
    /\ x.kind \in {"deploy", "publish"} => Laid(x.pc, objects[x.ns]) \/ x.ns \in disturbed
    /\ x.pc = "deny" /\ "broad" \in objects[x.ns] => "generic" \in objects[x.ns]
    /\ x.version \in 0..version
    /\ x.pc \in {"prune", "watchUpdate"} /\ x.version = version =>
          x.list = watched \cup {x.ns} /\ x.missing \subseteq Gone
    /\ x.pc = "unwatch" /\ x.version = version => x.list = watched \ {x.ns}

Confining == {"quota", "limits", "generic", "deny", "account", "pullSecret"}
NamespaceSound(n) ==
    /\ workload[n] # Nothing0 =>
          /\ n \in disturbed \/ Confining \subseteq objects[n]
          /\ (Approved = {} \/ workload[n].host \in Approved) /\ workload[n].path[1] = ImageScope(n)
    /\ n \in provisioned => n \in watched \cup Gone
    /\ n \in watched => n \in Gone \/ {"namespace", "watchRole"} \subseteq objects[n]
ProvisionInv ==
    /\ version \in Nat /\ watched \subseteq Namespaces /\ provisioned \subseteq Namespaces
    /\ DOMAIN objects = Namespaces /\ DOMAIN workload = Namespaces /\ DOMAIN task = Tasks
    /\ \A t \in Tasks : TaskSound(task[t])
    /\ \A n \in Namespaces : NamespaceSound(n)

\* What other tasks rely on: objects other than the broad policy stay, that one does not come back,
\* the watch list changes only with its version, and nothing is deleted.
Steady ==
    /\ \A n \in Namespaces : objects[n] \ {"broad"} \subseteq objects'[n]
    /\ \A n \in Namespaces : "broad" \in objects'[n] => "broad" \in objects[n]
    /\ vanished' = vanished /\ disturbed' = disturbed
    /\ version' \in Nat /\ version <= version' /\ (version' = version => watched' = watched)
\* A task that does not move stays sound under such a step.
LEMMA OthersSound ==
  ASSUME ProvisionInv, NEW q \in Tasks, Steady, task'[q] = task[q]
  PROVE  TaskSound(task[q])'
<1>1. PICK x : x = task[q]
  OBVIOUS
<1>2. TaskSound(x) /\ task'[q] = x
  BY <1>1 DEF ProvisionInv
<1>3. x.ns \in Namespaces
  BY <1>2 DEF TaskSound, TaskShape
<1>4. x.kind \in {"deploy", "publish"} => Laid(x.pc, objects'[x.ns]) \/ x.ns \in disturbed'
  <2>1. objects[x.ns] \ {"broad"} \subseteq objects'[x.ns] /\ disturbed' = disturbed
    BY <1>3 DEF Steady
  <2> QED
    BY <1>2, <2>1 DEF TaskSound, Laid
<1>5. x.pc = "deny" /\ "broad" \in objects'[x.ns] => "generic" \in objects'[x.ns]
  BY <1>2, <1>3 DEF TaskSound, Steady
<1>6. x.version \in 0..version' /\ (version' = version => watched' = watched)
  BY <1>2 DEF TaskSound, Steady, ProvisionInv
<1>7. version' # version => x.version # version'
  BY <1>2 DEF TaskSound, Steady, ProvisionInv
<1>8. Gone' = Gone
  BY DEF Steady, Gone
<1>9. TaskShape(x)
  BY <1>2 DEF TaskSound
<1>10. x.pc \in {"prune", "watchUpdate"} /\ x.version = version' =>
           x.list = watched' \cup {x.ns} /\ x.missing \subseteq Gone'
  BY <1>2, <1>6, <1>7, <1>8 DEF TaskSound
<1>11. x.pc = "unwatch" /\ x.version = version' => x.list = watched' \ {x.ns}
  BY <1>2, <1>6, <1>7 DEF TaskSound
<1> QED
  BY <1>2, <1>4, <1>5, <1>6, <1>9, <1>10, <1>11 DEF TaskSound

\* One task's step keeps the invariant if it is steady for the others and leaves the namespaces sound.
LEMMA OneTask ==
  ASSUME ProvisionInv, NEW t \in Tasks, NEW z, task' = [task EXCEPT ![t] = z],
         Steady, TaskSound(z)', \A n \in Namespaces : NamespaceSound(n)',
         watched' \subseteq Namespaces, provisioned' \subseteq Namespaces,
         DOMAIN objects' = Namespaces, DOMAIN workload' = Namespaces
  PROVE  ProvisionInv'
<1>1. DOMAIN task' = Tasks /\ task'[t] = z /\ \A q \in Tasks : q # t => task'[q] = task[q]
  BY DEF ProvisionInv
<1>2. ASSUME NEW q \in Tasks PROVE TaskSound(task[q])'
  <2>1. CASE q = t
    BY <1>1, <2>1 DEF TaskSound
  <2>2. CASE q # t
    BY <1>1, <2>2, OthersSound
  <2> QED
    BY <2>1, <2>2
<1>3. version' \in Nat
  BY DEF Steady
<1> QED
  BY <1>1, <1>2, <1>3 DEF ProvisionInv

\* A step that changes nothing but its task.
LEMMA TaskOnly ==
  ASSUME ProvisionInv, NEW t \in Tasks, NEW z, task' = [task EXCEPT ![t] = z],
         UNCHANGED provisionState, TaskSound(z)
  PROVE  ProvisionInv'
<1>1. Steady
  BY DEF Steady, provisionState, ProvisionInv
<1>2. TaskSound(z)'
  BY DEF TaskSound, provisionState, Gone
<1>3. \A n \in Namespaces : NamespaceSound(n)'
  BY DEF ProvisionInv, NamespaceSound, provisionState, Gone
<1> QED
  BY <1>1, <1>2, <1>3, OneTask DEF provisionState, ProvisionInv

\* A task's record after a step that moves its place only.
LEMMA ToStep ==
  ASSUME ProvisionInv, NEW t \in Tasks, NEW pc, To(t, pc), Placed(task[t].kind, pc), pc # "prune",
         task[t].kind = "deploy" /\ pc \notin {"start", "done", "failed"} => task[t].pc \notin {"start", "done", "failed"}
  PROVE  \E z : /\ task' = [task EXCEPT ![t] = z] /\ TaskShape(z) /\ z.pc = pc /\ z.kind = task[t].kind /\ z.ns = Ns(t)
                /\ z.version = task[t].version /\ z.list = task[t].list /\ z.missing = task[t].missing
                /\ z.member = task[t].member /\ z.image = task[t].image
<1>1. PICK x : x = task[t]
  OBVIOUS
<1>2. x = [pc |-> x.pc, kind |-> x.kind, ns |-> x.ns, member |-> x.member, image |-> x.image,
           version |-> x.version, list |-> x.list, already |-> x.already, toCheck |-> x.toCheck, missing |-> x.missing]
      /\ TaskShape(x)
  BY <1>1 DEF ProvisionInv, TaskSound, TaskShape
<1>3. PICK z : z = [x EXCEPT !.pc = pc]
  OBVIOUS
<1>4. z = [pc |-> pc, kind |-> x.kind, ns |-> x.ns, member |-> x.member, image |-> x.image,
           version |-> x.version, list |-> x.list, already |-> x.already, toCheck |-> x.toCheck, missing |-> x.missing]
  BY <1>2, <1>3
<1>5. task' = [task EXCEPT ![t] = z]
  BY <1>1, <1>3 DEF To, ProvisionInv
<1>6. TaskShape(z)
  BY <1>1, <1>2, <1>4 DEF TaskShape
<1>7. /\ z.pc = pc /\ z.kind = task[t].kind /\ z.ns = Ns(t) /\ z.version = task[t].version /\ z.list = task[t].list
      /\ z.missing = task[t].missing /\ z.member = task[t].member /\ z.image = task[t].image
  BY <1>1, <1>4 DEF Ns
<1> QED
  BY <1>5, <1>6, <1>7

\* An object is added to a namespace that is there, and its task goes on to the next.
LEMMA EnsureStep ==
  ASSUME ProvisionInv, NEW t \in Tasks, NEW o, NEW next, Ensure(t, o, o, next),
         \/ o = "quota" /\ next = "limits"
         \/ o = "limits" /\ next = "generic"
         \/ o = "generic" /\ next = "deny"
         \/ o = "account" /\ next = "apiAccess"
         \/ o = "apiAccess" /\ next = "operatorAccess"
         \/ o = "operatorAccess" /\ next = "pullSecret"
         \/ o = "pullSecret" /\ next = "watchRole"
         \/ o = "watchRole" /\ next = "watchRead"
         \/ o = "ownerRole" /\ next = "ownerBinding"
  PROVE  ProvisionInv'
<1>1. PICK x : x = task[t] /\ TaskSound(x)
  BY DEF ProvisionInv
<1>2. x.pc = o /\ x.ns = Ns(t) /\ x.ns \in Namespaces /\ Exists(x.ns) /\ Placed(x.kind, x.pc) /\ x.kind \in Kinds
  BY <1>1 DEF Ensure, TaskAt, Ns, TaskSound, TaskShape
<1>3. objects' = [objects EXCEPT ![x.ns] = @ \cup {o}] /\ To(t, next)
      /\ UNCHANGED <<owner, workload, watched, version, provisioned, vanished, disturbed, deletions>>
  BY <1>2 DEF Ensure
<1>4. Placed(x.kind, next) /\ x.pc \notin {"start", "done", "failed"}
  BY <1>2 DEF Placed, Granting, Deploying
<1>5. PICK z : /\ task' = [task EXCEPT ![t] = z] /\ TaskShape(z) /\ z.pc = next /\ z.kind = x.kind /\ z.ns = x.ns
               /\ z.version = x.version /\ z.list = x.list /\ z.missing = x.missing
  BY <1>1, <1>2, <1>3, <1>4, ToStep
<1>6. /\ DOMAIN objects' = Namespaces /\ objects'[x.ns] = objects[x.ns] \cup {o}
      /\ \A n \in Namespaces : n # x.ns => objects'[n] = objects[n]
  BY <1>2, <1>3 DEF ProvisionInv
<1>7. \A n \in Namespaces : objects[n] \subseteq objects'[n] /\ ("broad" \in objects'[n] => "broad" \in objects[n])
  BY <1>6
<1>8. Steady
  BY <1>3, <1>7 DEF Steady, ProvisionInv
<1>9. x.kind \in {"deploy", "publish"} => Laid(next, objects'[x.ns]) \/ x.ns \in disturbed'
  <2>1. x.kind \in {"deploy", "publish"} => Laid(o, objects[x.ns]) \/ x.ns \in disturbed
    BY <1>1, <1>2 DEF TaskSound
  <2> QED
    BY <1>3, <1>6, <2>1 DEF Laid, Fresh, Granting, Deploying
<1>10. next = "deny" => "generic" \in objects'[x.ns]
  BY <1>6
<1>11. TaskSound(z)'
  <2>1. next \notin {"prune", "watchUpdate", "unwatch"}
    OBVIOUS
  <2>2. x.version \in 0..version
    BY <1>1 DEF TaskSound
  <2> QED
    BY <1>3, <1>5, <1>9, <1>10, <2>1, <2>2 DEF TaskSound
<1>12. \A n \in Namespaces : NamespaceSound(n)'
  BY <1>3, <1>7 DEF ProvisionInv, NamespaceSound, Gone
<1> QED
  BY <1>3, <1>5, <1>6, <1>8, <1>11, <1>12, OneTask DEF ProvisionInv

\* The narrow policy replaces the broad one where the exception for generic workloads is already there.
LEMMA DenyKept ==
  ASSUME ProvisionInv, NEW t \in Tasks, DefaultDenyNetworkPolicy(t)
  PROVE  ProvisionInv' /\ \A n \in Namespaces : "broad" \in objects[n] /\ "broad" \notin objects'[n] => "generic" \in objects'[n]
<1>1. PICK x : x = task[t] /\ TaskSound(x)
  BY DEF ProvisionInv
<1>2. x.pc = "deny" /\ x.ns = Ns(t) /\ x.ns \in Namespaces /\ Exists(x.ns) /\ Placed(x.kind, x.pc) /\ x.kind \in Kinds
      /\ ("broad" \in objects[x.ns] => "generic" \in objects[x.ns])
  BY <1>1 DEF DefaultDenyNetworkPolicy, TaskAt, Ns, TaskSound, TaskShape
<1>3. PICK next : next = IF x.kind = "reconcile" THEN "done" ELSE "account"
  OBVIOUS
<1>4. objects' = [objects EXCEPT ![x.ns] = (@ \ {"broad"}) \cup {"deny"}] /\ To(t, next)
      /\ UNCHANGED <<owner, workload, watched, version, provisioned, vanished, disturbed, deletions>>
  BY <1>1, <1>2, <1>3 DEF DefaultDenyNetworkPolicy
<1>5. Placed(x.kind, next) /\ x.pc \notin {"start", "done", "failed"}
  BY <1>2, <1>3 DEF Placed, Granting, Deploying
<1>6. PICK z : /\ task' = [task EXCEPT ![t] = z] /\ TaskShape(z) /\ z.pc = next /\ z.kind = x.kind /\ z.ns = x.ns
               /\ z.version = x.version /\ z.list = x.list /\ z.missing = x.missing
  <2>1. next # "prune"
    BY <1>3
  <2> QED
    BY <1>1, <1>2, <1>4, <1>5, <2>1, ToStep
<1>7. /\ DOMAIN objects' = Namespaces /\ objects'[x.ns] = (objects[x.ns] \ {"broad"}) \cup {"deny"}
      /\ \A n \in Namespaces : n # x.ns => objects'[n] = objects[n]
  BY <1>2, <1>4 DEF ProvisionInv
<1>8. \A n \in Namespaces : objects[n] \ {"broad"} \subseteq objects'[n] /\ ("broad" \in objects'[n] => "broad" \in objects[n])
  BY <1>2, <1>7
<1>9. Steady
  BY <1>4, <1>8 DEF Steady, ProvisionInv
<1>10. x.kind \in {"deploy", "publish"} => Laid(next, objects'[x.ns]) \/ x.ns \in disturbed'
  <2>1. x.kind \in {"deploy", "publish"} => Laid("deny", objects[x.ns]) \/ x.ns \in disturbed
    BY <1>1, <1>2 DEF TaskSound
  <2> QED
    BY <1>3, <1>4, <1>7, <2>1 DEF Laid, Fresh, Granting, Deploying
<1>11. TaskSound(z)'
  <2>1. next \notin {"prune", "watchUpdate", "unwatch", "deny"}
    BY <1>3
  <2>2. x.version \in 0..version
    BY <1>1 DEF TaskSound
  <2> QED
    BY <1>4, <1>6, <1>10, <2>1, <2>2 DEF TaskSound
<1>12. \A n \in Namespaces : NamespaceSound(n)'
  BY <1>4, <1>8 DEF ProvisionInv, NamespaceSound, Gone, Confining
<1>13. ProvisionInv'
  BY <1>4, <1>6, <1>7, <1>9, <1>11, <1>12, OneTask DEF ProvisionInv
<1> QED
  BY <1>2, <1>7, <1>13

\* A namespace is made, with nothing in it yet.
LEMMA NamespaceMade ==
  ASSUME ProvisionInv, NEW t \in Tasks, EnsureNamespace(t)
  PROVE  ProvisionInv'
<1>1. PICK x : x = task[t] /\ TaskSound(x)
  BY DEF ProvisionInv
<1>2. x.pc = "namespace" /\ x.ns = Ns(t) /\ x.ns \in Namespaces /\ Placed(x.kind, x.pc) /\ x.kind \in Kinds
  BY <1>1 DEF EnsureNamespace, TaskAt, Ns, TaskSound, TaskShape
<1>3. objects' = [objects EXCEPT ![x.ns] = @ \cup {"namespace"}] /\ To(t, "quota")
      /\ UNCHANGED <<owner, workload, watched, version, provisioned, vanished, disturbed, deletions>>
  BY <1>2 DEF EnsureNamespace
<1>4. Placed(x.kind, "quota") /\ x.pc \notin {"start", "done", "failed"}
  BY <1>2 DEF Placed, Granting, Deploying
<1>5. PICK z : /\ task' = [task EXCEPT ![t] = z] /\ TaskShape(z) /\ z.pc = "quota" /\ z.kind = x.kind /\ z.ns = x.ns
               /\ z.version = x.version /\ z.list = x.list /\ z.missing = x.missing
  BY <1>1, <1>2, <1>3, <1>4, ToStep
<1>6. /\ DOMAIN objects' = Namespaces /\ objects'[x.ns] = objects[x.ns] \cup {"namespace"}
      /\ \A n \in Namespaces : n # x.ns => objects'[n] = objects[n]
  BY <1>2, <1>3 DEF ProvisionInv
<1>7. \A n \in Namespaces : objects[n] \subseteq objects'[n] /\ ("broad" \in objects'[n] => "broad" \in objects[n])
  BY <1>6
<1>8. Steady
  BY <1>3, <1>7 DEF Steady, ProvisionInv
<1>9. Laid("quota", objects'[x.ns])
  BY <1>6 DEF Laid, Fresh, Granting, Deploying
<1>10. TaskSound(z)'
  <2>1. x.version \in 0..version
    BY <1>1 DEF TaskSound
  <2> QED
    BY <1>3, <1>5, <1>9, <2>1 DEF TaskSound
<1>11. \A n \in Namespaces : NamespaceSound(n)'
  BY <1>3, <1>7 DEF ProvisionInv, NamespaceSound, Gone
<1> QED
  BY <1>3, <1>5, <1>6, <1>8, <1>10, <1>11, OneTask DEF ProvisionInv

\* A record after an update that says what the fields are.
TaskRecord(z, pc, x, image, ver, list, check, missing) ==
    z = [pc |-> pc, kind |-> x.kind, ns |-> x.ns, member |-> x.member, image |-> image,
         version |-> ver, list |-> list, already |-> z.already, toCheck |-> check, missing |-> missing]

\* ... also one that says whether the name was in the list already.
LEMMA RecordFound ==
  ASSUME NEW y, NEW pc, NEW x, NEW image, NEW ver, NEW list, NEW check, NEW missing,
         TaskRecord(y, pc, x, image, ver, list, check, missing), NEW found, NEW z, z = [y EXCEPT !.already = found]
  PROVE  TaskRecord(z, pc, x, image, ver, list, check, missing)
<1>1. z = [pc |-> pc, kind |-> x.kind, ns |-> x.ns, member |-> x.member, image |-> image,
           version |-> ver, list |-> list, already |-> found, toCheck |-> check, missing |-> missing]
  BY DEF TaskRecord
<1>2. z.already = found
  BY <1>1
<1> QED
  BY <1>1, <1>2 DEF TaskRecord

\* Tasks start with nothing laid, and a deployment with an image of its own scope.
LEMMA TaskStarts ==
  ASSUME ProvisionInv, NEW t \in Tasks,
         \/ handleDeploymentApply(t) \/ ensureServerApplyNamespace(t)
         \/ ReconcileTeamNamespaceNetworkPolicies(t) \/ handleRuntimeTeamDelete(t)
  PROVE  ProvisionInv'
<1> PICK x : x = task[t] /\ TaskSound(x)
  BY DEF ProvisionInv
<1>1. x = [pc |-> x.pc, kind |-> x.kind, ns |-> x.ns, member |-> x.member, image |-> x.image,
           version |-> x.version, list |-> x.list, already |-> x.already, toCheck |-> x.toCheck, missing |-> x.missing]
      /\ TaskShape(x) /\ x.ns = Ns(t) /\ x.pc = "start"
  BY DEF TaskSound, TaskShape, Ns, handleDeploymentApply, ensureServerApplyNamespace,
         ReconcileTeamNamespaceNetworkPolicies, handleRuntimeTeamDelete, TaskAt
<1>2. CASE handleDeploymentApply(t)
  <2>1. PICK image : ValidateDeployImage(image, x.ns) /\ task' = [task EXCEPT ![t].pc = "namespace", ![t].image = image]
    <3>1. PICK given \in DeployImages :
             /\ ValidateDeployImage(ResolveDeployImageReference(given, Ns(t)), Ns(t))
             /\ task' = [task EXCEPT ![t].pc = "namespace", ![t].image = ResolveDeployImageReference(given, Ns(t))]
      BY <1>2 DEF handleDeploymentApply
    <3> QED
      BY <1>1, <3>1
  <2>2. PICK y : y = [x EXCEPT !.pc = "namespace"]
    OBVIOUS
  <2>3. TaskRecord(y, "namespace", x, x.image, x.version, x.list, x.toCheck, x.missing)
    BY <1>1, <2>2 DEF TaskRecord
  <2>4. PICK z : z = [y EXCEPT !.image = image]
    OBVIOUS
  <2>5. TaskRecord(z, "namespace", x, image, x.version, x.list, x.toCheck, x.missing)
    BY <2>3, <2>4 DEF TaskRecord
  <2>6. task' = [task EXCEPT ![t] = z]
    BY <2>1, <2>2, <2>4 DEF ProvisionInv
  <2>7. x.kind = "deploy"
    BY <1>2 DEF handleDeploymentApply
  <2>8. TaskShape(z)
    BY <1>1, <2>1, <2>5, <2>7 DEF TaskShape, TaskRecord, Placed, Granting, Deploying
  <2>9. TaskSound(z)
    BY <2>5, <2>8 DEF TaskSound, TaskRecord, Laid, Fresh, Granting, Deploying
  <2> QED
    BY <1>2, <2>6, <2>9, TaskOnly DEF handleDeploymentApply
<1>3. CASE ensureServerApplyNamespace(t) \/ ReconcileTeamNamespaceNetworkPolicies(t)
  <2>1. PICK pc : To(t, pc) /\ ((pc = "namespace" /\ x.kind = "publish") \/ (pc = "generic" /\ x.kind = "reconcile"))
    BY <1>3 DEF ensureServerApplyNamespace, ReconcileTeamNamespaceNetworkPolicies
  <2>2. Placed(x.kind, pc) /\ x.kind # "deploy"
    BY <2>1 DEF Placed, Granting, Deploying
  <2>3. PICK z : /\ task' = [task EXCEPT ![t] = z] /\ TaskShape(z) /\ z.pc = pc /\ z.kind = x.kind /\ z.ns = x.ns
                 /\ z.version = x.version /\ z.list = x.list /\ z.missing = x.missing
    BY <1>1, <2>1, <2>2, ToStep
  <2>4. TaskSound(z)
    BY <2>1, <2>3 DEF TaskSound, Laid, Fresh, Granting, Deploying
  <2> QED
    BY <1>3, <2>3, <2>4, TaskOnly DEF ensureServerApplyNamespace, ReconcileTeamNamespaceNetworkPolicies
<1>4. CASE handleRuntimeTeamDelete(t)
  <2>1. PICK less, found : less = watched \ {x.ns} /\ found = (x.ns \in watched)
    OBVIOUS
  <2>2. task' = [task EXCEPT ![t].pc = "unwatch", ![t].version = version, ![t].list = less,
                             ![t].already = found] /\ x.kind = "deleteTeam"
    BY <1>1, <1>4, <2>1 DEF handleRuntimeTeamDelete
  <2>3. PICK y : y = [x EXCEPT !.pc = "unwatch"]
    OBVIOUS
  <2>4. TaskRecord(y, "unwatch", x, x.image, x.version, x.list, x.toCheck, x.missing)
    BY <1>1, <2>3 DEF TaskRecord
  <2>5. PICK w : w = [y EXCEPT !.version = version]
    OBVIOUS
  <2>6. TaskRecord(w, "unwatch", x, x.image, version, x.list, x.toCheck, x.missing)
    BY <2>4, <2>5 DEF TaskRecord
  <2>7. PICK z : z = [w EXCEPT !.list = less, !.already = found]
    OBVIOUS
  <2>8. TaskRecord(z, "unwatch", x, x.image, version, less, x.toCheck, x.missing)
    <3>1. TaskRecord([w EXCEPT !.list = less], "unwatch", x, x.image, version, less, x.toCheck, x.missing)
      BY <2>6 DEF TaskRecord
    <3> QED
      BY <2>7, <3>1, RecordFound
  <2>9. task' = [task EXCEPT ![t] = z]
    BY <2>2, <2>3, <2>5, <2>7 DEF ProvisionInv
  <2>10. TaskShape(z)
    BY <1>1, <2>2, <2>8 DEF TaskShape, TaskRecord, Placed, Granting, Deploying
  <2>11. version \in Nat
    BY DEF ProvisionInv
  <2>12. TaskSound(z)
    BY <2>1, <2>2, <2>8, <2>10, <2>11 DEF TaskSound, TaskRecord
  <2> QED
    BY <1>4, <2>9, <2>12, TaskOnly DEF handleRuntimeTeamDelete
<1> QED
  BY <1>2, <1>3, <1>4

\* What is read of the watch list is of the version that is read with it, and a name found missing
\* was deleted under its watch or under this task.
LEMMA WatchReadsKept ==
  ASSUME ProvisionInv, NEW t \in Tasks, traefikNamespaceWatchArg(t) \/ pruneMissingTraefikNamespaceWatches(t)
  PROVE  ProvisionInv'
<1> PICK x : x = task[t] /\ TaskSound(x)
  BY DEF ProvisionInv
<1>1. x = [pc |-> x.pc, kind |-> x.kind, ns |-> x.ns, member |-> x.member, image |-> x.image,
           version |-> x.version, list |-> x.list, already |-> x.already, toCheck |-> x.toCheck, missing |-> x.missing]
      /\ TaskShape(x) /\ x.ns = Ns(t) /\ x.ns \in Namespaces /\ Placed(x.kind, x.pc) /\ x.pc \in {"watchRead", "prune"}
  BY DEF TaskSound, TaskShape, Ns, traefikNamespaceWatchArg, pruneMissingTraefikNamespaceWatches, TaskAt
<1>2. UNCHANGED provisionState
  BY DEF traefikNamespaceWatchArg, pruneMissingTraefikNamespaceWatches
<1>3. (Laid("prune", objects[x.ns]) /\ Laid("watchUpdate", objects[x.ns])) \/ x.ns \in disturbed
  BY <1>1 DEF TaskSound, TaskShape, Laid, Fresh, Granting, Deploying, Placed, Kinds
<1>4. CASE traefikNamespaceWatchArg(t)
  <2>1. PICK list, found : list = watched \cup {x.ns} /\ found = (x.ns \in watched)
    OBVIOUS
  <2>2. task' = [task EXCEPT ![t].pc = "prune", ![t].version = version, ![t].list = list,
                             ![t].already = found, ![t].toCheck = list, ![t].missing = {}]
    BY <1>1, <1>4, <2>1 DEF traefikNamespaceWatchArg
  <2>3. PICK y : y = [x EXCEPT !.pc = "prune", !.version = version]
    OBVIOUS
  <2>4. TaskRecord(y, "prune", x, x.image, version, x.list, x.toCheck, x.missing)
    BY <1>1, <2>3 DEF TaskRecord
  <2>5. PICK w : w = [y EXCEPT !.list = list, !.already = found, !.toCheck = list]
    OBVIOUS
  <2>6. TaskRecord(w, "prune", x, x.image, version, list, list, x.missing)
    <3>1. TaskRecord([y EXCEPT !.list = list], "prune", x, x.image, version, list, x.toCheck, x.missing)
      BY <2>4 DEF TaskRecord
    <3>2. PICK v : v = [[y EXCEPT !.list = list] EXCEPT !.already = found]
      OBVIOUS
    <3>3. TaskRecord(v, "prune", x, x.image, version, list, x.toCheck, x.missing)
      BY <3>1, <3>2, RecordFound
    <3>4. w = [v EXCEPT !.toCheck = list]
      BY <2>5, <3>2
    <3> QED
      BY <3>3, <3>4 DEF TaskRecord
  <2>7. PICK z : z = [w EXCEPT !.missing = {}]
    OBVIOUS
  <2>8. TaskRecord(z, "prune", x, x.image, version, list, list, {})
    BY <2>6, <2>7 DEF TaskRecord
  <2>9. task' = [task EXCEPT ![t] = z]
    BY <2>2, <2>3, <2>5, <2>7 DEF ProvisionInv
  <2>10. list \subseteq Namespaces /\ version \in Nat
    BY <1>1, <2>1 DEF ProvisionInv
  <2>11. x.kind \notin {"deleteTeam", "reconcile"} /\ x.pc = "watchRead"
    BY <1>1, <1>4 DEF Placed, traefikNamespaceWatchArg, TaskAt
  <2>12. TaskShape(z)
    BY <1>1, <2>8, <2>10, <2>11 DEF TaskShape, TaskRecord, Placed, Granting, Deploying
  <2>13. TaskSound(z)
    BY <1>3, <2>1, <2>8, <2>10, <2>12 DEF TaskSound, TaskRecord
  <2> QED
    BY <1>2, <2>9, <2>13, TaskOnly
<1>5. CASE pruneMissingTraefikNamespaceWatches(t) /\ x.toCheck = {}
  <2>1. To(t, "watchUpdate") /\ x.pc = "prune"
    BY <1>5 DEF pruneMissingTraefikNamespaceWatches, TaskAt
  <2>2. Placed(x.kind, "watchUpdate")
    BY <1>1, <2>1 DEF Placed, Granting, Deploying
  <2>3. PICK z : /\ task' = [task EXCEPT ![t] = z] /\ TaskShape(z) /\ z.pc = "watchUpdate" /\ z.kind = x.kind /\ z.ns = x.ns
                 /\ z.version = x.version /\ z.list = x.list /\ z.missing = x.missing
    BY <1>1, <2>1, <2>2, ToStep
  <2>4. TaskSound(z)
    BY <1>3, <2>1, <2>3 DEF TaskSound
  <2> QED
    BY <1>2, <2>3, <2>4, TaskOnly
<1>6. CASE pruneMissingTraefikNamespaceWatches(t) /\ x.toCheck # {}
  <2>1. PICK n \in x.toCheck :
           task' = [task EXCEPT ![t].toCheck = @ \ {n}, ![t].missing = IF Exists(n) THEN @ ELSE @ \cup {n}]
    BY <1>6 DEF pruneMissingTraefikNamespaceWatches
  <2>2. PICK gone : gone = IF Exists(n) THEN x.missing ELSE x.missing \cup {n}
    OBVIOUS
  <2>3. PICK left : left = x.toCheck \ {n}
    OBVIOUS
  <2>4. PICK y : y = [x EXCEPT !.toCheck = left]
    OBVIOUS
  <2>5. TaskRecord(y, x.pc, x, x.image, x.version, x.list, left, x.missing)
    BY <1>1, <2>4 DEF TaskRecord
  <2>6. PICK z : z = [y EXCEPT !.missing = gone]
    OBVIOUS
  <2>7. TaskRecord(z, x.pc, x, x.image, x.version, x.list, left, gone)
    BY <2>5, <2>6 DEF TaskRecord
  <2>8. task' = [task EXCEPT ![t] = z]
    <3>1. y.missing = x.missing
      BY <2>5 DEF TaskRecord
    <3>2. z = [[x EXCEPT !.toCheck = @ \ {n}] EXCEPT !.missing = IF Exists(n) THEN @ ELSE @ \cup {n}]
      BY <2>2, <2>3, <2>4, <2>6, <3>1
    <3> QED
      BY <2>1, <3>2 DEF ProvisionInv
  <2>9. TaskShape(z)
    BY <1>1, <2>3, <2>7 DEF TaskShape, TaskRecord
  <2>10. n \in Namespaces
    BY <1>1 DEF TaskShape
  <2>11. x.version = version /\ ~ Exists(n) => n \in Gone
    <3>1. NamespaceSound(n)
      BY <2>10 DEF ProvisionInv
    <3>2. "namespace" \in objects[x.ns] \/ x.ns \in Gone
      BY <1>3 DEF Laid, Fresh, Granting, Deploying, Gone
    <3>3. x.version = version => n \in watched \cup {x.ns}
      BY <1>1, <1>6, <2>1 DEF TaskSound, TaskShape, pruneMissingTraefikNamespaceWatches, TaskAt
    <3> QED
      BY <3>1, <3>2, <3>3 DEF NamespaceSound, Exists
  <2>12. TaskSound(z)
    BY <1>3, <2>2, <2>7, <2>9, <2>10, <2>11 DEF TaskSound, TaskRecord
  <2> QED
    BY <1>2, <2>8, <2>12, TaskOnly
<1> QED
  BY <1>4, <1>5, <1>6

\* Watch list updates are of the version that was read: nothing another task added is lost.
LEMMA WatchKeptStep ==
  ASSUME ProvisionInv, NEW t \in Tasks, ensureTraefikDeploymentWatchesNamespace(t)
  PROVE  ProvisionInv'
<1> PICK x : x = task[t] /\ TaskSound(x)
  BY DEF ProvisionInv
<1>1. x = [pc |-> x.pc, kind |-> x.kind, ns |-> x.ns, member |-> x.member, image |-> x.image,
           version |-> x.version, list |-> x.list, already |-> x.already, toCheck |-> x.toCheck, missing |-> x.missing]
      /\ TaskShape(x) /\ x.ns = Ns(t) /\ x.ns \in Namespaces /\ Placed(x.kind, x.pc) /\ x.pc = "watchUpdate"
      /\ version \in Nat /\ x.version \in 0..version
  BY DEF TaskSound, TaskShape, Ns, ensureTraefikDeploymentWatchesNamespace, TaskAt, ProvisionInv
<1>2. x.kind = "deploy" \/ x.kind = "publish"
  BY <1>1 DEF TaskShape, Placed, Kinds
<1>3. Laid("watchUpdate", objects[x.ns]) \/ x.ns \in disturbed
  BY <1>1, <1>2 DEF TaskSound
<1>4. (Laid("ownerRole", objects[x.ns]) /\ Laid("watchRead", objects[x.ns])) \/ x.ns \in disturbed
  BY <1>3 DEF Laid, Fresh, Granting, Deploying
<1>5. UNCHANGED <<objects, owner, workload, vanished, disturbed, deletions>>
  BY DEF ensureTraefikDeploymentWatchesNamespace
<1>6. CASE x.already /\ x.missing = {}
  <2>1. UNCHANGED <<watched, version>> /\ To(t, "ownerRole")
    BY <1>6 DEF ensureTraefikDeploymentWatchesNamespace
  <2>2. provisioned' \subseteq provisioned \cup watched
    BY <1>6, <2>1 DEF ensureTraefikDeploymentWatchesNamespace
  <2>3. Placed(x.kind, "ownerRole")
    BY <1>2 DEF Placed, Deploying
  <2>4. PICK z : /\ task' = [task EXCEPT ![t] = z] /\ TaskShape(z) /\ z.pc = "ownerRole" /\ z.kind = x.kind /\ z.ns = x.ns
                 /\ z.version = x.version /\ z.list = x.list /\ z.missing = x.missing
    BY <1>1, <2>1, <2>3, ToStep
  <2>5. TaskSound(z)'
    BY <1>1, <1>4, <1>5, <2>1, <2>4 DEF TaskSound
  <2>6. Steady
    BY <1>1, <1>5, <2>1 DEF Steady
  <2>7. \A n \in Namespaces : NamespaceSound(n)'
    BY <1>5, <2>1, <2>2 DEF ProvisionInv, NamespaceSound, Gone
  <2> QED
    BY <1>5, <2>1, <2>2, <2>4, <2>5, <2>6, <2>7, OneTask DEF ProvisionInv
<1>7. CASE ~ (x.already /\ x.missing = {}) /\ x.version # version
  <2>1. task' = [task EXCEPT ![t].pc = "watchRead", ![t].missing = {}] /\ UNCHANGED <<watched, version, provisioned>>
    BY <1>7 DEF ensureTraefikDeploymentWatchesNamespace
  <2>2. PICK y : y = [x EXCEPT !.pc = "watchRead"]
    OBVIOUS
  <2>3. TaskRecord(y, "watchRead", x, x.image, x.version, x.list, x.toCheck, x.missing)
    BY <1>1, <2>2 DEF TaskRecord
  <2>4. PICK z : z = [y EXCEPT !.missing = {}]
    OBVIOUS
  <2>5. TaskRecord(z, "watchRead", x, x.image, x.version, x.list, x.toCheck, {})
    BY <2>3, <2>4 DEF TaskRecord
  <2>6. task' = [task EXCEPT ![t] = z]
    BY <2>1, <2>2, <2>4 DEF ProvisionInv
  <2>7. TaskShape(z)
    BY <1>1, <1>2, <2>5 DEF TaskShape, TaskRecord, Placed, Deploying
  <2>8. TaskSound(z)
    BY <1>1, <1>4, <2>5, <2>7 DEF TaskSound, TaskRecord
  <2> QED
    BY <1>5, <2>1, <2>6, <2>8, TaskOnly DEF provisionState
<1>8. CASE ~ (x.already /\ x.missing = {}) /\ x.version = version
  <2>1. /\ watched' = x.list \ x.missing /\ version' = version + 1
        /\ task' = [task EXCEPT ![t].pc = "ownerRole", ![t].missing = {}]
    BY <1>8 DEF ensureTraefikDeploymentWatchesNamespace
  <2>2. x.list = watched \cup {x.ns} /\ x.missing \subseteq Gone
    BY <1>1, <1>8 DEF TaskSound
  <2>3. provisioned' \subseteq provisioned \cup watched'
    BY DEF ensureTraefikDeploymentWatchesNamespace
  <2>4. PICK y : y = [x EXCEPT !.pc = "ownerRole"]
    OBVIOUS
  <2>5. TaskRecord(y, "ownerRole", x, x.image, x.version, x.list, x.toCheck, x.missing)
    BY <1>1, <2>4 DEF TaskRecord
  <2>6. PICK z : z = [y EXCEPT !.missing = {}]
    OBVIOUS
  <2>7. TaskRecord(z, "ownerRole", x, x.image, x.version, x.list, x.toCheck, {})
    BY <2>5, <2>6 DEF TaskRecord
  <2>8. task' = [task EXCEPT ![t] = z]
    BY <2>1, <2>4, <2>6 DEF ProvisionInv
  <2>9. TaskShape(z)
    BY <1>1, <1>2, <2>7 DEF TaskShape, TaskRecord, Placed, Deploying
  <2>10. TaskSound(z)'
    BY <1>1, <1>4, <1>5, <2>1, <2>7, <2>9 DEF TaskSound, TaskRecord
  <2>11. Steady
    BY <1>1, <1>5, <2>1 DEF Steady
  <2>12. watched' \subseteq Namespaces /\ provisioned' \subseteq Namespaces
    BY <1>1, <2>1, <2>2, <2>3 DEF ProvisionInv
  <2>13. {"namespace", "watchRole"} \subseteq objects[x.ns] \/ x.ns \in Gone
    BY <1>4 DEF Laid, Fresh, Granting, Deploying, Gone
  <2>14. ASSUME NEW n \in Namespaces PROVE NamespaceSound(n)'
    <3>1. NamespaceSound(n)
      BY DEF ProvisionInv
    <3>2. n \in provisioned' => n \in watched' \cup Gone
      BY <2>1, <2>2, <2>3, <3>1 DEF NamespaceSound
    <3>3. n \in watched' => n \in Gone \/ {"namespace", "watchRole"} \subseteq objects[n]
      BY <2>1, <2>2, <2>13, <3>1 DEF NamespaceSound
    <3> QED
      BY <1>5, <3>1, <3>2, <3>3 DEF NamespaceSound, Gone
  <2> QED
    BY <1>5, <2>8, <2>10, <2>11, <2>12, <2>14, OneTask DEF ProvisionInv
<1> QED
  BY <1>6, <1>7, <1>8

\* A team's deletion takes its namespace alone out of the list.
LEMMA UnwatchKept ==
  ASSUME ProvisionInv, NEW t \in Tasks, RemoveTraefikDeploymentWatchesNamespace(t)
  PROVE  ProvisionInv'
<1> PICK x : x = task[t] /\ TaskSound(x)
  BY DEF ProvisionInv
<1>1. x = [pc |-> x.pc, kind |-> x.kind, ns |-> x.ns, member |-> x.member, image |-> x.image,
           version |-> x.version, list |-> x.list, already |-> x.already, toCheck |-> x.toCheck, missing |-> x.missing]
      /\ TaskShape(x) /\ x.ns = Ns(t) /\ x.ns \in Namespaces /\ Placed(x.kind, x.pc) /\ x.pc = "unwatch"
      /\ version \in Nat /\ x.version \in 0..version
  BY DEF TaskSound, TaskShape, Ns, RemoveTraefikDeploymentWatchesNamespace, TaskAt, ProvisionInv
<1>2. x.kind = "deleteTeam"
  BY <1>1 DEF Placed
<1>3. UNCHANGED <<objects, owner, workload, vanished, disturbed, deletions>>
  BY DEF RemoveTraefikDeploymentWatchesNamespace
<1>4. Placed(x.kind, "done")
  BY DEF Placed, Deploying
<1>5. CASE ~ x.already
  <2>1. To(t, "done") /\ UNCHANGED <<watched, version, provisioned>>
    BY <1>5 DEF RemoveTraefikDeploymentWatchesNamespace
  <2>2. PICK z : /\ task' = [task EXCEPT ![t] = z] /\ TaskShape(z) /\ z.pc = "done" /\ z.kind = x.kind /\ z.ns = x.ns
                 /\ z.version = x.version /\ z.list = x.list /\ z.missing = x.missing
    BY <1>1, <1>4, <2>1, ToStep
  <2>3. TaskSound(z)
    BY <1>1, <1>2, <2>2 DEF TaskSound
  <2> QED
    BY <1>3, <2>1, <2>2, <2>3, TaskOnly DEF provisionState
<1>6. CASE x.already /\ x.version # version
  <2>1. PICK less, found : less = watched \ {x.ns} /\ found = (x.ns \in watched)
    OBVIOUS
  <2>2. task' = [task EXCEPT ![t].version = version, ![t].list = less, ![t].already = found]
        /\ UNCHANGED <<watched, version, provisioned>>
    BY <1>1, <1>6, <2>1 DEF RemoveTraefikDeploymentWatchesNamespace
  <2>3. PICK y : y = [x EXCEPT !.version = version]
    OBVIOUS
  <2>4. TaskRecord(y, "unwatch", x, x.image, version, x.list, x.toCheck, x.missing)
    BY <1>1, <2>3 DEF TaskRecord
  <2>5. PICK z : z = [y EXCEPT !.list = less, !.already = found]
    OBVIOUS
  <2>6. TaskRecord(z, "unwatch", x, x.image, version, less, x.toCheck, x.missing)
    <3>1. TaskRecord([y EXCEPT !.list = less], "unwatch", x, x.image, version, less, x.toCheck, x.missing)
      BY <2>4 DEF TaskRecord
    <3> QED
      BY <2>5, <3>1, RecordFound
  <2>7. task' = [task EXCEPT ![t] = z]
    BY <2>2, <2>3, <2>5 DEF ProvisionInv
  <2>8. TaskShape(z)
    BY <1>1, <2>6 DEF TaskShape, TaskRecord
  <2>9. TaskSound(z)
    BY <1>1, <1>2, <2>1, <2>6, <2>8 DEF TaskSound, TaskRecord
  <2> QED
    BY <1>3, <2>2, <2>7, <2>9, TaskOnly DEF provisionState
<1>7. CASE x.already /\ x.version = version
  <2>1. watched' = x.list /\ version' = version + 1 /\ provisioned' = provisioned \ {x.ns} /\ To(t, "done")
    BY <1>1, <1>7 DEF RemoveTraefikDeploymentWatchesNamespace
  <2>2. x.list = watched \ {x.ns}
    BY <1>1, <1>7 DEF TaskSound
  <2>3. PICK z : /\ task' = [task EXCEPT ![t] = z] /\ TaskShape(z) /\ z.pc = "done" /\ z.kind = x.kind /\ z.ns = x.ns
                 /\ z.version = x.version /\ z.list = x.list /\ z.missing = x.missing
    BY <1>1, <1>4, <2>1, ToStep
  <2>4. TaskSound(z)'
    BY <1>1, <1>2, <2>1, <2>3 DEF TaskSound
  <2>5. Steady
    BY <1>1, <1>3, <2>1 DEF Steady
  <2>6. \A n \in Namespaces : NamespaceSound(n)'
    BY <1>1, <1>3, <2>1, <2>2 DEF ProvisionInv, NamespaceSound, Gone
  <2>7. watched' \subseteq Namespaces /\ provisioned' \subseteq Namespaces
    BY <2>1, <2>2 DEF ProvisionInv
  <2> QED
    BY <1>3, <2>3, <2>4, <2>5, <2>6, <2>7, OneTask DEF ProvisionInv
<1> QED
  BY <1>5, <1>6, <1>7

\* The deployment is written where all that confines it was laid before.
LEMMA DeployKept ==
  ASSUME ProvisionInv, NEW t \in Tasks, EnsureUserWorkloadRBAC(t) \/ upsertDeployment(t) \/ upsertService(t)
  PROVE  ProvisionInv'
<1> PICK x : x = task[t] /\ TaskSound(x)
  BY DEF ProvisionInv
<1>1. TaskShape(x) /\ x.ns = Ns(t) /\ x.ns \in Namespaces /\ Placed(x.kind, x.pc)
      /\ x.pc \in {"ownerBinding", "deployment", "service"} /\ version \in Nat /\ x.version \in 0..version
  BY DEF TaskSound, TaskShape, Ns, EnsureUserWorkloadRBAC, upsertDeployment, upsertService, TaskAt, ProvisionInv
<1>2. /\ x.kind = "deploy" \/ (x.kind = "publish" /\ EnsureUserWorkloadRBAC(t))
      /\ x.kind = "deploy" => ValidateDeployImage(x.image, x.ns)
  BY <1>1 DEF Placed, Deploying, TaskShape, Kinds, EnsureUserWorkloadRBAC, upsertDeployment, upsertService, TaskAt
<1>3. PICK next : To(t, next) /\ (next = "done" \/ (x.kind = "deploy" /\ (next = "deployment" \/ next = "service")))
  BY <1>2 DEF EnsureUserWorkloadRBAC, upsertDeployment, upsertService
<1>4. Placed(x.kind, next)
  BY <1>2, <1>3 DEF Placed, Deploying
<1>5. PICK z : /\ task' = [task EXCEPT ![t] = z] /\ TaskShape(z) /\ z.pc = next /\ z.kind = x.kind /\ z.ns = x.ns
               /\ z.version = x.version /\ z.list = x.list /\ z.missing = x.missing
  BY <1>1, <1>3, <1>4, ToStep
<1>6. UNCHANGED <<objects, watched, version, provisioned, vanished, disturbed, deletions>>
  BY DEF EnsureUserWorkloadRBAC, upsertDeployment, upsertService, provisionState
<1>7. (Laid(next, objects[x.ns]) /\ Laid("deployment", objects[x.ns])) \/ x.ns \in disturbed
  <2>1. Laid(x.pc, objects[x.ns]) \/ x.ns \in disturbed
    BY <1>2 DEF TaskSound
  <2> QED
    BY <1>1, <1>3, <2>1 DEF Laid, Fresh, Granting, Deploying
<1>8. TaskSound(z)'
  BY <1>1, <1>3, <1>5, <1>6, <1>7 DEF TaskSound
<1>9. Steady
  BY <1>1, <1>6 DEF Steady
<1>10. /\ DOMAIN workload' = Namespaces
       /\ \A n \in Namespaces : workload'[n] = workload[n] \/ (n = x.ns /\ workload'[n] = x.image /\ x.kind = "deploy")
  <2>1. workload' = workload \/ (workload' = [workload EXCEPT ![x.ns] = x.image] /\ x.kind = "deploy")
    BY <1>1, <1>2 DEF EnsureUserWorkloadRBAC, upsertDeployment, upsertService, provisionState
  <2> QED
    BY <2>1 DEF ProvisionInv
<1>11. ASSUME NEW n \in Namespaces PROVE NamespaceSound(n)'
  <2>1. NamespaceSound(n)
    BY DEF ProvisionInv
  <2>2. CASE workload'[n] = workload[n]
    BY <1>6, <2>1, <2>2 DEF NamespaceSound, Gone
  <2>3. CASE n = x.ns /\ workload'[n] = x.image /\ x.kind = "deploy"
    <3>1. n \in disturbed \/ Confining \subseteq objects[n]
      BY <1>7, <2>3 DEF Laid, Fresh, Granting, Deploying, Confining
    <3>2. (Approved = {} \/ x.image.host \in Approved) /\ x.image.path[1] = ImageScope(n)
      BY <1>2, <2>3 DEF ValidateDeployImage
    <3> QED
      BY <1>6, <2>1, <2>3, <3>1, <3>2 DEF NamespaceSound, Gone
  <2> QED
    BY <1>10, <2>2, <2>3
<1> QED
  BY <1>5, <1>6, <1>8, <1>9, <1>10, <1>11, OneTask DEF ProvisionInv

\* A task that fails forgets what it found missing.
LEMMA TaskFailsKept ==
  ASSUME ProvisionInv, NEW t \in Tasks, TaskFails(t)
  PROVE  ProvisionInv'
<1>1. PICK x : x = task[t] /\ TaskSound(x)
  BY DEF ProvisionInv
<1>2. x = [pc |-> x.pc, kind |-> x.kind, ns |-> x.ns, member |-> x.member, image |-> x.image,
           version |-> x.version, list |-> x.list, already |-> x.already, toCheck |-> x.toCheck, missing |-> x.missing] /\ TaskShape(x)
  BY <1>1 DEF TaskSound, TaskShape
<1>3. PICK y : y = [x EXCEPT !.pc = "failed"]
  OBVIOUS
<1>4. TaskRecord(y, "failed", x, x.image, x.version, x.list, x.toCheck, x.missing)
  BY <1>2, <1>3 DEF TaskRecord
<1>5. PICK z : z = [y EXCEPT !.missing = {}]
  OBVIOUS
<1>6. TaskRecord(z, "failed", x, x.image, x.version, x.list, x.toCheck, {})
  BY <1>4, <1>5 DEF TaskRecord
<1>7. task' = [task EXCEPT ![t] = z] /\ UNCHANGED provisionState
  BY <1>1, <1>3, <1>5 DEF TaskFails, ProvisionInv
<1>8. TaskShape(z)
  BY <1>2, <1>6 DEF TaskShape, TaskRecord, Placed, Granting, Deploying
<1>9. TaskSound(z)
  BY <1>1, <1>6, <1>8 DEF TaskSound, TaskRecord, Laid, Fresh, Granting, Deploying
<1> QED
  BY <1>7, <1>9, TaskOnly

\* A namespace goes with everything in it, and what was at work there counts on nothing any more.
LEMMA DeletionKept ==
  ASSUME ProvisionInv, NEW n \in Namespaces, NamespaceDeleted(n)
  PROVE  ProvisionInv'
<1>1. /\ objects' = [objects EXCEPT ![n] = {}] /\ workload' = [workload EXCEPT ![n] = Nothing0]
      /\ provisioned' = provisioned \ {n} /\ vanished' = IF n \in watched THEN vanished \cup {n} ELSE vanished
      /\ UNCHANGED <<watched, version, task>>
  BY DEF NamespaceDeleted
<1>2. /\ DOMAIN objects' = Namespaces /\ objects'[n] = {} /\ DOMAIN workload' = Namespaces /\ workload'[n] = Nothing0
      /\ \A m \in Namespaces : m # n => objects'[m] = objects[m] /\ workload'[m] = workload[m]
  BY <1>1 DEF ProvisionInv
<1>3. Gone \subseteq Gone' /\ disturbed \subseteq disturbed' /\ (n \in watched => n \in Gone')
  BY <1>1 DEF NamespaceDeleted, Gone
<1>4. ASSUME NEW t \in Tasks PROVE TaskSound(task[t])'
  <2>1. PICK x : x = task[t] /\ TaskSound(x)
    BY DEF ProvisionInv
  <2>2. x.ns \in Namespaces /\ TaskShape(x)
    BY <2>1 DEF TaskSound, TaskShape
  <2>3. x.ns = n => x.pc \in Fresh \/ x.pc = "unwatch" \/ n \in disturbed'
    BY <2>1 DEF NamespaceDeleted, Ns, AtWork, Fresh
  <2>4. x.kind \in {"deploy", "publish"} => Laid(x.pc, objects'[x.ns]) \/ x.ns \in disturbed'
    <3>1. CASE x.ns # n
      BY <1>2, <1>3, <2>1, <2>2, <3>1 DEF TaskSound
    <3>2. CASE x.ns = n /\ x.pc \in Fresh
      BY <3>2 DEF Laid, Fresh, Granting, Deploying
    <3>3. CASE x.ns = n /\ x.pc = "unwatch"
      BY <2>2, <3>3 DEF TaskShape, Placed
    <3>4. CASE x.ns = n /\ n \in disturbed'
      BY <3>4
    <3> QED
      BY <2>3, <3>1, <3>2, <3>3, <3>4
  <2>5. x.pc = "deny" /\ "broad" \in objects'[x.ns] => "generic" \in objects'[x.ns]
    BY <1>2, <2>1, <2>2 DEF TaskSound
  <2>6. x.pc \in {"prune", "watchUpdate"} /\ x.version = version => x.list = watched \cup {x.ns} /\ x.missing \subseteq Gone'
    BY <1>3, <2>1 DEF TaskSound
  <2> QED
    BY <1>1, <2>1, <2>4, <2>5, <2>6 DEF TaskSound
<1>5. ASSUME NEW m \in Namespaces PROVE NamespaceSound(m)'
  <2>1. NamespaceSound(m)
    BY DEF ProvisionInv
  <2>2. CASE m = n
    BY <1>1, <1>2, <1>3, <2>1, <2>2 DEF NamespaceSound
  <2>3. CASE m # n
    <3>1. objects'[m] = objects[m] /\ workload'[m] = workload[m]
      BY <1>1, <1>2, <2>3
    <3> QED
      BY <1>1, <1>3, <2>1, <3>1 DEF NamespaceSound
  <2> QED
    BY <2>2, <2>3
<1> QED
  BY <1>1, <1>2, <1>4, <1>5 DEF ProvisionInv

\* The objects of a step of one task.
EnsuresOne(t) ==
    \/ ensureResourceQuota(t) \/ ensureLimitRange(t) \/ GenericWorkloadIngressNetworkPolicy(t)
    \/ EnsureServiceAccount(t) \/ EnsurePlatformAPISecretAccess(t) \/ EnsureOperatorSecretAccess(t)
    \/ ensureNamespaceRegistryPullSecret(t) \/ ensureTraefikWatchRBAC(t) \/ upsertRole(t)
\* Each of them preserves the invariant.
LEMMA EnsuresKept ==
  ASSUME ProvisionInv, NEW t \in Tasks, EnsuresOne(t)
  PROVE  ProvisionInv'
<1>1. CASE ensureResourceQuota(t)
  BY <1>1, EnsureStep DEF ensureResourceQuota
<1>2. CASE ensureLimitRange(t)
  BY <1>2, EnsureStep DEF ensureLimitRange
<1>3. CASE GenericWorkloadIngressNetworkPolicy(t)
  BY <1>3, EnsureStep DEF GenericWorkloadIngressNetworkPolicy
<1>4. CASE EnsureServiceAccount(t)
  BY <1>4, EnsureStep DEF EnsureServiceAccount
<1>5. CASE EnsurePlatformAPISecretAccess(t)
  BY <1>5, EnsureStep DEF EnsurePlatformAPISecretAccess
<1>6. CASE EnsureOperatorSecretAccess(t)
  BY <1>6, EnsureStep DEF EnsureOperatorSecretAccess
<1>7. CASE ensureNamespaceRegistryPullSecret(t)
  BY <1>7, EnsureStep DEF ensureNamespaceRegistryPullSecret
<1>8. CASE ensureTraefikWatchRBAC(t)
  BY <1>8, EnsureStep DEF ensureTraefikWatchRBAC
<1>9. CASE upsertRole(t)
  BY <1>9, EnsureStep DEF upsertRole
<1> QED
  BY <1>1, <1>2, <1>3, <1>4, <1>5, <1>6, <1>7, <1>8, <1>9 DEF EnsuresOne

\* Nothing runs and nothing is watched at first.
LEMMA ProvisionInitially == ProvisionInit => ProvisionInv
<1> SUFFICES ASSUME ProvisionInit PROVE ProvisionInv
  OBVIOUS
<1>1. PICK plan \in Plans :
         task = [t \in Tasks |-> [pc |-> "start", kind |-> plan[t].kind, ns |-> plan[t].ns,
                                  member |-> plan[t].member, image |-> Nothing0, version |-> 0,
                                  list |-> {}, already |-> FALSE, toCheck |-> {}, missing |-> {}]]
  BY DEF ProvisionInit
<1>2. version = 0 /\ watched = {} /\ provisioned = {} /\ DOMAIN objects = Namespaces
      /\ workload = [n \in Namespaces |-> Nothing0]
  BY DEF ProvisionInit
<1>3. ASSUME NEW t \in Tasks PROVE TaskSound(task[t])
  <2>1. PICK x : x = task[t]
    OBVIOUS
  <2>2. x = [pc |-> "start", kind |-> plan[t].kind, ns |-> plan[t].ns,
             member |-> plan[t].member, image |-> Nothing0, version |-> 0,
             list |-> {}, already |-> FALSE, toCheck |-> {}, missing |-> {}]
    BY <1>1, <2>1
  <2>3. plan[t].kind \in Kinds /\ plan[t].ns \in Namespaces
    BY ProvisioningAssumption
  <2>4. TaskShape(x)
    BY <2>2, <2>3 DEF TaskShape, Placed, Granting, Deploying
  <2>5. x.pc = "start" /\ x.version = 0 /\ x.missing = {}
    BY <2>2
  <2>6. TaskSound(x)
    BY <1>2, <2>4, <2>5 DEF TaskSound, Laid, Fresh, Granting, Deploying
  <2> QED
    BY <2>1, <2>6
<1>4. \A n \in Namespaces : NamespaceSound(n)
  BY <1>2 DEF NamespaceSound
<1> QED
  BY <1>1, <1>2, <1>3, <1>4 DEF ProvisionInv

\* Every step keeps the invariant ...
LEMMA ProvisionKept == ProvisionInv /\ [ProvisionNext]_provisionVars => ProvisionInv'
<1> SUFFICES ASSUME ProvisionInv, [ProvisionNext]_provisionVars PROVE ProvisionInv'
  OBVIOUS
<1>1. CASE UNCHANGED provisionVars
  BY <1>1 DEF provisionVars, provisionState, ProvisionInv, TaskSound, NamespaceSound, Gone
<1>2. ASSUME NEW n \in Namespaces, NamespaceDeleted(n) PROVE ProvisionInv'
  BY <1>2, DeletionKept
<1>3. ASSUME NEW t \in Tasks, DefaultDenyNetworkPolicy(t) PROVE ProvisionInv'
  BY <1>3, DenyKept
<1> QED
  BY <1>1, <1>2, <1>3, TaskStarts, NamespaceMade, EnsuresKept, WatchReadsKept, WatchKeptStep, UnwatchKept, DeployKept,
     TaskFailsKept DEF ProvisionNext, EnsuresOne

\* ... and none but the narrowing of a policy and the end of a namespace removes the broad policy.
LEMMA TrafficStep ==
  ASSUME ProvisionInv, [ProvisionNext]_provisionVars
  PROVE  \A n \in Namespaces : "broad" \in objects[n] /\ Exists(n)' /\ "broad" \notin objects'[n] => "generic" \in objects'[n]
<1>1. ASSUME NEW n \in Namespaces, UNCHANGED objects PROVE "broad" \in objects[n] => "broad" \in objects'[n]
  BY <1>1
<1>2. CASE UNCHANGED objects
  BY <1>1, <1>2
<1>3. CASE objects' # objects
  <2>1. ASSUME NEW n \in Namespaces, NamespaceDeleted(n)
        PROVE  \A m \in Namespaces : "broad" \in objects[m] /\ Exists(m)' => "broad" \in objects'[m]
    BY <2>1 DEF NamespaceDeleted, Exists, ProvisionInv
  <2>2. ASSUME NEW t \in Tasks, DefaultDenyNetworkPolicy(t)
        PROVE  \A n \in Namespaces : "broad" \in objects[n] /\ "broad" \notin objects'[n] => "generic" \in objects'[n]
    BY <2>2, DenyKept
  <2>3. ASSUME NEW t \in Tasks, NEW o, objects' = [objects EXCEPT ![Ns(t)] = @ \cup {o}]
        PROVE  \A n \in Namespaces : "broad" \in objects[n] => "broad" \in objects'[n]
    BY <2>3 DEF ProvisionInv
  <2>4. ASSUME NEW t \in Tasks, EnsuresOne(t) \/ EnsureNamespace(t)
        PROVE  \E o : objects' = [objects EXCEPT ![Ns(t)] = @ \cup {o}]
    BY <2>4 DEF EnsuresOne, EnsureNamespace, Ensure, ensureResourceQuota, ensureLimitRange,
       GenericWorkloadIngressNetworkPolicy, EnsureServiceAccount, EnsurePlatformAPISecretAccess,
       EnsureOperatorSecretAccess, ensureNamespaceRegistryPullSecret, ensureTraefikWatchRBAC, upsertRole
  <2>5. \/ \E n \in Namespaces : NamespaceDeleted(n)
        \/ \E t \in Tasks : DefaultDenyNetworkPolicy(t) \/ EnsuresOne(t) \/ EnsureNamespace(t)
    BY ZenonT(30), <1>3 DEF ProvisionNext, provisionVars, provisionState, EnsuresOne, handleDeploymentApply, ensureServerApplyNamespace,
       ReconcileTeamNamespaceNetworkPolicies, handleRuntimeTeamDelete, traefikNamespaceWatchArg,
       pruneMissingTraefikNamespaceWatches, ensureTraefikDeploymentWatchesNamespace, EnsureUserWorkloadRBAC,
       upsertDeployment, upsertService, RemoveTraefikDeploymentWatchesNamespace, TaskFails
  <2> QED
    BY <2>1, <2>2, <2>3, <2>4, <2>5
<1> QED
  BY <1>2, <1>3

\* What runs in a team's namespace runs behind its limits and policies and from its own images, and the
\* shared controller's watch list loses no namespace and names none it cannot read.
THEOREM TenantsAreConfined == ProvisionSpec => TenantsConfined
<1>1. ProvisionInv => TenantLockedDown /\ ImageInScope /\ WatchKept /\ WatchReadable
  BY DEF ProvisionInv, NamespaceSound, Confining, Gone, TenantLockedDown, ImageInScope, WatchKept, WatchReadable
<1>2. ProvisionInv /\ [ProvisionNext]_provisionVars =>
        [\A n \in Namespaces : "broad" \in objects[n] /\ Exists(n)' /\ "broad" \notin objects'[n]
                                 => "generic" \in objects'[n]]_provisionVars
  BY TrafficStep
<1> QED
  BY <1>1, <1>2, ProvisionInitially, ProvisionKept, PTL DEF ProvisionSpec, TenantsConfined, TrafficKept
=============================================================================
