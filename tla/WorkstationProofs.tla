-------------------------- MODULE WorkstationProofs --------------------------
(***************************************************************************)
(* Proofs about what runs on a workstation and about what an administrator *)
(* runs from one: the adapter's daemon (AdapterDaemon), its proxy          *)
(* (AdapterProxy) and background service (AdapterService), the builds that *)
(* setup starts (ImageBuilds) and the update of a platform                 *)
(* (PlatformUpdate).  They share no variables: each part is a theorem      *)
(* about one specification, from an inductive invariant that holds at the  *)
(* start, is kept by each action and implies the property.                 *)
(*                                                                         *)
(* Daemon: every serial of a key pair is issued once and to one profile    *)
(* (Ledger), so a route, and a probe of one that is still under way,       *)
(* can be judged by the profile its pair was issued to (RoutesSound), no   *)
(* matter what has been renewed or deleted since; OpSound says how far the *)
(* operation under way has got with its own profile.                       *)
(*                                                                         *)
(* Proxy and service: what a caller was told never outlasts the            *)
(* certificate of the transport it was told it over, and the lock, the     *)
(* control operation and the drain imply one another in one direction.     *)
(*                                                                         *)
(* Builds: a builder holds what it has been given until it gives it back,  *)
(* so the number of the holding ones is bounded by the slots.              *)
(*                                                                         *)
(* Update: what a plan leaves out is there and what it holds is there once *)
(* its phase is over (Provided); a report is true because rows are dealt   *)
(* with in catalog order and touched once (InOrder), and undone from the   *)
(* last (InReverse); a second run finds nothing because a plan nobody has  *)
(* interfered with leaves no row behind that differs (Settling).           *)
(***************************************************************************)
EXTENDS AdapterDaemon, AdapterProxy, AdapterService, ImageBuilds, PlatformUpdate, TLAPS,
        FiniteSetTheorems, SequenceTheorems, WellFoundedInduction
-----------------------------------------------------------------------------
\* The per-user daemon's profiles.

Auths == {"none", "removed", "not_enrolled", "sign_in_required", "renewal_failed", "enrolled"}
ProfileType == [kept : BOOLEAN, slug : Paths \cup {"none"}, auth : Auths, session : 0..MaxSerial, sess : 0..SessionTTL,
                cert : 0..CertTTL, known : BOOLEAN]
Owner == ProfileIds \cup {"none"}
OpType == [kind : {"none", "add", "restart", "renew", "delete"}, id : Owner,
           step : {"none", "hook", "cert", "key", "put", "mount", "next", "route"},
           draft : ProfileType, base : ProfileType, fresh : 0..MaxSerial, todo : SUBSET ProfileIds]
RouteType == [id : Owner, token : Owner, pair : 0..MaxSerial]
SecretType == [token : Owner, cert : 0..MaxSerial, key : 0..MaxSerial]
Hooked == {"hook", "cert", "key", "put", "mount"}

Known(i) == profiles[i].kept \/ profiles[i].auth = "removed"
ProfilesSound ==
    /\ profiles \in [ProfileIds -> ProfileType]
    /\ \A i \in Kept : profiles[i].slug \in Paths
    /\ \A i, j \in Kept : profiles[i].slug = profiles[j].slug => i = j
SecretsSound ==
    /\ secrets \in [ProfileIds \cup Paths -> SecretType]
    /\ \A i \in ProfileIds : /\ secrets[i].token \in {"none", i}
                             /\ secrets[i].cert # 0 => issued[secrets[i].cert] = i
                             /\ secrets[i].key # 0 => issued[secrets[i].key] = i
\* A route that presents a certificate, wherever it is kept: its profile was added once, and while it is
\* kept the path is its own and its stored key pair is complete.
RouteSound(r, s) == r.pair # 0 =>
    /\ r.id \in ProfileIds /\ r.token \in ProfileIds /\ issued[r.pair] = r.token /\ Known(r.id)
    /\ profiles[r.id].kept => profiles[r.id].slug = s /\ secrets[r.id].cert # 0 /\ secrets[r.id].key # 0
RoutesSound ==
    /\ routes \in [Paths -> RouteType] /\ probing \subseteq [slug : Paths, route : RouteType]
    /\ \A s \in Paths : RouteSound(routes[s], s)
    /\ \A r \in probing : RouteSound(r.route, r.slug)
\* Serials are given out in order, each once.
Ledger ==
    /\ issued \in [Serials -> Owner]
    /\ \E k \in 0..MaxSerial : \A n \in Serials : issued[n] # "none" <=> n <= k
Over(p) == p.auth = "sign_in_required" \/ p.session = 0 \/ p.sess = 0
\* What an operation may write for the profile p it works on, before it is written.
DraftSound(d, kind, p) ==
    /\ d.kept = TRUE /\ d.slug \in Paths
    /\ kind = "renew" => d.session = p.session /\ d.session # 0
    /\ kind = "restart" /\ (d.session = 0 \/ d.session # p.session) => Over(p)
Target_ == profiles[op.id]
OpSound ==
    /\ op \in OpType
    /\ op.step \in Hooked =>
         /\ op.id \in ProfileIds /\ op.kind \in {"add", "restart", "renew"} /\ op.draft.slug = op.base.slug
         /\ op.draft.kept = TRUE /\ op.draft.slug \in Paths
         /\ op.step # "mount" => DraftSound(op.draft, op.kind, Target_) /\ DraftSound(op.base, op.kind, Target_)
         /\ op.fresh # 0 => issued[op.fresh] = op.id
         /\ op.step \in {"cert", "key"} => op.fresh # 0
         /\ IF op.kind = "add" /\ op.step # "mount"
            THEN Target_.kept = FALSE /\ Target_.auth = "none" /\ \A i \in Kept : profiles[i].slug # op.draft.slug
            ELSE Target_.kept = TRUE /\ Target_.slug = op.draft.slug
    /\ op.kind = "renew" => op.todo \subseteq Kept
    /\ op.step = "route" => op.id \in ProfileIds /\ op.draft.slug \in Paths /\ Target_.kept = FALSE
DaemonInv == ProfilesSound /\ SecretsSound /\ RoutesSound /\ Ledger /\ OpSound

\* What a step must leave of certificates, profiles and secrets for every route to stay sound.
Carries ==
    /\ \A n \in Serials : issued[n] # "none" => issued'[n] = issued[n]
    /\ \A i \in ProfileIds : Known(i) =>
         /\ Known(i)'
         /\ profiles'[i].kept => /\ profiles[i].kept /\ profiles'[i].slug = profiles[i].slug
                                 /\ secrets[i].cert # 0 => secrets'[i].cert # 0
                                 /\ secrets[i].key # 0 => secrets'[i].key # 0

\* A route that was sound stays so when profiles, secrets and certificates only move on.
LEMMA RouteCarried ==
  ASSUME Carries, NEW r \in RouteType, NEW s, RouteSound(r, s)
  PROVE  RouteSound(r, s)'
<1> SUFFICES ASSUME r.pair # 0 PROVE RouteSound(r, s)'
  BY DEF RouteSound
<1>1. r.id \in ProfileIds /\ r.token \in ProfileIds /\ issued[r.pair] = r.token /\ Known(r.id)
      /\ (profiles[r.id].kept => profiles[r.id].slug = s /\ secrets[r.id].cert # 0 /\ secrets[r.id].key # 0)
  BY DEF RouteSound
<1>2. r.pair \in Serials /\ issued[r.pair] # "none"
  BY <1>1, AdapterAssumption DEF RouteType, Serials
<1> QED
  BY <1>1, <1>2 DEF Carries, RouteSound

\* The same of all routes and of the probe's copies, when no step writes one.
LEMMA RoutesUntouched ==
  ASSUME RoutesSound, Carries, UNCHANGED <<routes, probing>>
  PROVE  RoutesSound'
<1>1. ASSUME NEW s \in Paths PROVE RouteSound(routes[s], s)'
  <2>1. PICK r : r = routes[s] /\ r = routes'[s]
    OBVIOUS
  <2>2. RouteSound(r, s) /\ r \in RouteType
    BY <2>1 DEF RoutesSound
  <2>3. RouteSound(r, s)'
    BY <2>2, RouteCarried
  <2> QED
    BY <2>1, <2>3 DEF RouteSound, Known
<1>2. ASSUME NEW r \in probing PROVE RouteSound(r.route, r.slug)'
  BY RouteCarried DEF RoutesSound
<1> QED
  BY <1>1, <1>2 DEF RoutesSound, Paths

\* A step that leaves profiles, secrets and certificates alone carries them on.
LEMMA NothingCarries == ASSUME UNCHANGED <<profiles, secrets, issued>> PROVE Carries
  BY DEF Carries, Known

\* The empty profile, operation, route and secret are of their types.
LEMMA ProfileConstants == NoProfile \in ProfileType /\ Removed \in ProfileType /\ NoOp \in OpType
                          /\ NoRoute \in RouteType /\ NothingStored \in SecretType
<1>1. NoProfile \in ProfileType
  BY AdapterAssumption DEF NoProfile, ProfileType, Auths, Paths
<1>2. Removed \in ProfileType
  BY <1>1 DEF Removed, ProfileType, Auths
<1>3. NoOp \in OpType
  BY <1>1, AdapterAssumption DEF NoOp, OpType, Owner
<1> QED
  BY <1>1, <1>2, <1>3, AdapterAssumption DEF NoRoute, RouteType, NothingStored, SecretType, Owner

\* A daemon that starts with no profile satisfies the invariant.
LEMMA DaemonInitially == DaemonInit => DaemonInv
<1> SUFFICES ASSUME DaemonInit PROVE DaemonInv
  OBVIOUS
<1>1. ProfilesSound
  BY ProfileConstants DEF DaemonInit, ProfilesSound, Kept, NoProfile
<1>2. SecretsSound
  BY ProfileConstants DEF DaemonInit, SecretsSound, NothingStored
<1>3. RoutesSound
  BY ProfileConstants DEF DaemonInit, RoutesSound, RouteSound, Empty, NoRoute
<1>4. Ledger
  <2>1. issued \in [Serials -> Owner]
    BY DEF DaemonInit, Owner
  <2>2. \A n \in Serials : issued[n] # "none" <=> n <= 0
    BY AdapterAssumption DEF DaemonInit, Serials
  <2>3. 0 \in 0..MaxSerial
    BY AdapterAssumption
  <2> QED
    BY <2>1, <2>2, <2>3 DEF Ledger
<1>5. OpSound
  BY ProfileConstants DEF DaemonInit, OpSound, NoOp, Hooked
<1> QED
  BY <1>1, <1>2, <1>3, <1>4, <1>5 DEF DaemonInv

\* A new operation of the enrollment hook, for a profile that is kept.
LEMMA HookSound ==
  ASSUME DaemonInv, NEW kind \in {"restart", "renew"}, NEW id \in Kept, NEW p \in ProfileType, NEW todo \in SUBSET Kept,
         op' = Hook(kind, id, p, todo), UNCHANGED <<profiles, issued>>,
         p.slug = profiles[id].slug, DraftSound(p, kind, profiles[id])
  PROVE  OpSound'
<1>1. op' = [kind |-> kind, id |-> id, step |-> "hook", draft |-> p, base |-> p, fresh |-> 0, todo |-> todo]
  BY DEF Hook
<1>2. op' \in OpType /\ id \in ProfileIds
  BY <1>1, AdapterAssumption DEF OpType, Owner, Kept
<1>3. profiles[id].kept = TRUE /\ p.slug \in Paths /\ p.kept = TRUE
  BY DEF DaemonInv, ProfilesSound, ProfileType, Kept, DraftSound
<1> QED
  BY <1>1, <1>2, <1>3 DEF OpSound, Hooked, Target_, DraftSound, Over, Kept


\* Secrets stay sound while the ledger of certificates only grows.
LEMMA SecretsCarried ==
  ASSUME SecretsSound, secrets' = secrets, \A n \in Serials : issued[n] # "none" => issued'[n] = issued[n]
  PROVE  SecretsSound'
<1>1. \A i \in ProfileIds : i # "none" /\ secrets[i].cert \in 0..MaxSerial /\ secrets[i].key \in 0..MaxSerial
  BY AdapterAssumption DEF SecretsSound, SecretType
<1>2. \A m \in 0..MaxSerial : m # 0 => m \in Serials
  BY AdapterAssumption DEF Serials
<1> QED
  BY <1>1, <1>2 DEF SecretsSound, Paths

\* A step that only moves the operation on has to answer for the operation alone.
LEMMA OnlyOp ==
  ASSUME DaemonInv, UNCHANGED <<profiles, secrets, routes, probing, issued>>, OpSound'
  PROVE  DaemonInv'
<1>1. RoutesSound'
  BY NothingCarries, RoutesUntouched DEF DaemonInv
<1>2. SecretsSound'
  BY SecretsCarried DEF DaemonInv
<1>3. ProfilesSound' /\ Ledger'
  BY DEF DaemonInv, ProfilesSound, Ledger, Kept, Paths, ProfileType
<1> QED
  BY <1>1, <1>2, <1>3 DEF DaemonInv

\* Adding and reconnecting take the operation's lock.
LEMMA BeginKept ==
  ASSUME DaemonInv, NEW id \in ProfileIds, AddProfile(id) \/ RestartProfile(id)
  PROVE  DaemonInv'
<1>1. CASE AddProfile(id)
  <2>1. UniqueSlug \in Paths /\ \A i \in Kept : profiles[i].slug # UniqueSlug
    BY <1>1 DEF AddProfile, UniqueSlug, Paths
  <2>2. PICK s : s = UniqueSlug
    OBVIOUS
  <2>3. PICK p : p = [NoProfile EXCEPT !.kept = TRUE, !.slug = s, !.auth = "not_enrolled"]
    OBVIOUS
  <2>4. p \in ProfileType /\ p.kept = TRUE /\ p.slug = s
    BY <2>1, <2>2, <2>3, ProfileConstants DEF ProfileType, Auths
  <2>5. op' = [kind |-> "add", id |-> id, step |-> "hook", draft |-> p, base |-> p, fresh |-> 0, todo |-> {}]
    BY <1>1, <2>2, <2>3 DEF AddProfile, Hook
  <2>6. op' \in OpType
    BY <2>4, <2>5, AdapterAssumption DEF OpType, Owner
  <2>7. UNCHANGED <<profiles, routes, probing, issued>> /\ profiles[id] = NoProfile
    BY <1>1 DEF AddProfile
  <2>8. profiles[id].kept = FALSE /\ profiles[id].auth = "none"
    BY <2>7 DEF NoProfile
  <2>9. OpSound'
    BY <2>1, <2>2, <2>4, <2>5, <2>6, <2>7, <2>8 DEF OpSound, Hooked, Target_, DraftSound, Kept
  <2>10. PICK x : x = secrets[id]
    OBVIOUS
  <2>11. PICK y : y = [x EXCEPT !.token = id]
    OBVIOUS
  <2>12. x \in SecretType
    BY <2>10 DEF DaemonInv, SecretsSound
  <2>13. y \in SecretType /\ y.token = id /\ y.cert = x.cert /\ y.key = x.key
    BY <2>11, <2>12 DEF SecretType, Owner
  <2>14. secrets' = [secrets EXCEPT ![id] = y]
    BY <1>1, <2>10, <2>11 DEF AddProfile, Account
  <2>15. secrets' \in [ProfileIds \cup Paths -> SecretType] /\ secrets'[id] = y /\ \A i \in ProfileIds : i # id => secrets'[i] = secrets[i]
    BY <2>13, <2>14 DEF DaemonInv, SecretsSound
  <2>16. SecretsSound'
    BY <2>7, <2>10, <2>13, <2>15 DEF DaemonInv, SecretsSound, Paths
  <2>17. Carries
    BY <2>7, <2>10, <2>13, <2>15 DEF Carries, Known
  <2>18. RoutesSound' /\ ProfilesSound' /\ Ledger'
    BY <2>7, <2>17, RoutesUntouched DEF DaemonInv, ProfilesSound, Ledger, Kept, Paths, ProfileType
  <2> QED
    BY <2>9, <2>16, <2>18 DEF DaemonInv
<1>2. CASE RestartProfile(id)
  <2>1. UNCHANGED <<profiles, secrets, routes, probing, issued>> /\ id \in Kept
    BY <1>2 DEF RestartProfile
  <2>2. PICK p : p = profiles[id]
    OBVIOUS
  <2>3. p \in ProfileType /\ p.kept = TRUE /\ p.slug \in Paths
    BY <2>1, <2>2 DEF DaemonInv, ProfilesSound, Kept, ProfileType
  <2>4. PICK q : q = IF Over(p) THEN [p EXCEPT !.session = 0, !.sess = 0] ELSE p
    OBVIOUS
  <2>5. q \in ProfileType /\ q.kept = TRUE /\ q.slug = p.slug /\ (Over(p) \/ q = p)
    <3>1. CASE q = [p EXCEPT !.session = 0, !.sess = 0] /\ Over(p)
      <4>1. 0 \in 0..MaxSerial /\ 0 \in 0..SessionTTL
        BY AdapterAssumption
      <4> QED
        BY <2>3, <3>1, <4>1 DEF ProfileType
    <3> QED
      BY <2>3, <2>4, <3>1
  <2>6. op' = Hook("restart", id, q, {})
    BY <1>2, <2>2, <2>4 DEF RestartProfile, Over
  <2>7. DraftSound(q, "restart", profiles[id])
    BY <2>2, <2>3, <2>5 DEF DraftSound, Over
  <2>8. OpSound'
    BY <2>1, <2>2, <2>5, <2>6, <2>7, HookSound
  <2> QED
    BY <2>1, <2>8, OnlyOp
<1> QED
  BY <1>1, <1>2

\* So does the renewal loop.
LEMMA LoopKept ==
  ASSUME DaemonInv, renewAll \/ RenewDone
  PROVE  DaemonInv'
<1>1. UNCHANGED <<profiles, secrets, routes, probing, issued>> /\ Kept \subseteq ProfileIds
  BY DEF renewAll, RenewDone, Kept
<1>2. OpSound'
  <2>1. CASE renewAll
    <3>1. op' = [NoOp EXCEPT !.kind = "renew", !.step = "next", !.todo = Kept]
      BY <2>1 DEF renewAll
    <3>2. op' \in OpType /\ op'.step = "next" /\ op'.todo = Kept
      BY <1>1, <3>1, ProfileConstants DEF OpType, NoOp
    <3> QED
      BY <1>1, <3>2 DEF OpSound, Hooked, Kept
  <2>2. CASE RenewDone
    BY <1>1, <2>2, ProfileConstants DEF RenewDone, OpSound, NoOp, Hooked
  <2> QED
    BY <2>1, <2>2
<1> QED
  BY <1>1, <1>2, OnlyOp

\* One profile looked at by the renewal loop.
LEMMA RenewKept ==
  ASSUME DaemonInv, NEW id \in ProfileIds, RenewNext(id)
  PROVE  DaemonInv'
<1>1. PICK p : p = profiles[id]
  OBVIOUS
<1>2. op.kind = "renew" /\ id \in op.todo /\ op.todo \subseteq Kept /\ UNCHANGED <<secrets, routes, probing, issued>>
  BY DEF RenewNext, At_, DaemonInv, OpSound
<1>3. p \in ProfileType /\ p.kept = TRUE /\ p.slug \in Paths /\ id \in Kept
  BY <1>1, <1>2 DEF DaemonInv, ProfilesSound, Kept, ProfileType
<1>4. CASE Due(p) /\ ~SessionShort(p)
  <2>1. op' = Hook("renew", id, p, op.todo \ {id}) /\ profiles' = profiles
    BY <1>1, <1>4 DEF RenewNext
  <2>2. DraftSound(p, "renew", profiles[id])
    BY <1>1, <1>3, <1>4 DEF DraftSound, SessionShort
  <2>3. OpSound'
    BY <1>1, <1>2, <1>3, <2>1, <2>2, HookSound
  <2> QED
    BY <1>2, <2>1, <2>3, OnlyOp
<1>5. CASE ~(Due(p) /\ ~SessionShort(p))
  <2>1. PICK q : q = IF Due(p) THEN [p EXCEPT !.auth = "sign_in_required"] ELSE p
    OBVIOUS
  <2>2. q \in ProfileType /\ q.kept = TRUE /\ q.slug = p.slug
    BY <1>3, <2>1 DEF ProfileType, Auths
  <2>3. profiles' = [profiles EXCEPT ![id] = q] /\ op' = [op EXCEPT !.todo = @ \ {id}]
    BY <1>1, <1>5, <2>1 DEF RenewNext
  <2>4. profiles' \in [ProfileIds -> ProfileType] /\ profiles'[id] = q /\ \A i \in ProfileIds : i # id => profiles'[i] = profiles[i]
    BY <2>2, <2>3 DEF DaemonInv, ProfilesSound
  <2>5. \A i \in ProfileIds : profiles'[i].kept = profiles[i].kept /\ profiles'[i].slug = profiles[i].slug
    BY <1>1, <1>3, <2>2, <2>4
  <2>6. Kept' = Kept
    BY <2>5 DEF Kept
  <2>7. ProfilesSound'
    BY <2>4, <2>5, <2>6 DEF DaemonInv, ProfilesSound, Paths, ProfileType, Kept
  <2>8. Carries
    <3>1. \A i \in ProfileIds : Known(i) => Known(i)'
      BY <2>2, <2>4 DEF Known
    <3> QED
      BY <1>2, <2>5, <3>1 DEF Carries
  <2>9. op' \in OpType /\ op'.step = "next" /\ op'.kind = "renew" /\ op'.todo \subseteq Kept
    BY <1>2, <2>3 DEF DaemonInv, OpSound, OpType, RenewNext, At_
  <2>10. OpSound'
    BY <2>6, <2>9 DEF OpSound, Hooked
  <2>11. RoutesSound' /\ SecretsSound' /\ Ledger'
    BY <1>2, <2>8, RoutesUntouched, SecretsCarried DEF DaemonInv, Ledger
  <2> QED
    BY <2>7, <2>10, <2>11 DEF DaemonInv
<1> QED
  BY <1>4, <1>5

\* The stored profile goes first.
LEMMA DeleteKept ==
  ASSUME DaemonInv, NEW id \in ProfileIds, DeleteProfile(id)
  PROVE  DaemonInv'
<1>1. UNCHANGED <<secrets, routes, probing, issued>> /\ profiles' = [profiles EXCEPT ![id] = Removed] /\ id \in Kept
  BY DEF DeleteProfile
<1>2. profiles' \in [ProfileIds -> ProfileType] /\ profiles'[id] = Removed /\ \A i \in ProfileIds : i # id => profiles'[i] = profiles[i]
  BY <1>1, ProfileConstants DEF DaemonInv, ProfilesSound
<1>3. Removed.kept = FALSE /\ Removed.auth = "removed"
  BY DEF Removed, NoProfile
<1>4. ProfilesSound'
  BY <1>2, <1>3 DEF DaemonInv, ProfilesSound, Paths, ProfileType, Kept
<1>5. Carries
  BY <1>1, <1>2, <1>3 DEF Carries, Known
<1>6. PICK s : s = profiles[id].slug
  OBVIOUS
<1>7. s \in Paths
  BY <1>1, <1>6 DEF DaemonInv, ProfilesSound
<1>8. PICK d : d = [NoProfile EXCEPT !.slug = s]
  OBVIOUS
<1>9. d \in ProfileType /\ d.slug = s
  BY <1>7, <1>8, ProfileConstants DEF ProfileType, Auths
<1>10. op' = [NoOp EXCEPT !.kind = "delete", !.id = id, !.step = "route", !.draft = d]
  BY <1>6, <1>8 DEF DeleteProfile, NoOp
<1>11. op' \in OpType /\ op'.step = "route" /\ op'.id = id /\ op'.draft = d /\ op'.kind = "delete"
  BY <1>9, <1>10, ProfileConstants DEF OpType, NoOp, Owner
<1>12. OpSound'
  BY <1>2, <1>3, <1>7, <1>9, <1>11 DEF OpSound, Hooked, Target_
<1>13. RoutesSound' /\ SecretsSound' /\ Ledger'
  BY <1>1, <1>5, RoutesUntouched, SecretsCarried DEF DaemonInv, Ledger
<1> QED
  BY <1>4, <1>12, <1>13 DEF DaemonInv

\* Its route, and perhaps its secrets, go after it.
LEMMA UnrouteKept ==
  ASSUME DaemonInv, Unroute
  PROVE  DaemonInv'
<1>1. op.step = "route" /\ op' = NoOp /\ UNCHANGED <<profiles, probing, issued>>
      /\ op.id \in ProfileIds /\ op.draft.slug \in Paths /\ profiles[op.id].kept = FALSE
  BY DEF Unroute, At_, DaemonInv, OpSound, Target_
<1>2. OpSound'
  BY <1>1, ProfileConstants DEF OpSound, NoOp, Hooked
<1>3. secrets' \in {secrets, [secrets EXCEPT ![op.id] = NothingStored]}
  BY DEF Unroute, Account
<1>4. SecretsSound' /\ Carries
  <2>1. CASE secrets' = secrets
    BY <1>1, <2>1, SecretsCarried, NothingCarries DEF DaemonInv
  <2>2. CASE secrets' = [secrets EXCEPT ![op.id] = NothingStored]
    <3>1. secrets' \in [ProfileIds \cup Paths -> SecretType] /\ secrets'[op.id] = NothingStored
          /\ \A i \in ProfileIds : i # op.id => secrets'[i] = secrets[i]
      BY <1>1, <2>2, ProfileConstants DEF DaemonInv, SecretsSound
    <3>2. SecretsSound'
      BY <1>1, <3>1 DEF DaemonInv, SecretsSound, NothingStored, Paths
    <3>3. Carries
      BY <1>1, <3>1 DEF Carries, Known
    <3> QED
      BY <3>2, <3>3
  <2> QED
    BY <1>3, <2>1, <2>2
<1>5. routes' = [routes EXCEPT ![op.draft.slug] = NoRoute]
  BY DEF Unroute
<1>6. RoutesSound'
  <2>1. \A s \in Paths : routes'[s] \in {routes[s], NoRoute}
    BY <1>1, <1>5 DEF DaemonInv, RoutesSound
  <2>2. routes' \in [Paths -> RouteType]
    BY <1>1, <1>5, ProfileConstants DEF DaemonInv, RoutesSound
  <2>3. ASSUME NEW s \in Paths PROVE RouteSound(routes[s], s)'
    <3>1. PICK r : r = routes'[s] /\ r \in {routes[s], NoRoute}
      BY <2>1
    <3>2. RouteSound(r, s) /\ r \in RouteType
      BY <3>1, ProfileConstants DEF DaemonInv, RoutesSound, RouteSound, NoRoute
    <3>3. RouteSound(r, s)'
      BY <1>4, <3>2, RouteCarried
    <3> QED
      BY <3>1, <3>3 DEF RouteSound, Known
  <2>4. ASSUME NEW r \in probing PROVE RouteSound(r.route, r.slug)'
    BY <1>4, RouteCarried DEF DaemonInv, RoutesSound
  <2> QED
    BY <1>1, <2>2, <2>3, <2>4 DEF DaemonInv, RoutesSound, Paths
<1>7. ProfilesSound' /\ Ledger'
  BY <1>1 DEF DaemonInv, ProfilesSound, Ledger, Kept, Paths, ProfileType
<1> QED
  BY <1>2, <1>4, <1>6, <1>7 DEF DaemonInv


\* The serial that a new certificate gets has not been given out.
LEMMA SerialFresh ==
  ASSUME Ledger, NextSerial \in Serials, NEW id \in ProfileIds, issued' = [issued EXCEPT ![NextSerial] = id]
  PROVE  Ledger' /\ issued[NextSerial] = "none" /\ issued'[NextSerial] = id
         /\ \A n \in Serials : issued[n] # "none" => issued'[n] = issued[n]
<1>1. PICK k \in 0..MaxSerial : \A n \in Serials : issued[n] # "none" <=> n <= k
  BY DEF Ledger
<1>2. {n \in Serials : issued[n] # "none"} = 1..k /\ k \in Nat
  BY <1>1, AdapterAssumption DEF Serials
<1>3. Cardinality(1..k) = k
  BY <1>2, FS_Interval
<1>4. NextSerial = k + 1
  BY <1>2, <1>3 DEF NextSerial
<1>5. issued[k + 1] = "none" /\ k + 1 \in 0..MaxSerial
  BY <1>1, <1>2, <1>4, AdapterAssumption DEF Serials
<1>6. issued' \in [Serials -> Owner] /\ issued'[k + 1] = id /\ \A n \in Serials : n # k + 1 => issued'[n] = issued[n]
  BY <1>4 DEF Ledger, Owner
<1>7. \A n \in Serials : issued'[n] # "none" <=> n <= k + 1
  BY <1>1, <1>2, <1>6, AdapterAssumption DEF Serials
<1>8. Ledger'
  BY <1>5, <1>6, <1>7 DEF Ledger, Serials, Owner
<1> QED
  BY <1>4, <1>5, <1>6, <1>8

\* The operation moves on, with another draft.
LEMMA DraftMoves ==
  ASSUME DaemonInv, op.step \in Hooked, op.step # "mount",
         NEW d \in ProfileType, NEW f \in 0..MaxSerial, NEW st \in {"cert", "key", "put"},
         op' = [op EXCEPT !.draft = d, !.fresh = f, !.step = st], profiles' = profiles,
         DraftSound(d, op.kind, Target_), d.slug = op.draft.slug,
         f # 0 => issued'[f] = op.id, st \in {"cert", "key"} => f # 0
  PROVE  OpSound'
<1>1. op' \in OpType /\ op'.kind = op.kind /\ op'.id = op.id /\ op'.step = st /\ op'.draft = d /\ op'.base = op.base
      /\ op'.fresh = f /\ op'.todo = op.todo
  BY DEF DaemonInv, OpSound, OpType
<1>2. st \in Hooked /\ st # "mount" /\ st # "route"
  BY DEF Hooked
<1>3. Target_' = Target_ /\ Kept' = Kept
  BY <1>1 DEF Target_, Kept
<1>4. d.kept = TRUE /\ d.slug \in Paths
  BY DEF DraftSound
<1> QED
  BY <1>1, <1>2, <1>3, <1>4 DEF DaemonInv, OpSound

\* The hook fails, or a certificate is issued, with a session only where none is.
LEMMA IssueKept ==
  ASSUME DaemonInv, (\E denied \in BOOLEAN : HookFails(denied)) \/ (\E left \in 1..CertTTL : HookIssues(left))
  PROVE  DaemonInv'
<1>1. PICK p : p = op.draft
  OBVIOUS
<1>2. op.step = "hook" /\ UNCHANGED <<profiles, secrets, routes, probing>>
  BY DEF HookFails, HookIssues
<1>3. p \in ProfileType /\ DraftSound(p, op.kind, Target_) /\ op.id \in ProfileIds /\ op \in OpType
      /\ (op.fresh # 0 => issued[op.fresh] = op.id) /\ op.step \in Hooked
  BY <1>1, <1>2 DEF DaemonInv, OpSound, OpType, Hooked
<1>4. CASE \E denied \in BOOLEAN : HookFails(denied)
  <2>1. PICK a \in {"sign_in_required", "renewal_failed"} :
           op' = [op EXCEPT !.draft = [op.draft EXCEPT !.auth = a], !.step = "put"] /\ issued' = issued
    BY <1>4 DEF HookFails, Failed
  <2>2. PICK d : d = [p EXCEPT !.auth = a]
    OBVIOUS
  <2>3. d \in ProfileType /\ d.slug = p.slug /\ d.session = p.session /\ d.kept = p.kept
    BY <1>3, <2>2 DEF ProfileType, Auths
  <2>4. DraftSound(d, op.kind, Target_)
    BY <1>3, <2>3 DEF DraftSound
  <2>5. PICK f : f = op.fresh
    OBVIOUS
  <2>6. op' = [op EXCEPT !.draft = d, !.fresh = f, !.step = "put"] /\ f \in 0..MaxSerial
    BY <1>1, <1>3, <2>1, <2>2, <2>5 DEF OpType
  <2>7. OpSound'
    BY <1>1, <1>2, <1>3, <2>1, <2>3, <2>4, <2>5, <2>6, DraftMoves
  <2> QED
    BY <1>2, <2>1, <2>7, OnlyOp
<1>5. CASE \E left \in 1..CertTTL : HookIssues(left)
  <2>1. PICK left \in 1..CertTTL : HookIssues(left)
    BY <1>5
  <2>2. PICK n : n = NextSerial
    OBVIOUS
  <2>3. n \in Serials /\ issued' = [issued EXCEPT ![NextSerial] = op.id]
    BY <2>1, <2>2 DEF HookIssues
  <2>4. Ledger' /\ issued'[n] = op.id /\ \A m \in Serials : issued[m] # "none" => issued'[m] = issued[m]
    BY <1>3, <2>2, <2>3, SerialFresh DEF DaemonInv
  <2>5. PICK d \in ProfileType : op' = [op EXCEPT !.draft = d, !.fresh = n, !.step = "cert"]
                                 /\ d.slug = p.slug /\ d.kept = p.kept /\ (d.session = p.session \/ p.session = 0)
    <3>1. n \in 0..MaxSerial /\ SessionTTL \in 0..SessionTTL /\ left \in 0..CertTTL /\ n # 0
      BY <2>3, AdapterAssumption DEF Serials
    <3>2. CASE NewSession(op.draft) /\ op' = [op EXCEPT !.draft = [op.draft EXCEPT !.session = n, !.sess = SessionTTL, !.cert = left,
                                                     !.known = TRUE, !.auth = "enrolled"], !.fresh = n, !.step = "cert"]
      <4>1. PICK d : d = [p EXCEPT !.session = n, !.sess = SessionTTL, !.cert = left, !.known = TRUE, !.auth = "enrolled"]
        OBVIOUS
      <4>2. d \in ProfileType /\ d.slug = p.slug /\ d.kept = p.kept
        BY <1>3, <3>1, <4>1 DEF ProfileType, Auths
      <4> QED
        BY <1>1, <3>2, <4>1, <4>2 DEF NewSession
    <3>3. CASE op' = [op EXCEPT !.draft = [op.draft EXCEPT !.cert = left, !.auth = "enrolled"], !.fresh = n, !.step = "cert"]
      <4>1. PICK d : d = [p EXCEPT !.cert = left, !.auth = "enrolled"]
        OBVIOUS
      <4>2. d \in ProfileType /\ d.slug = p.slug /\ d.kept = p.kept /\ d.session = p.session
        BY <1>3, <3>1, <4>1 DEF ProfileType, Auths
      <4> QED
        BY <1>1, <3>3, <4>1, <4>2
    <3> QED
      BY <2>1, <2>2, <3>2, <3>3 DEF HookIssues
  <2>6. n \in 0..MaxSerial /\ n # 0
    BY <2>3, AdapterAssumption DEF Serials
  <2>7. DraftSound(d, op.kind, Target_)
    BY <1>3, <2>5 DEF DraftSound
  <2>8. OpSound'
    BY <1>1, <1>2, <1>3, <2>4, <2>5, <2>6, <2>7, DraftMoves
  <2>9. Carries
    BY <1>2, <2>4 DEF Carries, Known
  <2>10. RoutesSound' /\ SecretsSound' /\ ProfilesSound'
    BY <1>2, <2>4, <2>9, RoutesUntouched, SecretsCarried DEF DaemonInv, ProfilesSound, Kept, Paths, ProfileType
  <2> QED
    BY <2>4, <2>8, <2>10 DEF DaemonInv
<1> QED
  BY <1>4, <1>5

\* The certificate and the key are stored one after the other, or the profile stays as it was.
LEMMA MaterialKept ==
  ASSUME DaemonInv, StoreMaterial
  PROVE  DaemonInv'
<1>1. PICK p : p = op.draft
  OBVIOUS
<1>2. op.step \in {"cert", "key"} /\ UNCHANGED <<profiles, routes, probing, issued>> /\ op.step \in Hooked /\ op.step # "mount"
  BY DEF StoreMaterial, Hooked
<1>3. p \in ProfileType /\ op.base \in ProfileType /\ DraftSound(p, op.kind, Target_) /\ DraftSound(op.base, op.kind, Target_)
      /\ op.id \in ProfileIds /\ op \in OpType /\ op.fresh # 0 /\ issued[op.fresh] = op.id /\ op.base.slug = p.slug
  BY <1>1, <1>2 DEF DaemonInv, OpSound, OpType, Hooked
<1>4. PICK f : f = op.fresh
  OBVIOUS
<1>5. f \in 0..MaxSerial /\ f # 0 /\ issued[f] = op.id
  BY <1>3, <1>4 DEF OpType
<1>6. PICK i : i = op.id
  OBVIOUS
<1>7. CASE \E st \in {"key", "put"} : Move(st)
           /\ secrets' = [secrets EXCEPT ![op.id] = IF op.step = "cert" THEN [@ EXCEPT !.cert = op.fresh] ELSE [@ EXCEPT !.key = op.fresh]]
  <2>1. PICK st \in {"key", "put"} : Move(st)
    BY <1>7
  <2>2. op' = [op EXCEPT !.draft = p, !.fresh = f, !.step = st]
    BY <1>1, <1>3, <1>4, <2>1 DEF Move, OpType
  <2>3. OpSound'
    BY <1>1, <1>2, <1>3, <1>5, <2>1, <2>2, DraftMoves
  <2>4. PICK x : x = secrets[i]
    OBVIOUS
  <2>5. x \in SecretType /\ x.token \in {"none", i} /\ (x.cert # 0 => issued[x.cert] = i) /\ (x.key # 0 => issued[x.key] = i)
    BY <1>3, <1>6, <2>4 DEF DaemonInv, SecretsSound
  <2>6. PICK y : y = IF op.step = "cert" THEN [x EXCEPT !.cert = f] ELSE [x EXCEPT !.key = f]
    OBVIOUS
  <2>7. y \in SecretType /\ y.token = x.token /\ (y.cert = x.cert \/ y.cert = f) /\ (y.key = x.key \/ y.key = f)
    BY <1>5, <2>5, <2>6 DEF SecretType
  <2>8. secrets' = [secrets EXCEPT ![i] = y]
    BY <1>4, <1>6, <1>7, <2>4, <2>6
  <2>9. secrets' \in [ProfileIds \cup Paths -> SecretType] /\ secrets'[i] = y /\ \A j \in ProfileIds : j # i => secrets'[j] = secrets[j]
    BY <1>3, <1>6, <2>7, <2>8 DEF DaemonInv, SecretsSound
  <2>10. SecretsSound'
    BY <1>2, <1>5, <1>6, <2>5, <2>7, <2>9 DEF DaemonInv, SecretsSound, Paths
  <2>11. Carries
    BY <1>2, <1>5, <2>4, <2>7, <2>9 DEF Carries, Known
  <2>12. RoutesSound' /\ ProfilesSound' /\ Ledger'
    BY <1>2, <2>11, RoutesUntouched DEF DaemonInv, ProfilesSound, Ledger, Kept, Paths, ProfileType
  <2> QED
    BY <2>3, <2>10, <2>12 DEF DaemonInv
<1>8. CASE UNCHANGED secrets /\ op' = [op EXCEPT !.step = "put", !.fresh = 0,
                              !.draft = IF op.kind = "renew" THEN op.base ELSE [op.base EXCEPT !.auth = "renewal_failed"]]
  <2>1. PICK b : b = op.base
    OBVIOUS
  <2>2. PICK d : d = IF op.kind = "renew" THEN b ELSE [b EXCEPT !.auth = "renewal_failed"]
    OBVIOUS
  <2>3. d \in ProfileType /\ d.slug = b.slug /\ d.kept = b.kept /\ d.session = b.session
    BY <1>3, <2>1, <2>2 DEF ProfileType, Auths
  <2>4. DraftSound(d, op.kind, Target_)
    BY <1>3, <2>1, <2>3 DEF DraftSound
  <2>5. op' = [op EXCEPT !.draft = d, !.fresh = 0, !.step = "put"] /\ 0 \in 0..MaxSerial
    <3>1. op' = [op EXCEPT !.step = "put", !.fresh = 0, !.draft = d]
      BY <1>8, <2>1, <2>2
    <3>2. [op EXCEPT !.step = "put", !.fresh = 0, !.draft = d] = [op EXCEPT !.draft = d, !.fresh = 0, !.step = "put"]
      BY <1>3 DEF OpType
    <3> QED
      BY <3>1, <3>2, AdapterAssumption
  <2>6. OpSound'
    BY <1>1, <1>2, <1>3, <2>1, <2>3, <2>4, <2>5, DraftMoves
  <2> QED
    BY <1>2, <1>8, <2>6, OnlyOp
<1> QED
  BY <1>2, <1>7, <1>8 DEF StoreMaterial, Account


\* Store.Put replaces the file, or the operation ends here; the renewal loop goes on.
LEMMA PutKept ==
  ASSUME DaemonInv, StorePut
  PROVE  DaemonInv'
<1>1. PICK d : d = op.draft
  OBVIOUS
<1>2. PICK i : i = op.id
  OBVIOUS
<1>3. op.step = "put" /\ UNCHANGED <<secrets, routes, probing, issued>> /\ op.step \in Hooked /\ op.step # "mount"
  BY DEF StorePut, Hooked
<1>4. d \in ProfileType /\ DraftSound(d, op.kind, profiles[i]) /\ i \in ProfileIds /\ op \in OpType /\ (op.fresh # 0 => issued[op.fresh] = i)
      /\ op.kind \in {"add", "restart", "renew"} /\ op.draft.slug = op.base.slug
  BY <1>1, <1>2, <1>3 DEF DaemonInv, OpSound, OpType, Target_
<1>5. \/ op.kind = "add" /\ profiles[i].kept = FALSE /\ profiles[i].auth = "none" /\ \A j \in Kept : profiles[j].slug # d.slug
      \/ op.kind # "add" /\ profiles[i].kept = TRUE /\ profiles[i].slug = d.slug
  BY <1>1, <1>2, <1>3 DEF DaemonInv, OpSound, Target_
<1>6. d.kept = TRUE /\ d.slug \in Paths
  BY <1>4 DEF DraftSound
<1>7. ASSUME Move("mount"), profiles'[i].kept = TRUE, profiles'[i].slug = d.slug, op.kind = "renew" => Kept \subseteq Kept'
      PROVE  OpSound'
  <2>1. op' \in OpType /\ op'.kind = op.kind /\ op'.id = i /\ op'.step = "mount" /\ op'.draft = d /\ op'.base = op.base
        /\ op'.fresh = op.fresh /\ op'.todo = op.todo
    BY <1>1, <1>2, <1>4, <1>7 DEF Move, OpType
  <2> QED
    BY <1>1, <1>3, <1>4, <1>6, <1>7, <2>1 DEF DaemonInv, OpSound, Target_
<1>8. CASE profiles' = [profiles EXCEPT ![op.id] = op.draft] /\ Move("mount")
  <2>1. profiles' \in [ProfileIds -> ProfileType] /\ profiles'[i] = d /\ \A j \in ProfileIds : j # i => profiles'[j] = profiles[j]
    BY <1>1, <1>2, <1>4, <1>8 DEF DaemonInv, ProfilesSound
  <2>2. Kept' = Kept \cup {i}
    BY <1>4, <1>6, <2>1 DEF Kept
  <2>3. \A j \in Kept : j # i => profiles[j].slug # d.slug
    BY <1>4, <1>5 DEF DaemonInv, ProfilesSound, Kept
  <2>4. Kept \subseteq ProfileIds
    BY DEF Kept
  <2>5. ProfilesSound'
    BY <1>6, <2>1, <2>2, <2>3, <2>4 DEF DaemonInv, ProfilesSound, Paths, ProfileType
  <2>6. Carries
    BY <1>3, <1>4, <1>5, <1>6, <2>1 DEF Carries, Known
  <2>7. OpSound'
    BY <1>6, <1>7, <1>8, <2>1, <2>2
  <2>8. RoutesSound' /\ SecretsSound' /\ Ledger'
    BY <1>3, <2>6, RoutesUntouched, SecretsCarried DEF DaemonInv, Ledger
  <2> QED
    BY <2>5, <2>7, <2>8 DEF DaemonInv
<1>9. CASE profiles' = profiles /\ IF op.kind = "renew" THEN Move("mount") ELSE op' = NoOp
  <2>1. CASE op.kind = "renew"
    <3>1. OpSound'
      BY <1>5, <1>7, <1>9, <2>1 DEF Kept
    <3> QED
      BY <1>3, <1>9, <3>1, OnlyOp
  <2>2. CASE op' = NoOp
    <3>1. OpSound'
      BY <2>2, ProfileConstants DEF OpSound, NoOp, Hooked
    <3> QED
      BY <1>3, <1>9, <3>1, OnlyOp
  <2> QED
    BY <1>9, <2>1, <2>2
<1> QED
  BY <1>8, <1>9 DEF StorePut

\* What mount makes of a path, for a profile that is kept and has it.
LEMMA MountedSound ==
  ASSUME DaemonInv, NEW before \in [Paths -> RouteType], NEW id \in Kept, NEW s \in Paths, profiles[id].slug = s,
         RouteSound(before[s], s)
  PROVE  LET m == Mounted(before, id, s) IN
         m \in [Paths -> RouteType] /\ RouteSound(m[s], s) /\ \A t \in Paths : t # s => m[t] = before[t]
<1>1. PICK m, x : m = Mounted(before, id, s) /\ x = secrets[id]
  OBVIOUS
<1>2. id \in ProfileIds /\ profiles[id].kept = TRUE
  BY DEF DaemonInv, ProfilesSound, Kept, ProfileType
<1>3. x \in SecretType /\ x.token \in {"none", id} /\ (x.cert # 0 => issued[x.cert] = id)
  BY <1>1, <1>2 DEF DaemonInv, SecretsSound
<1>4. CASE x.token = "none" \/ (x.cert # 0 /\ x.key # 0 /\ x.cert # x.key)
  BY <1>1, <1>4 DEF Mounted, Account
<1>5. CASE x.token = id /\ ~(x.cert # 0 /\ x.key # 0 /\ x.cert # x.key) /\ x.token # "none"
  <2>1. PICK r : r = [id |-> id, token |-> x.token, pair |-> IF x.key = 0 THEN 0 ELSE x.cert]
    OBVIOUS
  <2>2. m = [before EXCEPT ![s] = r]
    BY <1>1, <1>5, <2>1 DEF Mounted, Account
  <2>3. r \in RouteType /\ r.id = id /\ r.token = id /\ (r.pair # 0 => r.pair = x.cert /\ x.cert # 0 /\ x.key # 0)
    BY <1>2, <1>3, <1>5, <2>1, AdapterAssumption DEF RouteType, SecretType, Owner
  <2>4. RouteSound(r, s)
    BY <1>1, <1>2, <1>3, <2>3 DEF RouteSound, Known
  <2>5. m \in [Paths -> RouteType] /\ m[s] = r /\ \A t \in Paths : t # s => m[t] = before[t]
    BY <2>2, <2>3
  <2> QED
    BY <1>1, <2>4, <2>5
<1> QED
  BY <1>3, <1>4, <1>5

\* Routes that are sound with what is stored now, set by a step that leaves the store alone.
LEMMA RoutesSet ==
  ASSUME DaemonInv, UNCHANGED <<profiles, secrets, issued>>, routes' \in [Paths -> RouteType],
         \A s \in Paths : RouteSound(routes'[s], s),
         probing' \subseteq [slug : Paths, route : RouteType], \A r \in probing' : RouteSound(r.route, r.slug), OpSound'
  PROVE  DaemonInv'
<1>1. Carries
  BY NothingCarries
<1>2. ASSUME NEW s \in Paths PROVE RouteSound(routes[s], s)'
  <2>1. PICK r : r = routes'[s]
    OBVIOUS
  <2>2. RouteSound(r, s)'
    BY <1>1, <2>1, RouteCarried
  <2> QED
    BY <2>1, <2>2 DEF RouteSound, Known
<1>3. ASSUME NEW r \in probing' PROVE RouteSound(r.route, r.slug)'
  BY <1>1, RouteCarried
<1>4. RoutesSound'
  BY <1>2, <1>3 DEF RoutesSound, Paths
<1>5. SecretsSound' /\ ProfilesSound' /\ Ledger'
  BY SecretsCarried DEF DaemonInv, ProfilesSound, Ledger, Kept, Paths, ProfileType
<1> QED
  BY <1>4, <1>5 DEF DaemonInv

\* The route table is swapped: the route mounted is of the pair that the profile stores.
LEMMA MountKept ==
  ASSUME DaemonInv, Mount
  PROVE  DaemonInv'
<1>1. op.step = "mount" /\ UNCHANGED <<profiles, secrets, probing, issued>> /\ op.step \in Hooked
  BY DEF Mount, Hooked
<1>2. op.id \in Kept /\ op.draft.slug \in Paths /\ profiles[op.id].slug = op.draft.slug /\ op \in OpType
  BY <1>1 DEF DaemonInv, OpSound, Target_, Kept
<1>3. OpSound'
  <2>1. CASE op' = NoOp
    BY <2>1, ProfileConstants DEF OpSound, NoOp, Hooked
  <2>2. CASE op' = [op EXCEPT !.step = "next", !.fresh = 0, !.id = "none"]
    <3>1. op' \in OpType /\ op'.step = "next" /\ op'.kind = op.kind /\ op'.todo = op.todo
      <4>1. 0 \in 0..MaxSerial /\ "none" \in Owner
        BY AdapterAssumption DEF Owner
      <4> QED
        BY <1>2, <2>2, <4>1 DEF OpType
    <3> QED
      BY <1>1, <3>1 DEF DaemonInv, OpSound, Hooked, Kept
  <2> QED
    BY <2>1, <2>2 DEF Mount
<1>4. routes \in [Paths -> RouteType] /\ (\A s \in Paths : RouteSound(routes[s], s))
      /\ probing' \subseteq [slug : Paths, route : RouteType] /\ \A r \in probing' : RouteSound(r.route, r.slug)
  BY <1>1 DEF DaemonInv, RoutesSound
<1>5. PICK i, s : i = op.id /\ s = op.draft.slug
  OBVIOUS
<1>6. routes' \in {routes, Mounted(routes, i, s)}
  BY <1>5 DEF Mount
<1>7. LET m == Mounted(routes, i, s) IN
      m \in [Paths -> RouteType] /\ RouteSound(m[s], s) /\ \A t \in Paths : t # s => m[t] = routes[t]
  BY <1>2, <1>4, <1>5, MountedSound
<1>8. routes' \in [Paths -> RouteType] /\ \A t \in Paths : RouteSound(routes'[t], t)
  <2>1. PICK m : m = Mounted(routes, i, s)
    OBVIOUS
  <2>2. CASE routes' = m
    <3>1. ASSUME NEW t \in Paths PROVE RouteSound(m[t], t)
      BY <1>4, <1>7, <2>1
    <3> QED
      BY <1>7, <2>1, <2>2, <3>1
  <2> QED
    BY <1>4, <1>6, <2>1, <2>2
<1> QED
  BY <1>1, <1>3, <1>4, <1>8, RoutesSet

\* The probe, a restart of the process, and time.
LEMMA ProbeKept ==
  ASSUME DaemonInv, ProbeStart \/ (\E r \in probing : ProbeSet(r)) \/ reload
  PROVE  DaemonInv'
<1>1. UNCHANGED <<profiles, secrets, issued>>
  BY DEF ProbeStart, ProbeSet, reload
<1>2. routes \in [Paths -> RouteType] /\ (\A s \in Paths : RouteSound(routes[s], s))
      /\ probing \subseteq [slug : Paths, route : RouteType] /\ \A r \in probing : RouteSound(r.route, r.slug)
  BY DEF DaemonInv, RoutesSound
<1>3. CASE ProbeStart
  <2>1. UNCHANGED <<routes, op>> /\ probing' = {[slug |-> s, route |-> routes[s]] : s \in {x \in Paths : routes[x] # NoRoute}}
    BY <1>3 DEF ProbeStart
  <2>2. ASSUME NEW r \in probing' PROVE r \in [slug : Paths, route : RouteType] /\ RouteSound(r.route, r.slug)
    <3>1. PICK s \in Paths : r = [slug |-> s, route |-> routes[s]]
      BY <2>1, <2>2
    <3>2. r.slug = s /\ r.route = routes[s]
      BY <3>1
    <3> QED
      BY <1>2, <3>1, <3>2
  <2>3. OpSound'
    BY <1>1, <2>1 DEF DaemonInv, OpSound, Target_, Kept
  <2> QED
    BY <1>1, <1>2, <2>1, <2>2, <2>3, RoutesSet
<1>4. CASE \E r \in probing : ProbeSet(r)
  <2>1. PICK r \in probing : ProbeSet(r)
    BY <1>4
  <2>2. r.slug \in Paths /\ r.route \in RouteType /\ RouteSound(r.route, r.slug)
    BY <1>2
  <2>3. PICK s, x : s = r.slug /\ x = r.route
    OBVIOUS
  <2>4. routes' = [routes EXCEPT ![s] = x] /\ probing' \subseteq probing /\ op' = op
    BY <2>1, <2>3 DEF ProbeSet
  <2>5. routes' \in [Paths -> RouteType] /\ routes'[s] = x /\ \A t \in Paths : t # s => routes'[t] = routes[t]
    BY <1>2, <2>2, <2>3, <2>4
  <2>6. ASSUME NEW t \in Paths PROVE RouteSound(routes'[t], t)
    BY <1>2, <2>2, <2>3, <2>5
  <2>7. OpSound'
    BY <1>1, <2>4 DEF DaemonInv, OpSound, Target_, Kept
  <2> QED
    BY <1>1, <1>2, <2>4, <2>5, <2>6, <2>7, RoutesSet
<1>5. CASE reload
  <2>1. op' = NoOp /\ probing' = {}
    BY <1>5 DEF reload
  <2>2. ASSUME NEW s \in Paths PROVE routes'[s] \in RouteType /\ RouteSound(routes'[s], s)
    <3>1. PICK owner : owner = {i \in Kept : profiles[i].slug = s}
      OBVIOUS
    <3>2. routes'[s] = IF owner = {} THEN NoRoute ELSE Mounted(Empty, CHOOSE i \in owner : TRUE, s)[s]
      BY <1>5, <3>1 DEF reload
    <3>3. NoRoute \in RouteType /\ RouteSound(NoRoute, s)
      BY ProfileConstants DEF RouteSound, NoRoute
    <3>4. CASE owner # {}
      <4>1. PICK i : i = CHOOSE j \in owner : TRUE
        OBVIOUS
      <4>2. i \in owner
        BY <3>4, <4>1
      <4>3. i \in Kept /\ profiles[i].slug = s
        BY <3>1, <4>2
      <4>4. Empty \in [Paths -> RouteType] /\ RouteSound(Empty[s], s)
        BY <3>3 DEF Empty
      <4>5. PICK e, m : e = Empty /\ m = Mounted(e, i, s)
        OBVIOUS
      <4>6. m \in [Paths -> RouteType] /\ RouteSound(m[s], s)
        BY <4>3, <4>4, <4>5, MountedSound
      <4>7. routes'[s] = m[s]
        BY <3>2, <3>4, <4>1, <4>5
      <4> QED
        BY <4>6, <4>7
    <3> QED
      BY <3>2, <3>3, <3>4
  <2>3. routes' \in [Paths -> RouteType]
    BY <1>5, <2>2 DEF reload
  <2>4. OpSound'
    BY <2>1, ProfileConstants DEF OpSound, NoOp, Hooked
  <2> QED
    BY <1>1, <2>1, <2>2, <2>3, <2>4, RoutesSet
<1> QED
  BY <1>3, <1>4, <1>5

\* A tick shortens a profile's lifetimes and changes nothing else of it.
LEMMA OlderProfile ==
  ASSUME NEW p \in ProfileType
  PROVE  /\ Older(p) \in ProfileType /\ Older(p).kept = p.kept /\ Older(p).slug = p.slug /\ Older(p).auth = p.auth
         /\ Older(p).session = p.session /\ (p.sess = 0 => Older(p).sess = 0)
<1>1. PICK a, b : a = (IF p.sess > 0 THEN p.sess - 1 ELSE 0) /\ b = (IF p.cert > 0 THEN p.cert - 1 ELSE 0)
  OBVIOUS
<1>2. a \in 0..SessionTTL /\ b \in 0..CertTTL /\ (p.sess = 0 => a = 0)
  BY <1>1, AdapterAssumption DEF ProfileType
<1>3. PICK q : q = [p EXCEPT !.sess = a, !.cert = b]
  OBVIOUS
<1>4. Older(p) = q
  BY <1>1, <1>3 DEF Older
<1>5. q \in ProfileType /\ q.kept = p.kept /\ q.slug = p.slug /\ q.auth = p.auth /\ q.session = p.session /\ q.sess = a
  BY <1>2, <1>3 DEF ProfileType
<1> QED
  BY <1>2, <1>4, <1>5

\* Time passes for profiles and for the copy an operation works on.
LEMMA DaemonTickKept ==
  ASSUME DaemonInv, DaemonTick
  PROVE  DaemonInv'
<1>1. UNCHANGED <<secrets, routes, probing, issued>> /\ profiles' = [i \in ProfileIds |-> Older(profiles[i])]
      /\ op' = [op EXCEPT !.draft = Older(@), !.base = Older(@)]
  BY DEF DaemonTick
<1>2. \A i \in ProfileIds : profiles[i] \in ProfileType
  BY DEF DaemonInv, ProfilesSound
<1>3. profiles' \in [ProfileIds -> ProfileType]
  BY <1>1, <1>2, OlderProfile
<1>4. \A i \in ProfileIds : /\ profiles'[i].kept = profiles[i].kept /\ profiles'[i].slug = profiles[i].slug
                            /\ profiles'[i].auth = profiles[i].auth /\ profiles'[i].session = profiles[i].session
                            /\ (profiles[i].sess = 0 => profiles'[i].sess = 0)
  BY <1>1, <1>2, OlderProfile
<1>5. Kept' = Kept /\ Kept \subseteq ProfileIds
  BY <1>4 DEF Kept
<1>6. ProfilesSound'
  BY <1>3, <1>4, <1>5 DEF DaemonInv, ProfilesSound, Paths, ProfileType
<1>7. Carries
  BY <1>1, <1>4 DEF Carries, Known
<1>8. PICK d, b : d = Older(op.draft) /\ b = Older(op.base)
  OBVIOUS
<1>9. op.draft \in ProfileType /\ op.base \in ProfileType /\ op \in OpType
  BY DEF DaemonInv, OpSound, OpType
<1>10. d \in ProfileType /\ d.kept = op.draft.kept /\ d.slug = op.draft.slug /\ d.session = op.draft.session
       /\ b \in ProfileType /\ b.kept = op.base.kept /\ b.slug = op.base.slug /\ b.session = op.base.session
  BY <1>8, <1>9, OlderProfile
<1>11. op' = [op EXCEPT !.draft = d, !.base = b]
  BY <1>1, <1>8
<1>12. op' \in OpType /\ op'.kind = op.kind /\ op'.id = op.id /\ op'.step = op.step /\ op'.draft = d /\ op'.base = b
       /\ op'.fresh = op.fresh /\ op'.todo = op.todo
  BY <1>9, <1>10, <1>11 DEF OpType
<1>13. ASSUME op.id \in ProfileIds, NEW x, NEW y, y.kept = x.kept, y.slug = x.slug, y.session = x.session, NEW k, DraftSound(x, k, Target_)
       PROVE  DraftSound(y, k, Target_')
  BY <1>4, <1>12, <1>13 DEF DraftSound, Over, Target_
<1>14. OpSound'
  <2>1. ASSUME op.step \in Hooked
        PROVE  /\ op.step # "mount" => DraftSound(d, op.kind, Target_') /\ DraftSound(b, op.kind, Target_')
               /\ Target_'.kept = Target_.kept /\ Target_'.slug = Target_.slug /\ Target_'.auth = Target_.auth
    BY <1>4, <1>10, <1>12, <1>13, <2>1 DEF DaemonInv, OpSound, Target_
  <2>2. op.step = "route" => Target_'.kept = Target_.kept
    BY <1>4, <1>12 DEF DaemonInv, OpSound, Target_
  <2>3. \A i \in Kept : profiles'[i].slug = profiles[i].slug
    BY <1>4, <1>5
  <2> QED
    BY <1>1, <1>5, <1>10, <1>12, <2>1, <2>2, <2>3 DEF DaemonInv, OpSound
<1>15. RoutesSound' /\ SecretsSound' /\ Ledger'
  BY <1>1, <1>7, RoutesUntouched, SecretsCarried DEF DaemonInv, Ledger
<1> QED
  BY <1>6, <1>14, <1>15 DEF DaemonInv

\* Every step of the daemon preserves the invariant, action by action.
LEMMA DaemonStep == DaemonInv /\ [DaemonNext]_daemonVars => DaemonInv'
<1> SUFFICES ASSUME DaemonInv, [DaemonNext]_daemonVars
             PROVE  DaemonInv'
  OBVIOUS
<1>1. CASE UNCHANGED daemonVars
  <2>1. UNCHANGED <<profiles, secrets, routes, op, probing, issued>>
    BY <1>1 DEF daemonVars
  <2>2. OpSound'
    BY <2>1 DEF DaemonInv, OpSound, Target_, Kept
  <2> QED
    BY <2>1, <2>2, OnlyOp
<1>2. CASE \E id \in ProfileIds : AddProfile(id) \/ RestartProfile(id) \/ DeleteProfile(id) \/ RenewNext(id)
  BY <1>2, BeginKept, DeleteKept, RenewKept
<1>3. CASE Unroute \/ renewAll \/ RenewDone
  BY <1>3, LoopKept, UnrouteKept
<1> QED
  BY <1>1, <1>2, <1>3, IssueKept, MaterialKept, PutKept, MountKept, ProbeKept, DaemonTickKept DEF DaemonNext


\* Only a user's reconnect of a session that is over changes the session of a profile that stays.
LEMMA ConsentStep ==
  ASSUME DaemonInv, [DaemonNext]_daemonVars, NEW i \in ProfileIds, profiles[i].kept, profiles'[i].kept,
         profiles'[i].session # profiles[i].session
  PROVE  /\ op.kind = "restart"
         /\ profiles[i].session # 0 => profiles[i].auth = "sign_in_required" \/ profiles[i].sess = 0
<1>1. profiles \in [ProfileIds -> ProfileType]
  BY DEF DaemonInv, ProfilesSound
<1>2. profiles' # profiles
  OBVIOUS
<1>3. ~DaemonTick
  BY <1>1, OlderProfile DEF DaemonTick
<1>4. ASSUME NEW id \in ProfileIds, DeleteProfile(id) PROVE FALSE
  <2>1. profiles' = [profiles EXCEPT ![id] = Removed] /\ Removed.kept = FALSE
    BY <1>4 DEF DeleteProfile, Removed, NoProfile
  <2> QED
    BY <1>1, <2>1
<1>5. ASSUME NEW id \in ProfileIds, RenewNext(id) PROVE FALSE
  <2>1. PICK p, q : p = profiles[id] /\ q = [p EXCEPT !.auth = "sign_in_required"]
    OBVIOUS
  <2>2. q.session = p.session
    BY <1>1, <2>1 DEF ProfileType
  <2>3. profiles' = profiles \/ profiles' = [profiles EXCEPT ![id] = q] \/ profiles' = [profiles EXCEPT ![id] = p]
    BY <1>5, <2>1 DEF RenewNext
  <2> QED
    BY <1>1, <2>1, <2>2, <2>3
<1>6. StorePut
  <2>1. CASE \E id \in ProfileIds : AddProfile(id) \/ RestartProfile(id) \/ DeleteProfile(id) \/ RenewNext(id)
    BY <1>2, <1>4, <1>5, <2>1 DEF AddProfile, RestartProfile
  <2>2. CASE Unroute \/ renewAll \/ RenewDone \/ StoreMaterial \/ Mount
    BY <1>2, <2>2 DEF Unroute, renewAll, RenewDone, StoreMaterial, Mount
  <2>3. CASE (\E denied \in BOOLEAN : HookFails(denied)) \/ (\E left \in 1..CertTTL : HookIssues(left))
    BY <1>2, <2>3 DEF HookFails, HookIssues
  <2>4. CASE ProbeStart \/ (\E r \in probing : ProbeSet(r)) \/ reload \/ UNCHANGED daemonVars
    BY <1>2, <2>4 DEF ProbeStart, ProbeSet, reload, daemonVars
  <2> QED
    BY <1>3, <2>1, <2>2, <2>3, <2>4 DEF DaemonNext
<1>7. op.step = "put" /\ profiles' = [profiles EXCEPT ![op.id] = op.draft]
  BY <1>2, <1>6 DEF StorePut
<1>8. i = op.id /\ profiles'[i] = op.draft
  BY <1>1, <1>7
<1>9. op.kind \in {"add", "restart", "renew"} /\ DraftSound(op.draft, op.kind, profiles[i])
      /\ (op.kind = "add" => profiles[i].kept = FALSE)
  BY <1>7, <1>8 DEF DaemonInv, OpSound, Hooked, Target_
<1> QED
  BY <1>8, <1>9 DEF DraftSound, Over

\* A mount replaces a route of the same profile, whose stored key pair is complete.
LEMMA ServingStep ==
  ASSUME DaemonInv, Mount, NEW s \in Paths, routes[s].pair # 0, routes[s].id \in Kept
  PROVE  routes'[s].pair # 0
<1>1. PICK i, t : i = op.id /\ t = op.draft.slug
  OBVIOUS
<1>2. op.step = "mount"
  BY DEF Mount
<1>3. i \in Kept /\ t \in Paths /\ profiles[i].slug = t
  BY <1>1, <1>2 DEF DaemonInv, OpSound, Hooked, Target_, Kept
<1>4. routes' \in {routes, Mounted(routes, i, t)}
  BY <1>1 DEF Mount
<1>5. profiles[routes[s].id].slug = s /\ secrets[routes[s].id].cert # 0 /\ secrets[routes[s].id].key # 0
  BY DEF DaemonInv, RoutesSound, RouteSound, Kept
<1>6. CASE s = t
  <2>1. routes[s].id = i
    BY <1>3, <1>5, <1>6 DEF DaemonInv, ProfilesSound
  <2>2. PICK x : x = secrets[i] /\ x.cert # 0 /\ x.key # 0
    BY <1>5, <2>1
  <2>3. PICK r : r = [id |-> i, token |-> x.token, pair |-> IF x.key = 0 THEN 0 ELSE x.cert]
    OBVIOUS
  <2>4. r.pair # 0
    BY <2>2, <2>3
  <2>5. Mounted(routes, i, t) \in {routes, [routes EXCEPT ![t] = r]}
    BY <2>2, <2>3 DEF Mounted, Account
  <2>6. routes \in [Paths -> RouteType]
    BY DEF DaemonInv, RoutesSound
  <2> QED
    BY <1>3, <1>4, <1>6, <2>4, <2>5, <2>6
<1>7. CASE s # t
  <2>1. PICK x : x = secrets[i]
    OBVIOUS
  <2>2. PICK r : Mounted(routes, i, t) \in {routes, [routes EXCEPT ![t] = r]}
    BY <2>1 DEF Mounted, Account
  <2>3. routes \in [Paths -> RouteType]
    BY DEF DaemonInv, RoutesSound
  <2> QED
    BY <1>3, <1>4, <1>7, <2>2, <2>3
<1> QED
  BY <1>6, <1>7

\* The invariant gives the two state properties of the run.
LEMMA DaemonImplies == DaemonInv => DaemonTypeOK /\ CredentialSeparation
<1> SUFFICES ASSUME DaemonInv PROVE DaemonTypeOK /\ CredentialSeparation
  OBVIOUS
<1>1. DaemonTypeOK
  BY DEF DaemonInv, ProfilesSound, ProfileType, DaemonTypeOK
<1>2. CredentialSeparation
  BY DEF DaemonInv, RoutesSound, RouteSound, CredentialSeparation
<1> QED
  BY <1>1, <1>2

\* A local token never opens another profile's path, a session is made only by its user, and a path that
\* works is not lost to a renewal that fails (internal/adapterd, for any number of profiles and
\* certificates and any lifetimes, through crashes, failed writes and probes that come late).
THEOREM ProfilesAreSeparate == DaemonSpec => ProfilesSeparate
<1>1. DaemonInit => DaemonInv
  BY DaemonInitially
<1>2. DaemonInv /\ [DaemonNext]_daemonVars => DaemonInv'
  BY DaemonStep
<1>3. DaemonInv => DaemonTypeOK /\ CredentialSeparation
  BY DaemonImplies
<1>4. DaemonInv /\ [DaemonNext]_daemonVars
        => [\A i \in ProfileIds :
              profiles[i].kept /\ profiles'[i].kept /\ profiles'[i].session # profiles[i].session =>
                /\ op.kind = "restart"
                /\ profiles[i].session # 0 => profiles[i].auth = "sign_in_required" \/ profiles[i].sess = 0]_daemonVars
  BY ConsentStep
<1>5. DaemonInv /\ [DaemonNext]_daemonVars
        => [Mount => \A s \in Paths : routes[s].pair # 0 /\ routes[s].id \in Kept => routes'[s].pair # 0]_daemonVars
  BY ServingStep
<1> QED
  BY <1>1, <1>2, <1>3, <1>4, <1>5, PTL DEF DaemonSpec, ProfilesSeparate, ConsentKept, ServingKept

-----------------------------------------------------------------------------
\* The proxy.

\* A request's record, and how often it may have left.
RequestSound(x) ==
    /\ x = [method |-> x.method, state |-> x.state, attempts |-> x.attempts, conflict |-> x.conflict]
    /\ x.attempts \in Nat /\ x.attempts <= Attempts(x.method)
\* What the accepted flags made of the transport.
TransportSound ==
    /\ runtimeTransport.mode \in {"certificate", "header"}
    /\ runtimeTransport.injects =>
         runtimeTransport.verified /\ ~runtimeTransport.rehosted /\ ~runtimeTransport.strayed
\* A certificate is presented in certificate mode, and only there is it rotated.
LeafSound ==
    /\ rotations \in 0..MaxLeafRotations /\ leaf \in 0..(rotations + 1)
    /\ loop = "rotating" => leaf <= rotations
    /\ leaf = 0 => loop \notin {"waiting", "rotating"}
    /\ phase # "off" => (leaf # 0 <=> runtimeTransport.mode = "certificate")
ProxyInv ==
    /\ DOMAIN request = ProxyRequests /\ \A r \in ProxyRequests : RequestSound(request[r])
    /\ phase = "off" => tracked = {} /\ leaf = 0 /\ rotations = 0 /\ \A r \in ProxyRequests : request[r] = Fresh
    /\ phase # "off" => TransportSound
    /\ LeafSound
    /\ phase \in {"drained", "stopped"} => InFlight = {}
    /\ phase = "stopped" => LoopEnded
    /\ ProxyTypeOK /\ CredentialsPinned /\ OneIdentity

\* Before the start nothing has happened.
LEMMA ProxyInitially == ProxyInit => ProxyInv
<1> SUFFICES ASSUME ProxyInit PROVE ProxyInv
  OBVIOUS
<1>1. ASSUME NEW r \in ProxyRequests PROVE RequestSound(request[r])
  BY ProxyAssumption DEF ProxyInit, RequestSound, Fresh, Attempts, Retryable
<1>2. LeafSound
  BY ProxyAssumption DEF ProxyInit, LeafSound
<1>3. ProxyTypeOK /\ CredentialsPinned /\ OneIdentity
  BY ProxyAssumption DEF ProxyInit, ProxyTypeOK, CredentialsPinned, OneIdentity
<1> QED
  BY <1>1, <1>2, <1>3 DEF ProxyInv, ProxyInit

\* A step of one request, before the start or after it, that leaves the process alone.
ProcessSame == UNCHANGED <<runtimeTransport, phase, leaf, loop, rotations>>
\* One request moves on: what the others, the process and the tracker rest on is not disturbed.
LEMMA RequestKept ==
  ASSUME ProxyInv, NEW r \in ProxyRequests, NEW y, request' = [request EXCEPT ![r] = y], RequestSound(y), ProcessSame,
         phase # "off", UNCHANGED proxySent,
         y.state \in {"open", "upstream", "backoff"} => phase \notin {"drained", "stopped"},
         y.state = "cancelled" => request[r].state = "cancelled",
         phase = "serving" => tracked' = IF y.state \in {"none", "done"} THEN tracked \ {r} ELSE tracked \cup {r}
  PROVE  ProxyInv'
<1>1. DOMAIN request' = ProxyRequests /\ request'[r] = y /\ \A q \in ProxyRequests \ {r} : request'[q] = request[q]
  BY DEF ProxyInv
<1>2. ASSUME NEW q \in ProxyRequests PROVE RequestSound(request[q])'
  <2>1. RequestSound(request'[q])
    BY <1>1 DEF ProxyInv
  <2> QED
    BY <2>1 DEF RequestSound
<1>3. TransportSound' /\ LeafSound'
  BY DEF ProxyInv, ProcessSame, TransportSound, LeafSound
<1>4. phase' \in {"drained", "stopped"} => InFlight' = {}
  BY <1>1 DEF ProxyInv, ProcessSame, InFlight
<1>5. ProxyTypeOK'
  <2>1. phase' = "serving" => \A q \in ProxyRequests : q \in tracked' <=> request'[q].state \notin {"none", "done"}
    BY <1>1 DEF ProxyInv, ProxyTypeOK, ProcessSame
  <2>2. phase' = "serving" => tracked' \subseteq ProxyRequests
    BY DEF ProxyInv, ProxyTypeOK, ProcessSame
  <2>3. phase' = "serving" => tracked' = {q \in ProxyRequests : request'[q].state \notin {"none", "done"}}
    BY <2>1, <2>2
  <2>4. phase' = "serving" => \A q \in ProxyRequests : request'[q].state # "cancelled"
    BY <1>1 DEF ProxyInv, ProxyTypeOK, ProcessSame
  <2> QED
    BY <2>3, <2>4 DEF ProxyInv, ProxyTypeOK, ProcessSame
<1>6. CredentialsPinned' /\ OneIdentity'
  BY DEF ProxyInv, CredentialsPinned, OneIdentity
<1>7. phase' # "off" /\ (phase' = "stopped" => LoopEnded')
  BY DEF ProxyInv, ProcessSame, LoopEnded
<1> QED
  BY <1>1, <1>2, <1>3, <1>4, <1>5, <1>6, <1>7 DEF ProxyInv

\* A request is handed in, or goes on without leaving.
LEMMA ArrivalKept ==
  ASSUME ProxyInv, NEW r \in ProxyRequests, Arrive(r) \/ Late(r)
  PROVE  ProxyInv'
<1>1. PICK m \in Methods, conflict \in BOOLEAN :
         request' = [request EXCEPT ![r] = [method |-> m, state |-> "open", attempts |-> 0, conflict |-> conflict]]
  <2>1. PICK x : x = [method |-> "none", state |-> "none", attempts |-> 0, conflict |-> FALSE]
    OBVIOUS
  <2>2. Fresh = x
    BY <2>1 DEF Fresh
  <2>3. CASE Arrive(r)
    <3>1. PICK m \in Methods, b \in BOOLEAN :
             request' = [request EXCEPT ![r] = [x EXCEPT !.method = m, !.state = "open", !.conflict = b]]
      BY <2>2, <2>3 DEF Arrive
    <3>2. PICK y : y = [x EXCEPT !.method = m, !.state = "open", !.conflict = b]
      OBVIOUS
    <3>3. y = [method |-> m, state |-> "open", attempts |-> 0, conflict |-> b]
      BY <2>1, <3>2
    <3> QED
      BY <3>1, <3>2, <3>3
  <2>4. CASE Late(r)
    <3>1. PICK m \in Methods : request' = [request EXCEPT ![r] = [x EXCEPT !.method = m, !.state = "open"]]
      BY <2>2, <2>4 DEF Late
    <3>2. PICK y : y = [x EXCEPT !.method = m, !.state = "open"]
      OBVIOUS
    <3>3. y = [method |-> m, state |-> "open", attempts |-> 0, conflict |-> FALSE]
      BY <2>1, <3>2
    <3> QED
      BY <3>1, <3>2, <3>3
  <2> QED
    BY <2>3, <2>4
<1>2. PICK y : y = [method |-> m, state |-> "open", attempts |-> 0, conflict |-> conflict]
  OBVIOUS
<1>3. request' = [request EXCEPT ![r] = y]
  BY <1>1, <1>2
<1>4. RequestSound(y)
  BY <1>2, ProxyAssumption DEF RequestSound, Attempts
<1>5. phase \in {"serving", "stopping"} /\ ProcessSame /\ UNCHANGED proxySent /\ tracked' = tracked \cup {r}
  BY DEF Arrive, Late, ProcessSame
<1> QED
  BY <1>2, <1>3, <1>4, <1>5, RequestKept
\* Refusals, answers and ends of requests.
LEMMA ProgressKept ==
  ASSUME ProxyInv, NEW r \in ProxyRequests, Refuse(r) \/ Answer(r) \/ Finish(r)
  PROVE  ProxyInv'
<1>1. PICK s : s \in {"refused", "answered", "backoff", "done"} /\ Set(r, s) /\ (s = "backoff" => request[r].state = "upstream")
                /\ (s = "done" <=> Finish(r))
  <2>1. CASE Refuse(r)
    BY <2>1 DEF Refuse, Finish
  <2>2. CASE Answer(r)
    BY <2>2 DEF Answer, Finish
  <2>3. CASE Finish(r)
    BY <2>3 DEF Finish
  <2> QED
    BY <2>1, <2>2, <2>3
<1>2. PICK x : x = request[r]
  OBVIOUS
<1>3. PICK y : y = [x EXCEPT !.state = s]
  OBVIOUS
<1>4. RequestSound(x)
  BY <1>2 DEF ProxyInv
<1>5. y = [method |-> x.method, state |-> s, attempts |-> x.attempts, conflict |-> x.conflict]
  BY <1>3, <1>4 DEF RequestSound
<1>6. RequestSound(y)
  BY <1>4, <1>5 DEF RequestSound
<1>7. request' = [request EXCEPT ![r] = y]
  BY <1>1, <1>2, <1>3 DEF Set
<1>8. ProcessSame /\ UNCHANGED proxySent
  BY DEF Refuse, Answer, Finish, ProcessSame
<1>9. x.state \in {"open", "upstream", "refused", "answered", "cancelled"}
  BY <1>2 DEF Refuse, Answer, Finish
<1>10. phase # "off"
  BY <1>2, <1>9 DEF ProxyInv, Fresh
<1>11. phase = "serving" => tracked' = IF y.state \in {"none", "done"} THEN tracked \ {r} ELSE tracked \cup {r}
  <2>1. CASE Finish(r)
    BY <1>1, <1>5, <2>1 DEF Finish, Untrack
  <2>2. CASE Refuse(r) \/ Answer(r)
    <3>1. tracked' = tracked /\ x.state \in {"open", "upstream"}
      BY <1>2, <2>2 DEF Refuse, Answer
    <3>2. phase = "serving" => r \in tracked
      BY <1>2, <3>1 DEF ProxyInv, ProxyTypeOK
    <3> QED
      BY <1>1, <1>5, <2>2, <3>1, <3>2 DEF Refuse, Answer, Finish
  <2> QED
    BY <2>1, <2>2
<1>12. y.state = "backoff" => phase \notin {"drained", "stopped"}
  BY <1>1, <1>2, <1>5 DEF ProxyInv, InFlight
<1> QED
  BY <1>1, <1>5, <1>6, <1>7, <1>8, <1>10, <1>11, <1>12, RequestKept

\* It leaves, with what the accepted flags allow and the identity of its mode.
LEMMA RoundTripKept ==
  ASSUME ProxyInv, NEW r \in ProxyRequests, RoundTrip(r)
  PROVE  ProxyInv'
<1>1. PICK x : x = request[r]
  OBVIOUS
<1>2. RequestSound(x) /\ x.state \in {"open", "backoff"} /\ x.attempts < Attempts(x.method)
  BY <1>1 DEF ProxyInv, RoundTrip
<1>3. PICK y : y = [x EXCEPT !.state = "upstream", !.attempts = x.attempts + 1]
  OBVIOUS
<1>4. y = [method |-> x.method, state |-> "upstream", attempts |-> x.attempts + 1, conflict |-> x.conflict]
  BY <1>2, <1>3 DEF RequestSound
<1>5. request' = [request EXCEPT ![r] = y]
  BY <1>1, <1>3 DEF RoundTrip
<1>6. RequestSound(y)
  <2>1. Attempts(x.method) \in Nat
    BY ProxyAssumption DEF Attempts
  <2> QED
    BY <1>2, <1>4, <2>1 DEF RequestSound
<1>7. DOMAIN request' = ProxyRequests /\ request'[r] = y /\ \A q \in ProxyRequests \ {r} : request'[q] = request[q]
  BY <1>5 DEF ProxyInv
<1>8. phase \notin {"off", "drained", "stopped"}
  BY <1>1, <1>2 DEF ProxyInv, Fresh, InFlight
<1>9. UNCHANGED <<runtimeTransport, phase, tracked, leaf, loop, rotations>>
  BY DEF RoundTrip
<1>10. ASSUME NEW q \in ProxyRequests PROVE RequestSound(request[q])'
  <2>1. RequestSound(request'[q])
    BY <1>6, <1>7 DEF ProxyInv
  <2> QED
    BY <2>1 DEF RequestSound
<1>11. ProxyTypeOK'
  <2>1. phase = "serving" => r \in tracked
    BY <1>1, <1>2 DEF ProxyInv, ProxyTypeOK
  <2>2. phase' = "serving" => \A q \in ProxyRequests : q \in tracked' <=> request'[q].state \notin {"none", "done"}
    BY <1>4, <1>7, <1>9, <2>1 DEF ProxyInv, ProxyTypeOK
  <2>3. phase' = "serving" => tracked' = {q \in ProxyRequests : request'[q].state \notin {"none", "done"}}
    BY <1>9, <2>2 DEF ProxyInv, ProxyTypeOK
  <2> QED
    BY <1>4, <1>7, <1>9, <2>3 DEF ProxyInv, ProxyTypeOK
<1>12. CredentialsPinned' /\ OneIdentity'
  <2>1. TransportSound /\ (leaf # 0 <=> runtimeTransport.mode = "certificate")
    BY <1>8 DEF ProxyInv, LeafSound
  <2> QED
    BY <2>1 DEF RoundTrip, ProxyInv, TransportSound, CredentialsPinned, OneIdentity
<1>13. TransportSound' /\ LeafSound'
  BY <1>8, <1>9 DEF ProxyInv, TransportSound, LeafSound
<1> QED
  BY <1>7, <1>8, <1>9, <1>10, <1>11, <1>12, <1>13 DEF ProxyInv

\* The command starts with flags that pin what it injects, or rotates its certificate.
LEMMA StartKept ==
  ASSUME ProxyInv, StartProxy
  PROVE  ProxyInv'
<1>1. PICK f \in Flags : ProxyAccepted(f) /\ runtimeTransport' = Transport(f) /\ leaf' = Presented(f)
                         /\ loop' = IF f.refresh /\ f.mode = "certificate" THEN "waiting" ELSE "none"
  BY DEF StartProxy
<1>2. /\ f.mode \in {"certificate", "header"} /\ f.insecure \in BOOLEAN
      /\ f.source # "none" => ~f.rehosted /\ ~f.insecure
      /\ ~(f.source = "file" /\ f.named /\ f.overridden)
  BY <1>1 DEF Flags, ProxyAccepted, ValidateFlags, VerifiedFlags, resolveHeaderConfig
<1>3. TransportSound'
  BY <1>1, <1>2 DEF Transport, TransportSound
<1>4. LeafSound'
  BY <1>1, <1>2, ProxyAssumption DEF ProxyInv, StartProxy, LeafSound, Transport, Presented
<1>5. phase = "off" /\ phase' = "serving" /\ UNCHANGED <<request, tracked, proxySent, rotations>>
  BY DEF StartProxy
<1>6. \A r \in ProxyRequests : request[r].state = "none"
  BY <1>5 DEF ProxyInv, Fresh
<1>7. ProxyTypeOK'
  <2>1. tracked = {} /\ {r \in ProxyRequests : request[r].state \notin {"none", "done"}} = {}
    BY <1>5, <1>6 DEF ProxyInv
  <2>2. leaf' \in 0..(MaxLeafRotations + 1)
    BY <1>1, ProxyAssumption DEF Presented
  <2> QED
    BY <1>5, <1>6, <2>1, <2>2 DEF ProxyTypeOK
<1>8. CredentialsPinned' /\ OneIdentity'
  BY <1>5 DEF ProxyInv, CredentialsPinned, OneIdentity
<1>9. ASSUME NEW q \in ProxyRequests PROVE RequestSound(request[q])'
  BY <1>5 DEF ProxyInv, RequestSound
<1> QED
  BY <1>3, <1>4, <1>5, <1>7, <1>8, <1>9 DEF ProxyInv
\* The renewal loop and the end of the process.
LEMMA RotationKept ==
  ASSUME ProxyInv, RotateStart \/ rotate \/ LoopExit \/ Return
  PROVE  ProxyInv'
<1>1. UNCHANGED <<runtimeTransport, request, tracked, proxySent>> /\ phase # "off"
  BY DEF RotateStart, rotate, LoopExit, Return, ProxyInv, LeafSound
<1>2. LeafSound'
  BY <1>1, ProxyAssumption DEF RotateStart, rotate, Keep, LoopExit, Return, ProxyInv, LeafSound
<1>3. \/ phase' = phase /\ (phase = "stopped" => loop \notin {"waiting", "rotating"})
      \/ phase' = "stopped" /\ phase = "drained" /\ LoopEnded
  BY DEF RotateStart, rotate, LoopExit, Return, ProxyInv, LoopEnded
<1>4. phase' = "stopped" => LoopEnded'
  BY <1>3 DEF RotateStart, rotate, LoopExit, Return, ProxyInv, LoopEnded
<1>5. ProxyTypeOK'
  <2>1. leaf' \in 0..(MaxLeafRotations + 1)
    <3>1. rotations' \in 0..MaxLeafRotations /\ leaf' \in 0..(rotations' + 1)
      BY <1>2 DEF LeafSound
    <3>2. PICK l, n : l = leaf' /\ n = rotations'
      OBVIOUS
    <3>3. l \in 0..(n + 1) /\ n \in 0..MaxLeafRotations /\ MaxLeafRotations \in Nat
      BY <3>1, <3>2, ProxyAssumption
    <3>4. l \in 0..(MaxLeafRotations + 1)
      BY <3>3
    <3> QED
      BY <3>2, <3>4
  <2>2. phase' = "serving" => phase = "serving"
    BY <1>3
  <2> QED
    BY <1>1, <2>1, <2>2 DEF ProxyInv, ProxyTypeOK
<1>6. CredentialsPinned' /\ OneIdentity' /\ TransportSound'
  BY <1>1 DEF ProxyInv, CredentialsPinned, OneIdentity, TransportSound
<1>7. ASSUME NEW q \in ProxyRequests PROVE RequestSound(request[q])'
  BY <1>1 DEF ProxyInv, RequestSound
<1>8. phase' \in {"drained", "stopped"} => InFlight' = {}
  BY <1>1, <1>3 DEF ProxyInv, InFlight
<1> QED
  BY <1>1, <1>2, <1>3, <1>4, <1>5, <1>6, <1>7, <1>8 DEF ProxyInv

\* A signal, and the end of the drain: what is in flight is cancelled.
LEMMA CancelKept ==
  ASSUME ProxyInv, NEW victims,
         request' = [r \in ProxyRequests |-> IF r \in victims THEN [request[r] EXCEPT !.state = "cancelled"] ELSE request[r]],
         UNCHANGED <<runtimeTransport, proxySent, leaf, loop, rotations>>,
         \/ phase = "serving" /\ phase' = "stopping"
         \/ phase = "stopping" /\ phase' = "drained" /\ InFlight \subseteq victims
  PROVE  ProxyInv' /\ \A r \in ProxyRequests \cap victims : request'[r].state = "cancelled"
<1>1. ASSUME NEW q \in ProxyRequests
      PROVE  RequestSound(request'[q]) /\ (IF q \in victims THEN request'[q].state = "cancelled" ELSE request'[q] = request[q])
  <2>1. PICK x : x = request[q]
    OBVIOUS
  <2>2. RequestSound(x)
    BY <2>1 DEF ProxyInv
  <2>3. PICK y : y = [x EXCEPT !.state = "cancelled"]
    OBVIOUS
  <2>4. y = [method |-> x.method, state |-> "cancelled", attempts |-> x.attempts, conflict |-> x.conflict]
    BY <2>2, <2>3 DEF RequestSound
  <2>5. RequestSound(y)
    BY <2>2, <2>4 DEF RequestSound
  <2> QED
    BY <2>1, <2>2, <2>3, <2>4, <2>5
<1>2. ASSUME NEW q \in ProxyRequests PROVE RequestSound(request[q])'
  BY <1>1 DEF RequestSound
<1>3. phase' = "drained" => InFlight' = {}
  BY <1>1 DEF InFlight
<1>4. TransportSound' /\ LeafSound'
  BY DEF ProxyInv, TransportSound, LeafSound
<1>5. ProxyTypeOK' /\ CredentialsPinned' /\ OneIdentity'
  BY DEF ProxyInv, ProxyTypeOK, CredentialsPinned, OneIdentity
<1> QED
  BY <1>1, <1>2, <1>3, <1>4, <1>5 DEF ProxyInv

\* Every step of the proxy preserves the invariant.
LEMMA ProxyStep == ProxyInv /\ [ProxyNext]_proxyVars => ProxyInv'
<1> SUFFICES ASSUME ProxyInv, [ProxyNext]_proxyVars PROVE ProxyInv'
  OBVIOUS
<1>1. CASE StartProxy
  BY <1>1, StartKept
<1>2. CASE InterruptProxy
  BY <1>2, CancelKept DEF InterruptProxy
<1>3. CASE Shutdown
  BY <1>3, CancelKept DEF Shutdown
<1>4. CASE LoopExit \/ Return \/ RotateStart \/ rotate
  BY <1>4, RotationKept
<1>5. CASE \E r \in ProxyRequests : Arrive(r) \/ Late(r)
  BY <1>5, ArrivalKept
<1>6. CASE \E r \in ProxyRequests : Refuse(r) \/ Answer(r) \/ Finish(r)
  BY <1>6, ProgressKept
<1>7. CASE \E r \in ProxyRequests : RoundTrip(r)
  BY <1>7, RoundTripKept
<1>8. CASE UNCHANGED proxyVars
  BY <1>8 DEF proxyVars, ProxyInv, RequestSound, TransportSound, LeafSound, LoopEnded, InFlight, ProxyTypeOK,
              CredentialsPinned, OneIdentity
<1> QED
  BY <1>1, <1>2, <1>3, <1>4, <1>5, <1>6, <1>7, <1>8 DEF ProxyNext

\* While the listener serves, the tracker knows everything in flight.
LEMMA ProxyStepSound ==
  ASSUME ProxyInv, [ProxyNext]_proxyVars, phase = "serving", phase' = "stopping"
  PROVE  \A r \in InFlight : request'[r].state = "cancelled"
<1>1. InterruptProxy
  BY DEF ProxyNext, StartProxy, Shutdown, LoopExit, Return, RotateStart, rotate, Arrive, Late, Refuse, RoundTrip,
         Answer, Finish, proxyVars
<1>2. InFlight \subseteq tracked /\ InFlight \subseteq ProxyRequests
  BY DEF ProxyInv, ProxyTypeOK, InFlight
<1>3. \A r \in ProxyRequests \cap (tracked \cap InFlight) : request'[r].state = "cancelled"
  BY <1>1, CancelKept DEF InterruptProxy, cancelAll
<1> QED
  BY <1>2, <1>3

\* The invariant gives the state properties of the run.
LEMMA ProxyImplies == ProxyInv => ProxyTypeOK /\ NeverReplayed /\ CredentialsPinned /\ OneIdentity /\ NothingLeftRunning
<1> SUFFICES ASSUME ProxyInv
             PROVE  ProxyTypeOK /\ NeverReplayed /\ CredentialsPinned /\ OneIdentity /\ NothingLeftRunning
  OBVIOUS
<1>1. NeverReplayed
  BY DEF ProxyInv, RequestSound, Attempts, Retryable, NeverReplayed
<1>2. NothingLeftRunning
  BY DEF ProxyInv, LoopEnded, NothingLeftRunning
<1> QED
  BY <1>1, <1>2 DEF ProxyInv

\* The proxy sends what it was told to, with the identity it was given, to the host it was given, at most
\* once if it changes something, and a signal ends all of it (internal/agentadapter, for any number of
\* requests, attempts and rotations).
THEOREM ProxyIsHonest == ProxySpec => ProxyHonest
<1>1. ProxyInit => ProxyInv
  BY ProxyInitially
<1>2. ProxyInv /\ [ProxyNext]_proxyVars => ProxyInv'
  BY ProxyStep
<1>3. ProxyInv => ProxyTypeOK /\ NeverReplayed /\ CredentialsPinned /\ OneIdentity /\ NothingLeftRunning
  BY ProxyImplies
<1>4. ProxyInv /\ [ProxyNext]_proxyVars
        => [phase = "serving" /\ phase' = "stopping" => \A r \in InFlight : request'[r].state = "cancelled"]_proxyVars
  BY ProxyStepSound
<1> QED
  BY <1>1, <1>2, <1>3, <1>4, PTL DEF ProxySpec, ProxyHonest, SignalCancels

-----------------------------------------------------------------------------
\* The background service.

Listening == {"serving", "draining"}
\* The transport's certificate lasts at least as long as what callers are told.
WorkerSound(w) ==
    /\ w = [gen |-> w.gen, state |-> w.state, leaf |-> w.leaf, expiry |-> w.expiry, sess |-> w.sess, renew |-> w.renew,
            late |-> w.late]
    /\ w.gen \in Nat /\ w.leaf \in Nat /\ w.expiry \in Nat /\ w.sess \in Nat
    /\ w.renew \in {"none", "due", "never", "expiry", "wait"}
    /\ w.expiry <= w.leaf /\ (w.renew = "due" => w.expiry = 0)
\* The phases of the daemon's end: it has left once its lock is free.
EndSound ==
    /\ ending = [phase |-> ending.phase, signalled |-> ending.signalled] /\ ending.signalled \in BOOLEAN
    /\ ending.phase \in {"no", "awaiting", "shutdown", "leaving"}
    /\ lock = 0 => ending.phase \in {"no", "leaving"}
    /\ ending.phase = "leaving" => lock = 0
ServiceInv ==
    /\ saved = [gen |-> saved.gen, ok |-> saved.ok] /\ saved.gen \in Nat
    /\ control.gen \in Nat /\ control.gen <= saved.gen
    /\ WorkerSound(profileWorker) /\ profileWorker.gen <= saved.gen
    /\ EndSound
    /\ profileWorker.state \in Listening => profileWorker.late \/ ending.phase \in {"no", "awaiting"}
    /\ ending.phase = "no" /\ lock = 0 => profileWorker.state \notin Listening /\ control = Idle_
    /\ ending = Running_ /\ profileWorker.state = "draining" => control # Idle_
    /\ profileWorker.state \notin Listening => calls = {}
    /\ \A c \in calls : c = [gen |-> profileWorker.gen, sent |-> c.sent]
    /\ binary \in Nat /\ (binary = 0 => lock = 0 /\ serviceJob = FALSE)
    /\ installer \in {"stopping", "copying"} => serviceJob = FALSE
    /\ installer = "copying" => lock = 0
    /\ expired = FALSE /\ swapped = FALSE

\* A service with its first store satisfies the invariant.
LEMMA ServiceInitially == ServiceInit => ServiceInv
<1> SUFFICES ASSUME ServiceInit PROVE ServiceInv
  OBVIOUS
<1>1. PICK w : w = [gen |-> 0, state |-> "none", leaf |-> 0, expiry |-> 0, sess |-> 0, renew |-> "none",
                    late |-> FALSE]
  OBVIOUS
<1>2. profileWorker = w
  BY <1>1 DEF ServiceInit, NoWorker
<1>3. WorkerSound(w)
  BY <1>1 DEF WorkerSound
<1> QED
  BY <1>1, <1>2, <1>3 DEF ServiceInit, ServiceInv, EndSound, Running_, Idle_, Listening

\* Nothing about the worker changes: the store, launchd and the installer.
LEMMA AroundKept ==
  ASSUME ServiceInv, Save \/ Break \/ Bootout \/ InstallStart \/ InstallStopped \/ InstallCopy \/ Bootstrap
  PROVE  ServiceInv'
<1>1. UNCHANGED <<profileWorker, control, lock, calls, expired>>
  BY DEF Save, Break, Bootout, InstallStart, InstallStopped, InstallCopy, Bootstrap
<1>2. saved' = [gen |-> saved'.gen, ok |-> saved'.ok] /\ saved'.gen \in Nat /\ saved.gen <= saved'.gen
  <2>1. CASE Break
    <3>1. PICK x, y : x = saved /\ y = [x EXCEPT !.ok = FALSE]
      OBVIOUS
    <3>2. y = [gen |-> x.gen, ok |-> FALSE] /\ x.gen \in Nat
      BY <3>1 DEF ServiceInv
    <3>3. y = [gen |-> y.gen, ok |-> y.ok] /\ y.gen \in Nat /\ x.gen <= y.gen
      BY <3>2
    <3>4. saved' = y /\ saved = x
      BY <2>1, <3>1 DEF Break
    <3> QED
      BY <3>3, <3>4
  <2>2. CASE Save
    BY <2>2 DEF Save, ServiceInv
  <2>3. CASE saved' = saved
    BY <2>3 DEF ServiceInv
  <2> QED
    BY <2>1, <2>2, <2>3 DEF Bootout, InstallStart, InstallStopped, InstallCopy, Bootstrap
<1>3. WorkerSound(profileWorker)'
  BY <1>1 DEF ServiceInv, WorkerSound
<1>4. /\ binary' \in Nat /\ (binary' = 0 => lock' = 0 /\ serviceJob' = FALSE)
      /\ installer' \in {"stopping", "copying"} => serviceJob' = FALSE
      /\ installer' = "copying" => lock' = 0
  <2>1. CASE Save \/ Break
    BY <2>1 DEF Save, Break, ServiceInv
  <2>2. CASE Bootout \/ Bootstrap
    BY <2>2 DEF Bootout, Bootstrap, ServiceInv
  <2>3. CASE InstallStart
    BY <2>3 DEF InstallStart, ServiceInv
  <2>4. CASE InstallStopped
    BY <2>4 DEF InstallStopped, Stopped, ServiceInv
  <2>5. CASE InstallCopy
    BY <2>5 DEF InstallCopy, ServiceInv
  <2> QED
    BY <2>1, <2>2, <2>3, <2>4, <2>5
<1>7. EndSound' /\ ending'.phase = ending.phase /\ (ending' = Running_ => ending = Running_)
  <2>e. UNCHANGED ending \/ signal
    BY DEF Save, Break, Bootout, InstallStart, InstallStopped, InstallCopy, Bootstrap
  <2>n. EndSound' /\ ending'.phase = ending.phase /\ (ending' = Running_ => ending = Running_)
    <3>1. PICK e : e = ending
      OBVIOUS
    <3>2. e = [phase |-> e.phase, signalled |-> e.signalled] /\ EndSound /\ e.signalled \in BOOLEAN
      BY <3>1 DEF ServiceInv, EndSound
    <3>3. CASE signal
      <4>1. PICK b \in BOOLEAN : b = (e.signalled \/ Alive) /\ (e.signalled = TRUE => b = TRUE)
        OBVIOUS
      <4>2. PICK f : f = [e EXCEPT !.signalled = b]
        OBVIOUS
      <4>3. f = [phase |-> e.phase, signalled |-> b] /\ ending' = f
        BY <3>1, <3>2, <3>3, <4>1, <4>2 DEF signal
      <4>4. f = Running_ => e = Running_
        <5> SUFFICES ASSUME f = Running_ PROVE e = Running_
          OBVIOUS
        <5>1. e.phase = "no" /\ b = FALSE
          BY <4>3 DEF Running_
        <5>2. e.signalled = FALSE
          BY <3>2, <4>1, <5>1
        <5> QED
          BY <3>2, <5>1, <5>2 DEF Running_
      <4>5. f.phase = e.phase /\ f.signalled = b
        BY <4>3
      <4> QED
        BY <1>1, <3>1, <3>2, <4>3, <4>4, <4>5 DEF EndSound
    <3>4. CASE UNCHANGED ending
      BY <1>1, <3>1, <3>2, <3>4 DEF EndSound
    <3> QED
      BY <2>e, <3>3, <3>4
  <2> QED
    BY <2>n
<1>5. swapped' = FALSE
  BY DEF Save, Break, Bootout, InstallStart, InstallStopped, InstallCopy, Bootstrap, ServiceInv
<1>6. profileWorker'.gen <= saved'.gen /\ control'.gen <= saved'.gen
  BY <1>1, <1>2 DEF ServiceInv, WorkerSound
<1> QED
  BY <1>1, <1>2, <1>3, <1>4, <1>5, <1>6, <1>7 DEF ServiceInv

\* A worker w and calls s that are as they should be.
LEMMA WorkerKept ==
  ASSUME ServiceInv, NEW w, NEW s, profileWorker' = w, calls' = s, UNCHANGED <<saved, binary, swapped, installer, serviceJob>>,
         WorkerSound(w), w.gen <= saved.gen, expired' = FALSE,
         control'.gen \in Nat, control'.gen <= saved.gen,
         EndSound',
         w.state \in Listening => w.late \/ ending'.phase \in {"no", "awaiting"},
         ending'.phase = "no" /\ lock' = 0 => w.state \notin Listening /\ control' = Idle_,
         ending' = Running_ /\ w.state = "draining" => control' # Idle_,
         w.state \notin Listening => s = {},
         \A c \in s : c = [gen |-> w.gen, sent |-> c.sent],
         lock' \in {0, lock} \/ (serviceJob /\ binary # 0)
  PROVE  ServiceInv'
<1>1. WorkerSound(profileWorker)'
  BY DEF WorkerSound
<1> QED
  BY <1>1 DEF ServiceInv


\* The daemon starts, takes a request, drains, loads, ends or dies.
LEMMA DaemonKept ==
  ASSUME ServiceInv, Run \/ Reload \/ Drain \/ Load \/ ExitBegins \/ ExitDrained \/ LockReleased \/ CancelNoticed \/ DaemonCrash
  PROVE  ServiceInv'
<1>1. PICK n : n = [gen |-> 0, state |-> "none", leaf |-> 0, expiry |-> 0, sess |-> 0, renew |-> "none",
                    late |-> FALSE]
  OBVIOUS
<1>2. NoWorker = n /\ WorkerSound(n) /\ n.gen = 0 /\ n.state = "none"
  BY <1>1 DEF NoWorker, WorkerSound
<1>3. PICK w : w = profileWorker
  OBVIOUS
<1>e. PICK e : e = ending
  OBVIOUS
<1>4. /\ WorkerSound(w) /\ w.gen <= saved.gen /\ saved.gen \in Nat
      /\ \A c \in calls : c = [gen |-> w.gen, sent |-> c.sent]
      /\ e = [phase |-> e.phase, signalled |-> e.signalled] /\ EndSound /\ e.signalled \in BOOLEAN
      /\ e.phase \in {"no", "awaiting", "shutdown", "leaving"}
      /\ w.state \in Listening => w.late \/ e.phase \in {"no", "awaiting"}
      /\ e.phase = "no" /\ lock = 0 => w.state \notin Listening /\ control = Idle_
      /\ e = Running_ /\ w.state = "draining" => control # Idle_
      /\ w.state \notin Listening => calls = {}
      /\ lock = 0 => e.phase = "no" \/ e.phase = "leaving"
      /\ e.phase = "leaving" => lock = 0
  BY <1>3, <1>e DEF ServiceInv, EndSound
<1>r. Running_.phase = "no" /\ Running_ = [phase |-> "no", signalled |-> FALSE]
  BY DEF Running_
<1>i. Idle_.gen = 0 /\ Idle_.step = "idle"
  BY DEF Idle_
<1>s. ASSUME NEW t, t = "draining"
      PROVE  \E y : /\ y = [w EXCEPT !.state = t] /\ WorkerSound(y) /\ y.gen = w.gen /\ y.state = t /\ y.late = w.late
  <2>1. PICK y : y = [w EXCEPT !.state = t]
    OBVIOUS
  <2>2. y = [gen |-> w.gen, state |-> t, leaf |-> w.leaf, expiry |-> w.expiry, sess |-> w.sess, renew |-> w.renew,
             late |-> w.late]
    BY <1>4, <2>1 DEF WorkerSound
  <2>3. WorkerSound(y) /\ y.gen = w.gen /\ y.state = t /\ y.late = w.late
    BY <1>4, <2>2 DEF WorkerSound
  <2> QED
    BY <2>1, <2>3
\* The workers are cancelled: a serving one drains, another stays.
<1>c. ASSUME profileWorker' = [profileWorker EXCEPT !.state = IF @ = "serving" THEN "draining" ELSE @]
      PROVE  \E y : /\ profileWorker' = y /\ WorkerSound(y) /\ y.gen = w.gen /\ y.late = w.late
                    /\ y.state \in Listening <=> w.state \in Listening
  <2>1. CASE w.state = "serving"
    <3>1. PICK t : t = "draining"
      OBVIOUS
    <3>2. PICK y : y = [w EXCEPT !.state = t] /\ WorkerSound(y) /\ y.gen = w.gen /\ y.state = t /\ y.late = w.late
      BY <1>s, <3>1
    <3> QED
      BY <1>3, <1>c, <2>1, <3>1, <3>2 DEF Listening
  <2>2. CASE w.state # "serving"
    <3>1. profileWorker' = w
      <4>1. [w EXCEPT !.state = w.state] = w
        BY <1>4 DEF WorkerSound
      <4>2. profileWorker' = [w EXCEPT !.state = w.state]
        BY <1>3, <1>c, <2>2
      <4> QED
        BY <4>1, <4>2
    <3> QED
      BY <1>4, <3>1
  <2> QED
    BY <2>1, <2>2
<1>5. CASE Run
  <2>1. calls = {} /\ calls' = {} /\ profileWorker' = n
    BY <1>2, <1>3, <1>4, <1>e, <1>r, <1>5 DEF Run
  <2>2. control'.gen = saved.gen
    BY <1>5 DEF Run
  <2>3. /\ UNCHANGED <<saved, binary, swapped, installer, serviceJob, expired, ending>>
        /\ serviceJob /\ binary # 0 /\ lock' # 0 /\ e = Running_
    BY <1>e, <1>5 DEF Run
  <2>4. EndSound'
    BY <1>4, <1>e, <1>r, <2>3 DEF EndSound
  <2> QED
    BY <1>2, <1>4, <1>e, <1>r, <2>1, <2>2, <2>3, <2>4, WorkerKept DEF ServiceInv, Listening
<1>6. CASE Reload
  <2>1. control' = [step |-> "loading", gen |-> saved.gen]
        /\ UNCHANGED <<saved, lock, ending, binary, swapped, installer, serviceJob, expired, calls>>
    BY <1>6 DEF Reload
  <2>2. control' # Idle_ /\ control'.gen = saved.gen
    BY <2>1, <1>i
  <2>3. PICK y : /\ profileWorker' = y /\ WorkerSound(y) /\ y.gen = w.gen /\ y.late = w.late
                 /\ y.state \in Listening <=> w.state \in Listening
    BY <1>c, <1>6 DEF Reload
  <2>4. EndSound'
    BY <1>4, <2>1 DEF EndSound
  <2>5. e.phase = "no" => lock # 0
    BY <1>6, <1>e, <1>4 DEF Reload, Alive
  <2> QED
    BY <1>4, <1>e, <2>1, <2>2, <2>3, <2>4, <2>5, WorkerKept DEF ServiceInv
<1>7. CASE Drain
  <2>1. profileWorker' = n /\ calls' = {} /\ UNCHANGED <<saved, control, lock, ending, binary, swapped, installer, serviceJob, expired>>
    BY <1>2, <1>7 DEF Drain
  <2>2. EndSound'
    BY <1>4, <2>1 DEF EndSound
  <2> QED
    BY <1>2, <1>4, <1>e, <2>1, <2>2, WorkerKept DEF ServiceInv, Listening
<1>8. CASE DaemonCrash
  <2>1. profileWorker' = n /\ calls' = {} /\ UNCHANGED <<saved, binary, swapped, installer, serviceJob, expired>>
        /\ control' = Idle_ /\ lock' = 0 /\ ending' = Running_
    BY <1>2, <1>8 DEF DaemonCrash
  <2>2. EndSound'
    BY <1>r, <2>1 DEF EndSound
  <2> QED
    BY <1>2, <1>4, <1>i, <1>r, <2>1, <2>2, WorkerKept DEF ServiceInv, Listening
<1>9. CASE ExitBegins
  <2>1. PICK f : f = [e EXCEPT !.phase = "awaiting"]
    OBVIOUS
  <2>2. f = [phase |-> "awaiting", signalled |-> e.signalled]
    BY <1>4, <2>1
  <2>3. /\ ending' = f /\ control' = [step |-> "ending", gen |-> 0] /\ lock # 0
        /\ UNCHANGED <<saved, lock, binary, swapped, installer, serviceJob, expired, calls>>
    BY <1>e, <1>9, <2>1 DEF ExitBegins
  <2>4. PICK y : /\ profileWorker' = y /\ WorkerSound(y) /\ y.gen = w.gen /\ y.late = w.late
                 /\ y.state \in Listening <=> w.state \in Listening
    BY <1>c, <1>9 DEF ExitBegins
  <2>5. EndSound'
    BY <1>4, <2>2, <2>3 DEF EndSound
  <2>6. f.phase = "awaiting" /\ f # Running_ /\ control'.gen = 0
    BY <1>r, <2>2, <2>3
  <2> QED
    BY <1>4, <2>3, <2>4, <2>5, <2>6, WorkerKept DEF ServiceInv
<1>10. CASE ExitDrained
  <2>1. PICK f : f = [e EXCEPT !.phase = "shutdown"]
    OBVIOUS
  <2>2. f = [phase |-> "shutdown", signalled |-> e.signalled]
    BY <1>4, <2>1
  <2>3. /\ ending' = f /\ control' = Idle_ /\ e.phase = "awaiting" /\ profileWorker' = w /\ w.state \notin Listening
        /\ UNCHANGED <<saved, lock, binary, swapped, installer, serviceJob, expired, calls>>
    BY <1>3, <1>e, <1>10, <2>1 DEF ExitDrained, Drained, Listening
  <2>4. lock # 0
    BY <1>4, <2>3
  <2>5. EndSound'
    BY <1>4, <2>2, <2>3, <2>4 DEF EndSound
  <2>6. f.phase = "shutdown" /\ f # Running_
    BY <1>r, <2>2
  <2> QED
    BY <1>4, <1>i, <2>3, <2>5, <2>6, WorkerKept DEF ServiceInv
<1>11. CASE LockReleased
  <2>1. PICK f : f = [e EXCEPT !.phase = "leaving"]
    OBVIOUS
  <2>2. f = [phase |-> "leaving", signalled |-> e.signalled]
    BY <1>4, <2>1
  <2>3. /\ ending' = f /\ e.phase = "shutdown" /\ profileWorker' = w /\ lock' = 0
        /\ UNCHANGED <<saved, control, binary, swapped, installer, serviceJob, expired, calls>>
    BY <1>3, <1>e, <1>11, <2>1 DEF LockReleased
  <2>4. EndSound'
    BY <1>4, <2>2, <2>3 DEF EndSound
  <2>5. f.phase = "leaving" /\ f # Running_
    BY <1>r, <2>2
  <2>6. w.state \in Listening => w.late
    BY <1>4, <2>3
  <2> QED
    BY <1>4, <2>3, <2>4, <2>5, <2>6, WorkerKept DEF ServiceInv
<1>12. CASE CancelNoticed
  <2>1. PICK t : t = "draining"
    OBVIOUS
  <2>2. PICK y : y = [w EXCEPT !.state = t] /\ WorkerSound(y) /\ y.gen = w.gen /\ y.state = t /\ y.late = w.late
    BY <1>s, <2>1
  <2>3. /\ profileWorker' = y /\ w.state = "serving" /\ e.signalled
        /\ UNCHANGED <<saved, control, lock, ending, binary, swapped, installer, serviceJob, expired, calls>>
    BY <1>3, <1>e, <1>12, <2>1, <2>2 DEF CancelNoticed
  <2>4. EndSound'
    BY <1>4, <2>3 DEF EndSound
  <2>5. e # Running_ /\ w.state \in Listening
    BY <1>r, <2>3 DEF Listening
  <2> QED
    BY <1>4, <1>e, <2>1, <2>2, <2>3, <2>4, <2>5, WorkerKept DEF ServiceInv, Listening
<1>13. CASE Load
  <2>1. w.state \notin Listening /\ calls = {} /\ control' = Idle_ /\ control # Idle_
        /\ UNCHANGED <<saved, lock, ending, calls, binary, swapped, installer, serviceJob, expired>>
    BY <1>3, <1>4, <1>13, <1>i DEF Load, Drained, Listening
  <2>2. e.phase = "no" => lock # 0
    BY <1>4, <2>1
  <2>3. PICK y : profileWorker' = y /\ WorkerSound(y) /\ y.gen <= saved.gen /\ y.state # "draining"
                 /\ (y.state \in Listening => y.late = (e.phase # "no"))
    <3>1. CASE control.gen = 0
      BY <1>2, <1>4, <1>13, <3>1 DEF Load, Listening
    <3>2. CASE control.gen # 0
      <4>1. PICK state \in {"serving", "conflict"}, sess \in 0..SessionTicks :
               profileWorker' = [n EXCEPT !.gen = control.gen, !.state = state, !.sess = sess, !.renew = "due",
                                          !.late = Ending]
        BY <1>2, <1>13, <3>2 DEF Load
      <4>2. PICK b : b = Ending /\ b = (e.phase # "no")
        BY <1>e DEF Ending
      <4>3. PICK y : y = [n EXCEPT !.gen = control.gen, !.state = state, !.sess = sess, !.renew = "due", !.late = b]
        OBVIOUS
      <4>4. y = [gen |-> control.gen, state |-> state, leaf |-> 0, expiry |-> 0, sess |-> sess, renew |-> "due", late |-> b]
        BY <1>1, <4>3
      <4>5. control.gen \in Nat /\ control.gen <= saved.gen /\ sess \in Nat
        BY ServiceAssumption DEF ServiceInv
      <4>6. WorkerSound(y) /\ y.gen <= saved.gen /\ y.state # "draining" /\ y.late = b
        BY <4>4, <4>5 DEF WorkerSound
      <4>7. profileWorker' = y
        BY <1>e, <4>1, <4>2, <4>3
      <4> QED
        BY <4>2, <4>6, <4>7
    <3> QED
      BY <3>1, <3>2
  <2>4. EndSound'
    BY <1>4, <2>1 DEF EndSound
  <2>5. y.state \in Listening => y.late \/ e.phase \in {"no", "awaiting"}
    BY <2>3
  <2> QED
    BY <1>4, <1>e, <1>i, <2>1, <2>2, <2>3, <2>4, <2>5, WorkerKept DEF ServiceInv
<1> QED
  BY <1>5, <1>6, <1>7, <1>8, <1>9, <1>10, <1>11, <1>12, <1>13

\* Renewal: the transport first, then what callers are told.
LEMMA RenewalKept ==
  ASSUME ServiceInv, SessionOver \/ Installed_ \/ (\E left \in 1..SessionTicks : Issue(left)) \/ ServiceTick
  PROVE  ServiceInv'
<1>1. PICK w : w = profileWorker
  OBVIOUS
<1>2. WorkerSound(w) /\ w.gen <= saved.gen
      /\ w = [gen |-> w.gen, state |-> w.state, leaf |-> w.leaf, expiry |-> w.expiry, sess |-> w.sess, renew |-> w.renew, late |-> w.late]
  BY <1>1 DEF ServiceInv, WorkerSound
<1>3. UNCHANGED <<saved, control, lock, ending, serviceJob, binary, installer, calls, expired, swapped>>
  BY DEF SessionOver, Installed_, Issue, ServiceTick
<1>4. PICK y : profileWorker' = y /\ WorkerSound(y) /\ y.gen = w.gen /\ y.state = w.state /\ y.late = w.late
  <2>1. CASE SessionOver
    <3>1. PICK y : y = [w EXCEPT !.renew = "never"]
      OBVIOUS
    <3>2. y = [gen |-> w.gen, state |-> w.state, leaf |-> w.leaf, expiry |-> w.expiry, sess |-> w.sess, renew |-> "never", late |-> w.late]
      BY <1>2, <3>1
    <3>3. WorkerSound(y) /\ y.gen = w.gen /\ y.state = w.state /\ y.late = w.late
      BY <1>2, <3>2 DEF WorkerSound
    <3> QED
      BY <1>1, <2>1, <3>1, <3>3 DEF SessionOver
  <2>2. CASE \E left \in 1..SessionTicks : Issue(left)
    <3>1. PICK left \in 1..SessionTicks : Issue(left)
      BY <2>2
    <3>2. PICK y : y = [w EXCEPT !.leaf = left, !.renew = "expiry"]
      OBVIOUS
    <3>3. y = [gen |-> w.gen, state |-> w.state, leaf |-> left, expiry |-> w.expiry, sess |-> w.sess, renew |-> "expiry", late |-> w.late]
      BY <1>2, <3>2
    <3>4. w.renew = "due" /\ profileWorker' = y
      BY <1>1, <3>1, <3>2 DEF Issue, Renewing, Install
    <3>5. WorkerSound(y) /\ y.gen = w.gen /\ y.state = w.state /\ y.late = w.late
      BY <1>2, <3>3, <3>4 DEF WorkerSound
    <3> QED
      BY <3>4, <3>5
  <2>3. CASE Installed_
    <3>1. w.renew = "expiry"
      BY <1>1, <1>2, <2>3 DEF Installed_, WorkerSound
    <3>2. PICK y : y = [w EXCEPT !.expiry = w.leaf, !.leaf = w.leaf, !.renew = "wait"]
      OBVIOUS
    <3>3. y = [gen |-> w.gen, state |-> w.state, leaf |-> w.leaf, expiry |-> w.leaf, sess |-> w.sess, renew |-> "wait", late |-> w.late]
      BY <1>2, <3>2
    <3>4. profileWorker' = y
      BY <1>1, <2>3, <3>1, <3>2 DEF Installed_
    <3>5. WorkerSound(y) /\ y.gen = w.gen /\ y.state = w.state /\ y.late = w.late
      BY <1>2, <3>3 DEF WorkerSound
    <3> QED
      BY <3>4, <3>5
  <2>4. CASE ServiceTick
    <3>1. PICK l, e, s : l = (IF w.leaf > 0 THEN w.leaf - 1 ELSE 0) /\ e = (IF w.expiry > 0 THEN w.expiry - 1 ELSE 0)
                         /\ s = (IF w.sess > 0 THEN w.sess - 1 ELSE 0)
      OBVIOUS
    <3>2. PICK r : r = IF w.renew = "wait" /\ w.expiry <= 1 THEN "due" ELSE w.renew
      OBVIOUS
    <3>3. PICK y : y = [w EXCEPT !.leaf = l, !.expiry = e, !.sess = s, !.renew = r]
      OBVIOUS
    <3>4. y = [gen |-> w.gen, state |-> w.state, leaf |-> l, expiry |-> e, sess |-> s, renew |-> r, late |-> w.late]
      BY <1>2, <3>3
    <3>5. profileWorker' = y
      BY <1>1, <2>4, <3>1, <3>2, <3>3 DEF ServiceTick
    <3>6. l \in Nat /\ e \in Nat /\ s \in Nat /\ e <= l
      BY <1>2, <3>1 DEF WorkerSound
    <3>7. r \in {"none", "due", "never", "expiry", "wait"} /\ (r = "due" => e = 0)
      BY <1>2, <3>1, <3>2 DEF WorkerSound
    <3>8. WorkerSound(y) /\ y.gen = w.gen /\ y.state = w.state /\ y.late = w.late
      BY <1>2, <3>4, <3>6, <3>7 DEF WorkerSound
    <3> QED
      BY <3>5, <3>8
  <2> QED
    BY <2>1, <2>2, <2>3, <2>4
<1>5. expired' = FALSE /\ control'.gen \in Nat /\ control'.gen <= saved.gen /\ EndSound'
  BY <1>3 DEF ServiceInv, EndSound
<1>6. /\ y.state \in Listening => y.late \/ ending'.phase \in {"no", "awaiting"}
      /\ ending'.phase = "no" /\ lock' = 0 => y.state \notin Listening /\ control' = Idle_
      /\ ending' = Running_ /\ y.state = "draining" => control' # Idle_
      /\ (y.state \notin Listening => calls = {}) /\ \A c \in calls : c = [gen |-> y.gen, sent |-> c.sent]
  BY <1>1, <1>3, <1>4 DEF ServiceInv
<1> QED
  BY <1>2, <1>3, <1>4, <1>5, <1>6, WorkerKept

\* A call is let in, leaves with a certificate that is still good, or ends.
LEMMA CallsKept ==
  ASSUME ServiceInv, protect \/ \E c \in calls : RoundTrip_(c) \/ CallEnds(c)
  PROVE  ServiceInv'
<1>1. PICK w : w = profileWorker
  OBVIOUS
<1>2. WorkerSound(w) /\ w.gen <= saved.gen /\ \A c \in calls : c = [gen |-> w.gen, sent |-> c.sent]
  BY <1>1 DEF ServiceInv
<1>3. UNCHANGED <<saved, profileWorker, control, lock, ending, serviceJob, binary, installer, swapped>>
  BY DEF protect, RoundTrip_, CallEnds
<1>4. PICK s : calls' = s /\ (\A c \in s : c = [gen |-> w.gen, sent |-> c.sent]) /\ (w.state \notin Listening => s = {})
  <2>1. CASE protect
    <3>1. PICK s : s = calls \cup {[gen |-> w.gen, sent |-> FALSE]}
      OBVIOUS
    <3>2. calls' = s /\ w.state = "serving"
      BY <1>1, <2>1, <3>1 DEF protect
    <3> QED
      BY <1>2, <3>1, <3>2 DEF Listening
  <2>2. CASE \E c \in calls : RoundTrip_(c) \/ CallEnds(c)
    <3>1. PICK c \in calls : RoundTrip_(c) \/ CallEnds(c)
      BY <2>2
    <3>2. PICK d : d = [c EXCEPT !.sent = TRUE]
      OBVIOUS
    <3>3. d = [gen |-> w.gen, sent |-> TRUE]
      <4>1. PICK x : c = [gen |-> w.gen, sent |-> x]
        BY <1>2, <3>1
      <4> QED
        BY <3>2, <4>1
    <3>4. d = [gen |-> w.gen, sent |-> d.sent]
      BY <3>3
    <3>5. calls' \subseteq calls \cup {d}
      BY <3>1, <3>2 DEF RoundTrip_, CallEnds
    <3>6. w.state \in Listening
      BY <1>1, <3>1 DEF ServiceInv
    <3> QED
      BY <1>2, <3>4, <3>5, <3>6
  <2> QED
    BY <2>1, <2>2
<1>5. expired' = FALSE
  <2>1. Usable => w.leaf # 0 /\ w.sess # 0
    BY <1>1, <1>2 DEF Usable, WorkerSound
  <2> QED
    BY <1>1, <2>1 DEF ServiceInv, protect, RoundTrip_, CallEnds
<1>6. EndSound'
  BY <1>3 DEF ServiceInv, EndSound
<1> QED
  BY <1>1, <1>2, <1>3, <1>4, <1>5, <1>6, WorkerKept DEF ServiceInv

\* Every step of the service preserves the invariant.
LEMMA ServiceStep == ServiceInv /\ [ServiceNext]_serviceVars => ServiceInv'
<1> SUFFICES ASSUME ServiceInv, [ServiceNext]_serviceVars
             PROVE  ServiceInv'
  OBVIOUS
<1>1. CASE UNCHANGED serviceVars
  BY <1>1 DEF serviceVars, ServiceInv, EndSound, WorkerSound
<1> QED
  BY <1>1, AroundKept, DaemonKept, RenewalKept, CallsKept DEF ServiceNext

\* A store that cannot be loaded: nothing but the daemon's own exit touches an idle worker.
LEMMA BadStoreStep ==
  ASSUME ServiceInv, [ServiceNext]_serviceVars, lock # 0, lock' = lock, ~saved.ok, control = Idle_, ending = Running_,
         ending'.phase = "no"
  PROVE  control' = Idle_ /\ profileWorker'.state = profileWorker.state
<1>1. CASE SessionOver \/ Installed_ \/ (\E left \in 1..SessionTicks : Issue(left)) \/ ServiceTick
  <2>1. PICK w : w = profileWorker
    OBVIOUS
  <2>2. w = [gen |-> w.gen, state |-> w.state, leaf |-> w.leaf, expiry |-> w.expiry, sess |-> w.sess, renew |-> w.renew, late |-> w.late]
    BY <2>1 DEF ServiceInv, WorkerSound
  <2>3. profileWorker'.state = w.state
    BY <1>1, <2>1, <2>2 DEF SessionOver, Installed_, Issue, Install, ServiceTick
  <2>4. control' = control
    BY <1>1 DEF SessionOver, Installed_, Issue, ServiceTick
  <2> QED
    BY <2>1, <2>3, <2>4
<1>r. ending.phase = "no" /\ ending.signalled = FALSE /\ control.step = "idle"
  BY DEF Running_, Idle_
<1>2. ~(Run \/ Reload \/ Drain \/ Load \/ ExitDrained \/ LockReleased \/ CancelNoticed \/ DaemonCrash)
  BY <1>r DEF Run, Reload, Valid, Drain, Load, ExitDrained, LockReleased, CancelNoticed, DaemonCrash, ServiceInv
<1>6. ~ExitBegins
  <2> SUFFICES ASSUME ExitBegins PROVE FALSE
    OBVIOUS
  <2>1. ending' = [ending EXCEPT !.phase = "awaiting"]
    BY DEF ExitBegins
  <2>2. ending'.phase = "awaiting"
    BY <2>1 DEF Running_
  <2> QED
    BY <2>2
<1>3. CASE protect \/ \E c \in calls : RoundTrip_(c) \/ CallEnds(c)
  BY <1>3 DEF protect, RoundTrip_, CallEnds
<1>4. CASE Save \/ Break \/ Bootout \/ InstallStart \/ InstallStopped \/ InstallCopy \/ Bootstrap
  BY <1>4 DEF Save, Break, Bootout, InstallStart, InstallStopped, InstallCopy, Bootstrap
<1>5. CASE UNCHANGED serviceVars
  BY <1>5 DEF serviceVars
<1> QED
  BY <1>1, <1>2, <1>3, <1>4, <1>5, <1>6 DEF ServiceNext

\* The invariant gives the state properties of the run.
LEMMA ServiceImplies == ServiceInv => ServiceTypeOK /\ OldIdentityGone /\ NoExpiredCredential /\ ReplacedWhenStopped
<1> SUFFICES ASSUME ServiceInv
             PROVE  ServiceTypeOK /\ OldIdentityGone /\ NoExpiredCredential /\ ReplacedWhenStopped
  OBVIOUS
<1>1. ServiceTypeOK
  BY DEF ServiceInv, EndSound, WorkerSound, ServiceTypeOK, Listening
<1>2. OldIdentityGone
  BY DEF ServiceInv, OldIdentityGone
<1> QED
  BY <1>1, <1>2 DEF ServiceInv, NoExpiredCredential, ReplacedWhenStopped

\* Through reloads, renewals, crashes, its own end, which a reload may overtake, and replacements of its
\* binary the background service acts under one current identity at a time, and a store it cannot load
\* changes nothing (internal/adapterservice, for any number of generations and calls and any length of session).
THEOREM ServiceIsHonest == ServiceSpec => ServiceHonest
<1>1. ServiceInit => ServiceInv
  BY ServiceInitially
<1>2. ServiceInv /\ [ServiceNext]_serviceVars => ServiceInv'
  BY ServiceStep
<1>3. ServiceInv => ServiceTypeOK /\ OldIdentityGone /\ NoExpiredCredential /\ ReplacedWhenStopped
  BY ServiceImplies
<1>4. ServiceInv /\ [ServiceNext]_serviceVars
        => [lock # 0 /\ lock' = lock /\ ~saved.ok /\ control = Idle_ /\ ending = Running_ /\ ending'.phase = "no"
              => control' = Idle_ /\ profileWorker'.state = profileWorker.state]_serviceVars
  BY BadStoreStep
<1> QED
  BY <1>1, <1>2, <1>3, <1>4, PTL DEF ServiceSpec, ServiceHonest, BadStoreKeepsProfiles

-----------------------------------------------------------------------------
\* The builders of an update.

BuilderPlaces == {"waiting", "turn", "building", "built", "pushing", "done"}
\* Until the first error, an image is in the registry for good, was pushed, or still has its goroutine.
Progressing ==
    builds.phase = "running" /\ builds.err = FALSE =>
        \A i \in Images : \/ i \in registry /\ Commits[i] = "none"
                         \/ i \in builds.published
                         \/ builder[i].at # "done"
BuildInv ==
    /\ builds = [phase |-> builds.phase, todo |-> builds.todo, err |-> builds.err, published |-> builds.published]
    /\ builder \in [Images -> [at : BuilderPlaces, attempt : Nat]]
    /\ Progressing
    /\ ImagesBeforeRollout
    /\ BuildersBounded

\* A goroutine that moves leaves the others where they are, and what it holds with it.
LEMMA HoldingKept ==
  ASSUME BuildInv, NEW i \in Images, NEW b \in [at : BuilderPlaces, attempt : Nat], builder' = [builder EXCEPT ![i] = b],
         b.at \in {"waiting", "done"} \/ i \in HoldingPlace \/ Cardinality(HoldingPlace) < Parallelism
  PROVE  Cardinality(HoldingPlace') <= Parallelism
<1>1. \A j \in Images : j # i => builder'[j] = builder[j]
  BY DEF BuildInv
<1>2. builder'[i] = b
  BY DEF BuildInv
<1>3. HoldingPlace' \subseteq HoldingPlace \cup {i} /\ (b.at \in {"waiting", "done"} => HoldingPlace' \subseteq HoldingPlace)
  BY <1>1, <1>2 DEF HoldingPlace
<1>4. IsFiniteSet(HoldingPlace) /\ IsFiniteSet(HoldingPlace \cup {i})
  <2>1. HoldingPlace \subseteq Images /\ HoldingPlace \cup {i} \subseteq Images
    BY DEF HoldingPlace
  <2> QED
    BY <2>1, FS_Subset, BuildAssumption
<1>5. Cardinality(HoldingPlace \cup {i}) \in Nat /\ Cardinality(HoldingPlace) \in Nat /\ Cardinality(HoldingPlace') \in Nat
  BY <1>3, <1>4, FS_CardinalityType, FS_Subset
<1>6. Cardinality(HoldingPlace) <= Parallelism
  BY DEF BuildInv, BuildersBounded
<1>7. CASE HoldingPlace' \subseteq HoldingPlace
  <2>1. Cardinality(HoldingPlace') <= Cardinality(HoldingPlace)
    BY <1>4, <1>7, FS_Subset
  <2> QED
    BY <1>5, <1>6, <2>1, BuildAssumption
<1>8. CASE Cardinality(HoldingPlace) < Parallelism
  <2>1. Cardinality(HoldingPlace') <= Cardinality(HoldingPlace \cup {i})
    BY <1>3, <1>4, FS_Subset
  <2>2. Cardinality(HoldingPlace \cup {i}) <= Cardinality(HoldingPlace) + 1
    BY <1>4, <1>5, FS_AddElement
  <2> QED
    BY <1>5, <1>8, <2>1, <2>2, BuildAssumption
<1> QED
  BY <1>3, <1>7, <1>8

\* Before the first image nothing is built, pushed or rolled out.
LEMMA BuildInitially == BuildInit => BuildInv
<1> SUFFICES ASSUME BuildInit PROVE BuildInv
  OBVIOUS
<1>1. HoldingPlace = {} /\ builder \in [Images -> [at : BuilderPlaces, attempt : Nat]] /\ \A i \in Images : builder[i].at = "done"
  BY DEF BuildInit, Done, HoldingPlace, BuilderPlaces
<1>2. Cardinality(HoldingPlace) <= Parallelism
  BY <1>1, FS_EmptySet, BuildAssumption
<1> QED
  BY <1>1, <1>2 DEF BuildInit, BuildInv, NoBuilds, Progressing, ImagesBeforeRollout, BuildersBounded

\* The command plans, waits for its goroutines, and returns.
LEMMA CommandKept ==
  ASSUME BuildInv, StartBuilds \/ EndBuilds \/ ReturnBuilds
  PROVE  BuildInv'
<1>1. PICK b : b = builds
  OBVIOUS
<1>2. b = [phase |-> b.phase, todo |-> b.todo, err |-> b.err, published |-> b.published]
  BY <1>1 DEF BuildInv
<1>3. CASE StartBuilds
  <2>1. \A i \in Images : builder[i].at = "done"
    BY <1>3 DEF StartBuilds, BuildInv, BuildersBounded
  <2>2. CASE \E p \in {"probeFailed", "refused"} : builds' = [NoBuilds EXCEPT !.phase = p] /\ UNCHANGED builder
    <3>1. builds'.phase \in {"probeFailed", "refused"} /\ builds'.published = {}
          /\ builds' = [phase |-> builds'.phase, todo |-> builds'.todo, err |-> builds'.err, published |-> builds'.published]
      BY <2>2 DEF NoBuilds
    <3>2. UNCHANGED <<builder, registry>> /\ UNCHANGED HoldingPlace
      BY <1>3, <2>2 DEF StartBuilds, HoldingPlace
    <3> QED
      BY <2>1, <3>1, <3>2 DEF BuildInv, Progressing, ImagesBeforeRollout, BuildersBounded
  <2>3. CASE /\ builds' = [NoBuilds EXCEPT !.phase = "running", !.todo = planImageBuilds]
             /\ builder' = [i \in Images |-> IF i \in planImageBuilds THEN [at |-> "waiting", attempt |-> 0] ELSE Done]
    <3>1. builds'.phase = "running" /\ builds'.published = {}
          /\ builds' = [phase |-> builds'.phase, todo |-> builds'.todo, err |-> builds'.err, published |-> builds'.published]
      BY <2>3 DEF NoBuilds
    <3>2. builder' \in [Images -> [at : BuilderPlaces, attempt : Nat]]
      BY <2>3 DEF Done, BuilderPlaces
    <3>3. registry' = registry
      BY <1>3 DEF StartBuilds
    <3>4. \A i \in Images : (i \in registry' /\ Commits[i] = "none") \/ builder'[i].at # "done"
      BY <2>3, <3>3 DEF planImageBuilds
    <3>5. \A i \in Images : builder'[i].at \in {"waiting", "done"}
      BY <2>3 DEF Done
    <3>6. HoldingPlace' = {}
      BY <3>5 DEF HoldingPlace
    <3>7. Cardinality(HoldingPlace') <= Parallelism
      BY <3>6, FS_EmptySet, BuildAssumption
    <3> QED
      BY <3>1, <3>2, <3>4, <3>7 DEF BuildInv, Progressing, ImagesBeforeRollout, BuildersBounded
  <2> QED
    BY <1>3, <2>2, <2>3 DEF StartBuilds
<1>4. CASE EndBuilds
  <2>1. PICK p : p = IF b.err THEN "failed" ELSE "ready"
    OBVIOUS
  <2>2. PICK y : y = [b EXCEPT !.phase = p]
    OBVIOUS
  <2>3. y = [phase |-> p, todo |-> b.todo, err |-> b.err, published |-> b.published]
    BY <1>2, <2>2
  <2>4. builds' = y /\ UNCHANGED <<builder, registry>> /\ UNCHANGED HoldingPlace
    BY <1>1, <1>4, <2>1, <2>2 DEF EndBuilds, HoldingPlace
  <2>5. \A i \in Images : builder[i].at = "done"
    BY <1>4 DEF EndBuilds
  <2>6. p # "running" /\ b.phase = "running" /\ b.published \subseteq registry
    BY <1>1, <1>4, <2>1 DEF EndBuilds, BuildInv, BuildersBounded
  <2>7. p = "ready" => Images \subseteq registry /\ \A i \in Images : Commits[i] # "none" => i \in b.published
    BY <1>1, <2>1, <2>5, <2>6 DEF BuildInv, Progressing
  <2> QED
    BY <1>1, <2>3, <2>4, <2>5, <2>6, <2>7 DEF BuildInv, Progressing, ImagesBeforeRollout, BuildersBounded
<1>5. CASE ReturnBuilds
  <2>1. UNCHANGED <<builder, registry>> /\ UNCHANGED HoldingPlace /\ builds' = NoBuilds
    BY <1>5 DEF ReturnBuilds, HoldingPlace
  <2>2. \A i \in Images : builder[i].at = "done"
    BY <1>5 DEF ReturnBuilds, BuildInv, BuildersBounded
  <2> QED
    BY <2>1, <2>2 DEF NoBuilds, BuildInv, Progressing, ImagesBeforeRollout, BuildersBounded
<1> QED
  BY <1>3, <1>4, <1>5

\* A goroutine takes its place, builds, tries again, pushes, fails or is cancelled.
LEMMA BuilderKept ==
  ASSUME BuildInv, NEW i \in Images, BuilderStep(i)
  PROVE  BuildInv'
<1>1. PICK b : b = builds
  OBVIOUS
<1>2. b = [phase |-> b.phase, todo |-> b.todo, err |-> b.err, published |-> b.published] /\ b.published \subseteq registry
  BY <1>1 DEF BuildInv, BuildersBounded
<1>3. PICK g : g = builder[i]
  OBVIOUS
<1>4. g \in [at : BuilderPlaces, attempt : Nat] /\ b.phase = "running" /\ g.at # "done"
  <2>1. g \in [at : BuilderPlaces, attempt : Nat] /\ g.at # "done"
    BY <1>3 DEF BuilderStep, TakePlace, BeginAttempt, EndAttempt, BeginPush, EndPush, BuildInv
  <2> QED
    BY <1>1, <1>3, <2>1 DEF BuildInv, BuildersBounded
<1>5. \A where \in BuilderPlaces : [g EXCEPT !.at = where] \in [at : BuilderPlaces, attempt : Nat]
                                   /\ [g EXCEPT !.at = where].at = where
  BY <1>4
<1>6. \A where : BuilderAt(i, where) => builder' = [builder EXCEPT ![i] = [g EXCEPT !.at = where]]
  BY <1>3 DEF BuilderAt
<1>7. g.at \in {"turn", "building", "built", "pushing"} => i \in HoldingPlace
  BY <1>3 DEF HoldingPlace
\* Where it stands next, and what the command then knows.
<1>8. PICK h \in [at : BuilderPlaces, attempt : Nat] :
         /\ builder' = [builder EXCEPT ![i] = h]
         /\ h.at \in {"waiting", "done"} \/ i \in HoldingPlace \/ Cardinality(HoldingPlace) < Parallelism
         /\ h.at = "done" => b.err # FALSE \/ builds'.err # FALSE \/ i \in builds'.published
         /\ registry \subseteq registry'
         /\ builds' = b \/ (builds' = [b EXCEPT !.err = TRUE]) \/ (i \in registry' /\ builds' = [b EXCEPT !.published = @ \cup {i}])
  <2>1. CASE TakePlace(i)
    BY <1>1, <1>5, <1>6, <2>1 DEF TakePlace, BuildCancelled, BuilderPlaces
  <2>2. CASE BeginAttempt(i)
    <3>1. i \in HoldingPlace /\ UNCHANGED <<registry, builds>>
      BY <1>3, <1>7, <2>2 DEF BeginAttempt
    <3>2. CASE BuildCancelled
      BY <1>1, <1>5, <1>6, <2>2, <3>1, <3>2 DEF BeginAttempt, BuildCancelled, BuilderPlaces
    <3>3. CASE ~BuildCancelled
      <4>1. PICK h : h = [at |-> "building", attempt |-> g.attempt + 1]
        OBVIOUS
      <4>2. h \in [at : BuilderPlaces, attempt : Nat] /\ h.at = "building"
        BY <1>4, <4>1 DEF BuilderPlaces
      <4>3. builder' = [builder EXCEPT ![i] = h]
        BY <1>3, <2>2, <3>3, <4>1 DEF BeginAttempt
      <4> QED
        BY <1>1, <3>1, <4>2, <4>3
    <3> QED
      BY <3>2, <3>3
  <2>3. CASE EndAttempt(i)
    <3>1. i \in HoldingPlace /\ registry' = registry
      BY <1>3, <1>7, <2>3 DEF EndAttempt
    <3>2. CASE recordErr(i)
      <4>1. builds' = [b EXCEPT !.err = TRUE] /\ BuilderAt(i, "done")
        BY <1>1, <3>2 DEF recordErr
      <4>2. builds'.err = TRUE
        BY <1>2, <4>1
      <4> QED
        BY <1>5, <1>6, <3>1, <4>1, <4>2 DEF BuilderPlaces
    <3>3. CASE \E where \in {"built", "turn"} : BuilderAt(i, where) /\ UNCHANGED builds
      BY ZenonT(40), <1>1, <1>5, <1>6, <3>1, <3>3 DEF BuilderPlaces
    <3> QED
      BY <2>3, <3>2, <3>3 DEF EndAttempt
  <2>4. CASE BeginPush(i)
    <3>1. i \in HoldingPlace /\ UNCHANGED <<registry, builds>>
      BY <1>3, <1>7, <2>4 DEF BeginPush
    <3>2. PICK where : where = (IF BuildCancelled THEN "done" ELSE "pushing")
      OBVIOUS
    <3>3. BuilderAt(i, where) /\ where \in {"done", "pushing"} /\ (where = "done" => b.err # FALSE)
      BY <1>1, <2>4, <3>2 DEF BeginPush, BuildCancelled
    <3> QED
      BY ZenonT(40), <1>1, <1>5, <1>6, <3>1, <3>3 DEF BuilderPlaces
  <2>5. CASE EndPush(i)
    <3>1. i \in HoldingPlace /\ registry \subseteq registry' /\ BuilderAt(i, "done")
      BY <1>3, <1>7, <2>5 DEF EndPush, recordErr
    <3>2. CASE recordErr(i)
      <4>1. builds' = [b EXCEPT !.err = TRUE]
        BY <1>1, <3>2 DEF recordErr
      <4>2. builds'.err = TRUE
        BY <1>2, <4>1
      <4> QED
        BY <1>5, <1>6, <3>1, <4>1, <4>2 DEF BuilderPlaces
    <3>3. CASE registry' = registry \cup {i} /\ builds' = [builds EXCEPT !.published = @ \cup {i}]
      <4>1. builds' = [b EXCEPT !.published = @ \cup {i}] /\ i \in registry'
        BY <1>1, <3>3
      <4>2. i \in builds'.published
        BY <1>2, <4>1
      <4> QED
        BY <1>5, <1>6, <3>1, <4>1, <4>2 DEF BuilderPlaces
    <3> QED
      BY <2>5, <3>2, <3>3 DEF EndPush
  <2> QED
    BY <2>1, <2>2, <2>3, <2>4, <2>5 DEF BuilderStep
<1>9. builds' = [phase |-> b.phase, todo |-> b.todo, err |-> builds'.err, published |-> builds'.published]
      /\ b.published \subseteq builds'.published /\ builds'.published \subseteq registry' /\ (b.err = FALSE \/ builds'.err = b.err \/ builds'.err = TRUE)
      /\ (builds'.err = FALSE => b.err = FALSE)
  <2>1. CASE builds' = b
    BY <1>2, <1>8, <2>1
  <2>2. CASE builds' = [b EXCEPT !.err = TRUE]
    <3>1. builds' = [phase |-> b.phase, todo |-> b.todo, err |-> TRUE, published |-> b.published]
      BY <1>2, <2>2
    <3> QED
      BY <1>2, <1>8, <3>1
  <2>3. CASE i \in registry' /\ builds' = [b EXCEPT !.published = @ \cup {i}]
    <3>1. builds' = [phase |-> b.phase, todo |-> b.todo, err |-> b.err, published |-> b.published \cup {i}]
      BY <1>2, <2>3
    <3> QED
      BY <1>2, <1>8, <2>3, <3>1
  <2> QED
    BY <1>8, <2>1, <2>2, <2>3
<1>10. builder' \in [Images -> [at : BuilderPlaces, attempt : Nat]] /\ builder'[i] = h
       /\ \A j \in Images : j # i => builder'[j] = builder[j]
  BY <1>8 DEF BuildInv
<1>11. Cardinality(HoldingPlace') <= Parallelism
  BY <1>8, HoldingKept
<1>12. Progressing'
  BY <1>1, <1>4, <1>8, <1>9, <1>10 DEF BuildInv, Progressing
<1> QED
  BY <1>4, <1>9, <1>10, <1>11, <1>12 DEF BuildInv, ImagesBeforeRollout, BuildersBounded

\* The command reaches the cluster only with every image in the registry, those that name a commit built
\* from it by this very command, never more goroutines than places, and none left behind
\* (internal/cli/update, for any set of images, number of places and retries).
THEOREM BuildersAreSound == BuildSpec => []BuildersSound
<1>1. BuildInit => BuildInv
  BY BuildInitially
<1>2. BuildInv /\ [BuildNext]_buildVars => BuildInv'
  <2> SUFFICES ASSUME BuildInv, [BuildNext]_buildVars
               PROVE  BuildInv'
    OBVIOUS
  <2>1. CASE UNCHANGED buildVars
    BY <2>1 DEF buildVars, BuildInv, Progressing, ImagesBeforeRollout, BuildersBounded, HoldingPlace
  <2> QED
    BY <2>1, CommandKept, BuilderKept DEF BuildNext
<1>3. BuildInv => BuildersSound
  BY DEF BuildInv, BuildersSound
<1> QED
  BY <1>1, <1>2, <1>3, PTL DEF BuildSpec

-----------------------------------------------------------------------------
\* The update of an installed platform.

ConfigNames == ToSet(ConfigMaps)
PlanType == [crds : BOOLEAN, objects : BOOLEAN, namespaces : BOOLEAN, config : SUBSET ConfigNames, rows : SUBSET Workloads]
CmdType == [phase : Phases, opts : Options, plan : PlanType, at : 0..Len(Order), touched : Seq(Workloads),
            status : [Workloads -> Statuses], before : [Workloads -> Template], saved : Seq(ConfigNames),
            failed : BOOLEAN, seen : 0..MaxEdits]
PodType == [template : Template, config : SUBSET ConfigNames]
ObjsType == [crds : BOOLEAN, account : BOOLEAN, binding : {"old", "absent", "release"},
             namespaces : {"absent", "foreign", "release"}, config : SUBSET ConfigNames]
UpdateTyped ==
    /\ deploy \in [Workloads -> Template] /\ pods \in [Workloads -> PodType]
    /\ objs \in ObjsType /\ cmd \in CmdType /\ settled \in BOOLEAN /\ edits \in 0..MaxEdits

\* The phases, by how far the command is.
Early == {"plan", "confirm", "build", "crds", "objects", "binding", "namespaces", "config"}
Rolling == {"workloads", "wait"}
Undoing == {"rollback", "rollbackWait"}
Planned == Phases \ {"idle", "plan"}
Forwards == {"confirm", "build", "crds", "objects", "binding", "namespaces", "config", "workloads", "wait"}

DealtWith(w) == \E k \in DOMAIN Order : k <= cmd.at /\ Order[k] = w
Full == cmd.phase \in Planned /\ ~ Scoped(cmd.opts)

\* What a plan leaves out is there, what it holds is there after its phase, and none of it goes away again
\* but the ConfigMaps of an update that failed.
Provided ==
    /\ Full /\ (cmd.plan.crds = FALSE \/ cmd.phase \notin {"confirm", "build", "crds"}) => objs.crds = TRUE
    /\ Full /\ (cmd.plan.objects = FALSE \/ cmd.phase \notin {"confirm", "build", "crds", "objects"}) => objs.account = TRUE
    /\ Full /\ (cmd.plan.objects = FALSE \/ cmd.phase \notin {"confirm", "build", "crds", "objects", "binding"})
         => objs.binding = "release"
    /\ Full /\ (cmd.plan.namespaces = FALSE \/ cmd.phase \in {"config", "restore"} \cup Rolling \cup Undoing)
         => objs.namespaces = "release"
    /\ Full /\ cmd.phase \in Forwards => ConfigNames \subseteq objs.config \cup cmd.plan.config
    /\ Full /\ cmd.phase \in Rolling => ConfigNames \subseteq objs.config
    /\ cmd.touched # <<>> /\ ~ Scoped(cmd.opts) =>
         /\ objs.crds = TRUE /\ objs.account = TRUE /\ objs.binding = "release" /\ objs.namespaces = "release"
         /\ ConfigNames \subseteq objs.config
    /\ cmd.phase = "restore" => cmd.touched = <<>>

\* No template names a ServiceAccount that is not there, and none that may be written again will.
Accounts ==
    /\ \A w \in Workloads : deploy[w].wired = TRUE => objs.account = TRUE
    /\ cmd.phase \in Planned => \A w \in Workloads : cmd.before[w].wired = TRUE => objs.account = TRUE
    /\ cmd.phase \in Planned /\ Scoped(cmd.opts) => \A w \in cmd.plan.rows : w \in Wired => objs.account = TRUE

\* The report so far: nothing before the Deployments; then the rows in catalog order, each touched once; then
\* the touched ones from the last.
NotBegun == cmd.phase \in Early =>
    cmd.touched = <<>> /\ cmd.at = 0 /\ cmd.failed = FALSE /\ \A w \in Workloads : cmd.status[w] = "not-attempted"
Touched(w) == \E i \in DOMAIN cmd.touched : cmd.touched[i] = w
InOrder ==
    /\ cmd.phase \in Rolling =>
         /\ cmd.failed = FALSE
         /\ \A w \in Workloads : /\ cmd.status[w] \in {"not-attempted", "skipped", "updated"}
                                 /\ cmd.status[w] # "not-attempted" => DealtWith(w)
                                 /\ cmd.status[w] = "updated" => Touched(w)
    /\ cmd.phase = "workloads" => \A w \in Workloads : Touched(w) => cmd.status[w] = "updated"
    /\ cmd.phase = "wait" => /\ More /\ cmd.touched # <<>> /\ Last(cmd.touched) = Current
                             /\ \A w \in Workloads : Touched(w) => cmd.status[w] = "updated" \/ w = Current
InReverse ==
    /\ cmd.phase \in Undoing =>
         \A w \in Workloads : /\ cmd.status[w] = "updated" => Touched(w)
                              /\ Touched(w) => cmd.status[w] \in {"updated", "failed"}
    /\ cmd.phase = "rollbackWait" => cmd.touched # <<>> /\ deploy[Last(cmd.touched)] = Backward(Last(cmd.touched))
    /\ cmd.phase = "restore" \/ (cmd.phase = "idle" /\ cmd.failed = TRUE /\ cmd.opts.rollback = TRUE) =>
         \A w \in Workloads : cmd.status[w] # "updated"
Reported == NotBegun /\ InOrder /\ InReverse /\ IsInjective(cmd.touched)

\* What the report says so far is so.
Truthful ==
    \A w \in Workloads :
        /\ cmd.status[w] = "updated" /\ (cmd.phase = "rollbackWait" => w # Last(cmd.touched)) =>
             deploy[w].image = Target /\ pods[w].template = deploy[w]
        /\ cmd.status[w] = "rolled-back" => Restored(w)

\* The Deployment has what a full plan of this release asks for.
Released(w) ==
    /\ deploy[w].image = Target /\ deploy[w].env = "literal"
    /\ (w \in Wired => deploy[w].wired = TRUE) /\ (w \in Dependents => deploy[w].hash = TRUE)

\* A plan that nobody has interfered with changes the rows that differ, one after the other, and a settled
\* installation has no plan.
Settling ==
    /\ cmd.seen <= edits
    /\ cmd.phase \in Planned => settled = FALSE
    /\ cmd.phase \in Forwards /\ ~ Scoped(cmd.opts) /\ cmd.seen = edits =>
         \A w \in Workloads : w \notin cmd.plan.rows \/ DealtWith(w) => Released(w)
    /\ cmd.phase = "wait" => deploy[Current] = Forward(Current)
    /\ settled = TRUE => /\ objs.crds = TRUE /\ objs.account = TRUE /\ objs.binding = "release" /\ objs.namespaces = "release"
                         /\ ConfigNames \subseteq objs.config /\ \A w \in Workloads : Released(w)

UpdateInv == UpdateTyped /\ Provided /\ Accounts /\ Reported /\ Truthful /\ Settling

\* The idle command, the installed templates and the default options are of their types.
LEMMA UpdateConstants ==
    /\ Idle \in CmdType /\ Idle.phase = "idle" /\ Idle.opts = NoOptions /\ Idle.touched = <<>> /\ Idle.at = 0 /\ Idle.failed = FALSE
    /\ Idle.seen = 0 /\ \A w \in Workloads : Idle.status[w] = "not-attempted"
    /\ \A w \in Workloads : Installed(w) \in Template /\ Installed(w).wired = FALSE
    /\ NoOptions \in Options /\ NoOptions.only = {} /\ NoOptions.rollback = FALSE
<1>1. \A w \in Workloads : Installed(w) \in Template /\ Installed(w).wired = FALSE
  BY UpdateAssumption DEF Installed, Template
<1>2. NoOptions \in Options /\ NoOptions.only = {} /\ NoOptions.rollback = FALSE
  BY DEF NoOptions, Options
<1>3. NoPlan \in PlanType
  BY DEF NoPlan, PlanType
<1>4. <<>> \in Seq(Workloads) /\ <<>> \in Seq(ConfigNames) /\ Len(Order) \in Nat
  BY UpdateAssumption
<1>5. [w \in Workloads |-> "not-attempted"] \in [Workloads -> Statuses]
  BY DEF Statuses
<1>6. [w \in Workloads |-> Installed(w)] \in [Workloads -> Template]
  BY <1>1
<1>7. Idle \in CmdType
  BY <1>2, <1>3, <1>4, <1>5, <1>6, UpdateAssumption DEF Idle, CmdType, Phases
<1> QED
  BY <1>1, <1>2, <1>7 DEF Idle

\* A set of naturals that is not empty has a least element.
LEMMA LeastPlace == ASSUME NEW P \in SUBSET Nat, P # {} PROVE Min(P) \in P /\ \A k \in P : Min(P) <= k
<1>1. PICK x \in P : \A y \in P : ~ (<<y, x>> \in OpToRel(<, Nat))
  BY NatLessThanWellFounded, WFMin
<1>2. OpToRel(<, Nat) = {p \in Nat \X Nat : p[1] < p[2]}
  BY Zenon DEF OpToRel
<1>3. \A y \in P : x <= y
  <2> SUFFICES ASSUME NEW y \in P, ~ (x <= y) PROVE FALSE
    OBVIOUS
  <2>1. <<y, x>> \in Nat \X Nat /\ y < x
    OBVIOUS
  <2> QED
    BY <2>1, <1>1, <1>2
<1> QED
  BY <1>3 DEF Min

\* The rows are dealt with in catalog order: the current one is the first that is left, and going on to its
\* place leaves behind it and rows that do not change.
LEMMA NextRow ==
  ASSUME UpdateTyped, More
  PROVE  /\ Min(Todo) \in DOMAIN Order /\ Min(Todo) \in 0..Len(Order) /\ Current \in Workloads /\ Current \in cmd.plan.rows
         /\ cmd.at < Min(Todo) /\ ~ DealtWith(Current)
         /\ \A w \in Workloads : (\E k \in DOMAIN Order : k <= Min(Todo) /\ Order[k] = w) => DealtWith(w) \/ w \notin cmd.plan.rows \/ w = Current
<1>1. DOMAIN Order = 1..Len(Order) /\ Len(Order) \in Nat /\ \A i, j \in DOMAIN Order : Order[i] = Order[j] => i = j
  BY UpdateAssumption DEF IsInjective
<1>2. Todo \in SUBSET Nat /\ cmd.at \in Nat
  BY <1>1 DEF Todo, UpdateTyped, CmdType
<1>3. Min(Todo) \in Todo /\ \A k \in Todo : Min(Todo) <= k
  BY <1>2, LeastPlace DEF More
<1>4. Min(Todo) \in DOMAIN Order /\ cmd.at < Min(Todo) /\ Current \in cmd.plan.rows /\ Current \in Workloads
  BY <1>3 DEF Todo, Current, Workloads, ToSet
<1>5. ~ DealtWith(Current)
  BY <1>1, <1>2, <1>4 DEF DealtWith, Current
<1>6. \A k \in DOMAIN Order : k <= Min(Todo) => k <= cmd.at \/ Order[k] \notin cmd.plan.rows \/ k = Min(Todo)
  <2> SUFFICES ASSUME NEW k \in DOMAIN Order, k <= Min(Todo), ~ (k <= cmd.at), Order[k] \in cmd.plan.rows PROVE k = Min(Todo)
    OBVIOUS
  <2>1. k \in Nat /\ Min(Todo) \in Nat
    <3>1. k \in Nat
      BY <1>1
    <3> QED
      BY <1>2, <1>3, <3>1
  <2>2. k \in Todo
    BY <1>2, <2>1 DEF Todo
  <2> QED
    BY <1>3, <2>1, <2>2
<1> QED
  BY <1>1, <1>4, <1>5, <1>6 DEF DealtWith, Current

\* When no row is left to do, every row of the plan has been dealt with.
LEMMA LastRow == ASSUME ~ More, NEW w \in Workloads, w \in cmd.plan.rows, UpdateTyped PROVE DealtWith(w)
<1>1. PICK k \in DOMAIN Order : Order[k] = w
  BY DEF Workloads, ToSet
<1>2. DOMAIN Order = 1..Len(Order) /\ Len(Order) \in Nat /\ cmd.at \in Nat
  BY UpdateAssumption DEF UpdateTyped, CmdType
<1>3. k <= cmd.at
  BY <1>1, <1>2 DEF More, Todo
<1> QED
  BY <1>1, <1>3 DEF DealtWith

\* The touched Deployments: one more at the end, one less.
LEMMA TouchOne ==
  ASSUME NEW t \in Seq(Workloads), IsInjective(t), NEW w \in Workloads, \A i \in DOMAIN t : t[i] # w
  PROVE  /\ Append(t, w) \in Seq(Workloads) /\ IsInjective(Append(t, w)) /\ Append(t, w) # <<>> /\ Last(Append(t, w)) = w
         /\ \A x \in Workloads : (\E i \in DOMAIN Append(t, w) : Append(t, w)[i] = x) <=> (\E i \in DOMAIN t : t[i] = x) \/ x = w
<1> DEFINE u == Append(t, w)
<1>1. u \in Seq(Workloads) /\ Len(u) = Len(t) + 1 /\ u[Len(u)] = w /\ Len(t) \in Nat
  OBVIOUS
<1>2. \A i \in 1..Len(t) : u[i] = t[i]
  OBVIOUS
<1>3. DOMAIN u = 1..(Len(t) + 1) /\ DOMAIN t = 1..Len(t)
  BY <1>1
<1> HIDE DEF u
<1>4. \A i \in DOMAIN u : (i \in DOMAIN t /\ u[i] = t[i]) \/ (u[i] = w /\ i = Len(u))
  BY <1>1, <1>2, <1>3
<1>5. IsInjective(u)
  BY <1>1, <1>3, <1>4 DEF IsInjective
<1>6. \A i \in DOMAIN t : i \in DOMAIN u /\ u[i] = t[i]
  BY <1>1, <1>2, <1>3
<1>7. Len(u) \in DOMAIN u /\ u # <<>>
  BY <1>1, <1>3
<1>8. \A x \in Workloads : (\E i \in DOMAIN u : u[i] = x) <=> (\E i \in DOMAIN t : t[i] = x) \/ x = w
  BY <1>1, <1>4, <1>6, <1>7
<1> QED
  BY <1>1, <1>5, <1>7, <1>8 DEF u, Last

\* Without its last element the list of touched Deployments still has each of the others once.
LEMMA DropLast ==
  ASSUME NEW t \in Seq(Workloads), IsInjective(t), t # <<>>
  PROVE  /\ Front(t) \in Seq(Workloads) /\ IsInjective(Front(t)) /\ Last(t) \in Workloads /\ \E i \in DOMAIN t : t[i] = Last(t)
         /\ \A x \in Workloads : (\E i \in DOMAIN Front(t) : Front(t)[i] = x) <=> (\E i \in DOMAIN t : t[i] = x) /\ x # Last(t)
<1> DEFINE u == Front(t)
<1>1. Len(t) \in Nat /\ Len(t) > 0 /\ DOMAIN t = 1..Len(t)
  BY EmptySeq
<1>2. u \in Seq(Workloads) /\ Len(u) = Len(t) - 1 /\ \A i \in 1..Len(u) : u[i] = t[i]
  BY <1>1 DEF Front
<1>3. DOMAIN u = 1..(Len(t) - 1) /\ Last(t) = t[Len(t)] /\ Last(t) \in Workloads
  BY <1>1, <1>2 DEF Last
<1> HIDE DEF u
<1>4. \A i \in DOMAIN u : i \in DOMAIN t /\ u[i] = t[i] /\ t[i] # Last(t)
  BY <1>1, <1>2, <1>3 DEF IsInjective
<1>5. IsInjective(u)
  BY <1>4 DEF IsInjective
<1>6. \A i \in DOMAIN t : i \in DOMAIN u \/ t[i] = Last(t)
  BY <1>1, <1>3
<1>7. \A x \in Workloads : (\E i \in DOMAIN u : u[i] = x) <=> (\E i \in DOMAIN t : t[i] = x) /\ x # Last(t)
  BY <1>4, <1>6
<1> QED
  BY <1>1, <1>2, <1>3, <1>5, <1>7 DEF u

\* What most steps leave alone.
SameCommand == cmd'.opts = cmd.opts /\ cmd'.plan = cmd.plan /\ cmd'.before = cmd.before /\ cmd'.seen = cmd.seen
SameRows == cmd'.at = cmd.at /\ cmd'.touched = cmd.touched /\ cmd'.status = cmd.status
ObjsGrow ==
    /\ objs.crds = TRUE => objs'.crds = TRUE
    /\ objs.account = TRUE => objs'.account = TRUE
    /\ objs.binding = "release" => objs'.binding = "release"
    /\ objs.namespaces = "release" => objs'.namespaces = "release"

\* A command that ends, or starts, before it has changed anything: the report is empty.
LEMMA EmptyReport ==
  ASSUME UpdateInv, cmd' \in CmdType, cmd'.phase \in {"idle", "plan"}, cmd'.touched = <<>>, cmd'.at = 0, cmd'.failed = FALSE, cmd'.seen = 0,
         \A w \in Workloads : cmd'.status[w] = "not-attempted", UNCHANGED <<cluster, settled, edits>>
  PROVE  UpdateInv'
<1> USE DEF UpdateInv, cluster
<1>1. UpdateTyped' /\ edits \in Nat
  BY UpdateAssumption DEF UpdateTyped
<1>2. Provided' /\ Accounts'
  BY DEF Provided, Accounts, Full, Planned, Forwards, Rolling
<1>3. Reported'
  BY DEF Reported, NotBegun, InOrder, InReverse, Early, Rolling, Undoing, IsInjective
<1>4. Truthful'
  BY DEF Truthful
<1>5. Settling'
  BY <1>1 DEF Settling, Planned, Forwards, Released
<1> QED
  BY <1>1, <1>2, <1>3, <1>4, <1>5

\* A command is started.
LEMMA StartingKept == ASSUME UpdateInv, NEW o \in Options, StartUpdate(o) PROVE UpdateInv'
<1> USE UpdateConstants
<1>1. cmd' = [Idle EXCEPT !.phase = "plan", !.opts = o] /\ UNCHANGED <<cluster, settled, edits>>
  BY DEF StartUpdate
<1>2. cmd' \in CmdType /\ cmd'.phase = "plan" /\ cmd'.touched = <<>> /\ cmd'.at = 0 /\ cmd'.failed = FALSE /\ cmd'.seen = 0 /\ cmd'.status = Idle.status
  <2> HIDE DEF Idle
  <2> QED
    BY <1>1 DEF CmdType, Phases
<1> QED
  BY <1>1, <1>2, EmptyReport

\* Back to an idle command: nothing to do, a refusal, a dry run, the process killed.
LEMMA IdleKept == ASSUME UpdateInv, cmd' = Idle, UNCHANGED <<cluster, settled, edits>> PROVE UpdateInv'
  BY EmptyReport, UpdateConstants

\* A command that has not come to the Deployments goes on, or fails.
LEMMA EarlyMove ==
  ASSUME UpdateInv, UpdateTyped', Provided', cmd.phase \in Early \ {"plan"}, SameCommand, SameRows, ObjsGrow,
         \/ cmd'.phase \in (Early \ {"plan"}) \cup {"workloads"} /\ cmd'.failed = FALSE
         \/ cmd'.phase \in {"idle", "restore"},
         UNCHANGED <<deploy, pods, edits, settled>>
  PROVE  UpdateInv'
<1> USE DEF UpdateInv, SameCommand, SameRows, ObjsGrow
<1>1. cmd.touched = <<>> /\ cmd.at = 0 /\ (\A w \in Workloads : cmd.status[w] = "not-attempted") /\ cmd.phase \in Planned /\ cmd.phase \in Forwards
  BY DEF Reported, NotBegun, Early, Planned, Forwards, Phases
<1>2. Accounts'
  BY <1>1 DEF Accounts, Planned
<1>3. Reported'
  BY <1>1 DEF Reported, NotBegun, InOrder, InReverse, Early, Rolling, Undoing, IsInjective, Touched
<1>4. Truthful'
  BY <1>1 DEF Truthful
<1>5. Settling'
  BY <1>1 DEF Settling, Forwards, Early, Released, DealtWith
<1> QED
  BY <1>2, <1>3, <1>4, <1>5

\* A new phase, failed or not, and nothing else.
LEMMA PhaseSet ==
  ASSUME cmd \in CmdType, NEW q \in Phases, NEW f \in BOOLEAN, cmd' = [cmd EXCEPT !.phase = q, !.failed = f]
  PROVE  cmd' \in CmdType /\ cmd'.phase = q /\ cmd'.failed = f /\ cmd'.saved = cmd.saved /\ SameCommand /\ SameRows
BY DEF CmdType, SameCommand, SameRows

\* A command that goes on keeps its plan, its rows and its outcome.
LEMMA GoneTo == ASSUME cmd \in CmdType, NEW q \in Phases, Go(q)
                PROVE  cmd' \in CmdType /\ cmd'.phase = q /\ cmd'.failed = cmd.failed /\ cmd'.saved = cmd.saved /\ SameCommand /\ SameRows
BY DEF CmdType, Go, SameCommand, SameRows

\* A command that ends in failure is idle and keeps its plan and its rows.
LEMMA FailedEnd == ASSUME cmd \in CmdType, EndFailed
                   PROVE  cmd' \in CmdType /\ cmd'.phase = "idle" /\ cmd'.failed = TRUE /\ SameCommand /\ SameRows
BY PhaseSet DEF EndFailed, Phases

\* The plan is made against the Deployments of the moment.
LEMMA PlanningKept == ASSUME UpdateInv, NEW dryRun \in BOOLEAN, NEW allowDowngrade \in BOOLEAN, PlanUpdate(dryRun, allowDowngrade) PROVE UpdateInv'
<1> DEFINE p == BuildPlan(cmd.opts)
<1> USE DEF UpdateInv
<1>1. cmd.phase = "plan" /\ UNCHANGED <<cluster, settled, edits>> /\ ~ Blocked(cmd.opts, allowDowngrade) /\ cmd \in CmdType
  BY DEF PlanUpdate, UpdateTyped
<1>2. cmd' = Idle \/ (NeedsApply(p) /\ cmd' = [cmd EXCEPT !.phase = "confirm", !.plan = p, !.before = deploy, !.seen = edits])
  BY DEF PlanUpdate
<1>3. SUFFICES ASSUME NeedsApply(p), cmd' = [cmd EXCEPT !.phase = "confirm", !.plan = p, !.before = deploy, !.seen = edits] PROVE UpdateInv'
  BY <1>1, <1>2, IdleKept
<1>4. p \in PlanType
  BY DEF BuildPlan, CRDPlan, ObjectPlan, NamespacePlan, ConfigPlan, PlanType, ConfigNames
<1>5. /\ p.crds = (~ Scoped(cmd.opts) /\ ~ objs.crds) /\ p.objects = (~ Scoped(cmd.opts) /\ (~ objs.account \/ objs.binding # "release"))
      /\ p.namespaces = (~ Scoped(cmd.opts) /\ objs.namespaces # "release")
      /\ p.config = (IF Scoped(cmd.opts) THEN {} ELSE ConfigNames \ objs.config)
      /\ p.rows = {w \in Workloads : Changes(cmd.opts, w)}
  BY DEF BuildPlan, CRDPlan, ObjectPlan, NamespacePlan, ConfigPlan, ConfigNames
<1> HIDE DEF p
<1>6. /\ cmd' \in CmdType /\ cmd'.phase = "confirm" /\ cmd'.plan = p /\ cmd'.before = deploy /\ cmd'.seen = edits
      /\ cmd'.opts = cmd.opts /\ cmd'.failed = cmd.failed /\ SameRows
  BY <1>1, <1>3, <1>4 DEF UpdateTyped, CmdType, Phases, SameRows
<1>7. cmd.touched = <<>> /\ cmd.at = 0 /\ cmd.failed = FALSE /\ \A w \in Workloads : cmd.status[w] = "not-attempted"
  BY <1>1 DEF Reported, NotBegun, Early
<1>8. UNCHANGED <<deploy, pods, objs, settled, edits>> /\ objs \in ObjsType
  BY <1>1 DEF cluster, UpdateTyped
<1>9. UpdateTyped'
  BY <1>6, <1>8 DEF UpdateTyped
<1>10. Provided'
  BY <1>5, <1>6, <1>7, <1>8 DEF Provided, Full, Forwards, Rolling, Undoing, SameRows, ObjsType
<1>11. Accounts'
  <2>1. \A w \in p.rows : w \in Wired /\ Scoped(cmd.opts) => deploy[w].wired \/ objs.account
    BY <1>1, <1>5 DEF Blocked, AccountBlocked
  <2>2. \A w \in p.rows : w \in Workloads /\ deploy[w].wired \in BOOLEAN
    BY <1>5 DEF UpdateTyped, Template
  <2> QED
    BY <1>6, <1>8, <2>1, <2>2 DEF Accounts, ObjsType
<1>12. Reported'
  BY <1>6, <1>7 DEF Reported, NotBegun, InOrder, InReverse, Early, Rolling, Undoing, IsInjective, SameRows
<1>13. Truthful'
  BY <1>6, <1>7 DEF Truthful, SameRows
<1>14. Settling'
  <2>1. \A w \in Workloads : Released(w) \/ (~ Scoped(cmd.opts) => Changes(cmd.opts, w))
    BY DEF Released, Changes, Selected, WiringDrift, HashDrift, UpdateTyped, Template
  <2>2. \A w \in Workloads : ~ DealtWith(w)'
    BY <1>6, <1>7, UpdateAssumption DEF DealtWith, SameRows
  <2>3. settled = FALSE
    <3>1. SUFFICES ASSUME settled = TRUE PROVE FALSE
      BY DEF UpdateTyped
    <3>2. \A w \in Workloads : ~ Changes(cmd.opts, w)
      BY <3>1 DEF Settling, Released, Changes, WiringDrift, HashDrift, UpdateTyped, Template
    <3> QED
      BY <1>3, <1>5, <3>1, <3>2 DEF Settling, NeedsApply, ObjsType
  <2> QED
    <3>1. \A w \in Workloads : Released(w)' <=> Released(w)
      BY <1>8 DEF Released
    <3>2. edits \in Nat
      BY UpdateAssumption DEF UpdateTyped
    <3> QED
      <4>1. settled' = FALSE /\ cmd'.seen <= edits' /\ cmd'.phase # "wait"
        BY <1>6, <1>8, <2>3, <3>2
      <4>2. ~ Scoped(cmd'.opts) => \A w \in Workloads : w \notin cmd'.plan.rows => Released(w)'
        BY <1>5, <1>6, <2>1, <3>1
      <4> QED
        BY <2>2, <4>1, <4>2 DEF Settling
<1> QED
  BY <1>9, <1>10, <1>11, <1>12, <1>13, <1>14

\* The steps before the Deployments.
LEMMA PreparingKept == ASSUME UpdateInv, Confirm \/ BuildImages \/ PlanFails \/ Kill PROVE UpdateInv'
<1> USE DEF UpdateInv
<1>1. CASE cmd' = Idle
  BY <1>1, IdleKept DEF Confirm, BuildImages, PlanFails, Kill
<1>2. CASE cmd' # Idle
  <2>1. PICK q \in {"build", "crds"} : cmd' = [cmd EXCEPT !.phase = q]
    BY <1>2 DEF Confirm, BuildImages, PlanFails, Kill
  <2>2. /\ cmd.phase \in {"confirm", "build"} /\ cmd \in CmdType
        /\ UNCHANGED <<cluster, settled, edits>>
    BY <1>2 DEF Confirm, BuildImages, PlanFails, Kill, UpdateTyped
  <2>3. cmd' \in CmdType /\ cmd'.phase = q /\ cmd'.failed = cmd.failed /\ SameCommand /\ SameRows
    BY <2>1, <2>2, GoneTo DEF Go, Phases
  <2>4. cmd.failed = FALSE
    BY <2>2 DEF Reported, NotBegun, Early
  <2>5. UpdateTyped' /\ ObjsGrow
    BY <2>2, <2>3 DEF UpdateTyped, cluster, ObjsGrow
  <2>6. Provided'
    BY <2>2, <2>3 DEF Provided, Full, Planned, Phases, Forwards, Rolling, Undoing, cluster, SameCommand, SameRows
  <2> QED
    BY <2>2, <2>3, <2>4, <2>5, <2>6, EarlyMove DEF Early, cluster
<1> QED
  BY <1>1, <1>2

\* What comes before the Deployments is applied: definitions, objects, bindings, namespaces, ConfigMaps.
LEMMA ApplyingKept == ASSUME UpdateInv, ApplyStep PROVE UpdateInv'
<1> USE DEF UpdateInv
<1>1. /\ cmd.phase \in {"crds", "objects", "binding", "namespaces", "config"} /\ UNCHANGED <<deploy, pods, settled, edits>>
      /\ cmd \in CmdType /\ objs \in ObjsType /\ cmd.plan \in PlanType
  BY DEF ApplyStep, ApplyCRDs, ApplyPlatformObjects, ReplaceBinding, ApplyCatalogNamespaces, ApplyConfigMaps, UpdateTyped, CmdType
<1>2. cmd.failed = FALSE /\ cmd.touched = <<>>
  BY <1>1 DEF Reported, NotBegun, Early
<1>3. SUFFICES /\ objs' \in ObjsType /\ ObjsGrow /\ cmd' \in CmdType /\ SameCommand /\ SameRows /\ Provided'
               /\ \/ cmd'.phase \in (Early \ {"plan"}) \cup {"workloads"} /\ cmd'.failed = FALSE
                  \/ cmd'.phase \in {"idle", "restore"}
  <2>1. UpdateTyped'
    BY <1>1, <1>3 DEF UpdateTyped
  <2> QED
    BY <1>1, <1>3, <2>1, EarlyMove DEF Early
<1>4. CASE objs' = objs /\ EndFailed
  <2>1. cmd' \in CmdType /\ cmd'.phase = "idle" /\ SameCommand /\ SameRows
    BY <1>1, <1>4, FailedEnd
  <2> QED
    BY <1>1, <1>2, <1>4, <2>1 DEF Provided, Full, Planned, ObjsGrow, Forwards, Rolling, Undoing, SameRows
<1> DEFINE Next(a, b) == cmd.phase = a /\ Go(b)
<1>5. CASE ApplyCRDs
  <2>1. \/ Next("crds", "objects") /\ objs' = [objs EXCEPT !.crds = @ \/ cmd.plan.crds]
        \/ EndFailed /\ objs' \in {objs, [objs EXCEPT !.crds = TRUE]}
    BY <1>5 DEF ApplyCRDs
  <2>2. objs' \in ObjsType /\ ObjsGrow /\ objs'.account = objs.account /\ objs'.binding = objs.binding /\ objs'.namespaces = objs.namespaces
        /\ objs'.config = objs.config
    BY <1>1, <2>1 DEF ObjsType, PlanType, ObjsGrow
  <2>3. CASE EndFailed
    <3>1. cmd' \in CmdType /\ cmd'.phase = "idle" /\ SameCommand /\ SameRows
      BY <1>1, <2>3, FailedEnd
    <3> QED
      BY <1>2, <2>2, <3>1 DEF Provided, Full, Planned, Forwards, Rolling, Undoing, SameRows
  <2>4. CASE Next("crds", "objects") /\ objs' = [objs EXCEPT !.crds = @ \/ cmd.plan.crds]
    <3>1. cmd' \in CmdType /\ cmd'.phase = "objects" /\ cmd'.failed = FALSE /\ SameCommand /\ SameRows
      BY <1>1, <1>2, <2>4, GoneTo DEF Phases
    <3>2. objs'.crds = (objs.crds \/ cmd.plan.crds) /\ cmd.phase = "crds"
      BY <1>1, <2>4 DEF ObjsType
    <3>3. Provided'
      BY <1>1, <1>2, <2>2, <3>1, <3>2 DEF Provided, Full, Planned, Phases, Forwards, Rolling, Undoing, SameCommand, SameRows, ObjsType, PlanType
    <3> QED
      BY <2>2, <3>1, <3>3 DEF Early
  <2> QED
    BY <2>1, <2>3, <2>4
<1>6. CASE ApplyPlatformObjects
  <2>1. SUFFICES ASSUME Next("objects", "binding"), objs' = [objs EXCEPT !.account = @ \/ cmd.plan.objects]
                 PROVE objs' \in ObjsType /\ ObjsGrow /\ cmd' \in CmdType /\ SameCommand /\ SameRows /\ Provided' /\ cmd'.phase = "binding" /\ cmd'.failed = FALSE
    BY <1>4, <1>6 DEF ApplyPlatformObjects, Early
  <2>2. objs' \in ObjsType /\ ObjsGrow /\ objs'.crds = objs.crds /\ objs'.binding = objs.binding /\ objs'.namespaces = objs.namespaces
        /\ objs'.config = objs.config /\ objs'.account = (objs.account \/ cmd.plan.objects) /\ cmd.phase = "objects"
    BY <1>1, <2>1 DEF ObjsType, PlanType, ObjsGrow
  <2>3. cmd' \in CmdType /\ cmd'.phase = "binding" /\ cmd'.failed = FALSE /\ SameCommand /\ SameRows
    BY <1>1, <1>2, <2>1, GoneTo DEF Phases
  <2>4. Provided'
    BY <1>1, <1>2, <2>2, <2>3 DEF Provided, Full, Planned, Phases, Forwards, Rolling, Undoing, SameCommand, SameRows, ObjsType, PlanType
  <2> QED
    BY <2>2, <2>3, <2>4
<1>7. CASE ReplaceBinding
  <2>1. cmd.phase = "binding" /\ (UNCHANGED objs \/ (UNCHANGED cmd /\ objs.binding # "release" /\ \E b \in {"absent", "release"} : objs' = [objs EXCEPT !.binding = b]))
    BY <1>7 DEF ReplaceBinding
  <2>2. objs' \in ObjsType /\ ObjsGrow /\ objs'.crds = objs.crds /\ objs'.account = objs.account /\ objs'.namespaces = objs.namespaces
        /\ objs'.config = objs.config
    BY <1>1, <2>1 DEF ObjsType, ObjsGrow
  <2>3. CASE UNCHANGED cmd
    <3>1. cmd' \in CmdType /\ SameCommand /\ SameRows
      BY <1>1, <2>3 DEF SameCommand, SameRows
    <3>2. Provided'
      BY <1>2, <2>1, <2>2, <2>3 DEF Provided, Full, Planned, Phases, Forwards, Rolling, Undoing, ObjsGrow
    <3> QED
      BY <1>1, <1>2, <2>2, <2>3, <3>1, <3>2 DEF Early
  <2>4. CASE Go("namespaces") /\ UNCHANGED objs /\ (~ cmd.plan.objects \/ objs.binding = "release")
    <3>1. cmd' \in CmdType /\ cmd'.phase = "namespaces" /\ cmd'.failed = FALSE /\ SameCommand /\ SameRows
      BY <1>1, <1>2, <2>4, GoneTo DEF Phases
    <3>2. Provided'
      BY <1>1, <1>2, <2>1, <2>4, <3>1 DEF Provided, Full, Planned, Phases, Forwards, Rolling, Undoing, SameCommand, SameRows, PlanType
    <3> QED
      BY <2>2, <3>1, <3>2 DEF Early
  <2> QED
    BY <1>4, <1>7, <2>3, <2>4 DEF ReplaceBinding
<1>8. CASE ApplyCatalogNamespaces
  <2>1. SUFFICES ASSUME Next("namespaces", "config"),
                        \/ ~ cmd.plan.namespaces /\ objs' = objs
                        \/ cmd.plan.namespaces /\ objs' = [objs EXCEPT !.namespaces = "release"]
                 PROVE objs' \in ObjsType /\ ObjsGrow /\ cmd' \in CmdType /\ SameCommand /\ SameRows /\ Provided' /\ cmd'.phase = "config" /\ cmd'.failed = FALSE
    BY <1>4, <1>8 DEF ApplyCatalogNamespaces, Early
  <2>2. objs' \in ObjsType /\ ObjsGrow /\ objs'.crds = objs.crds /\ objs'.binding = objs.binding /\ objs'.account = objs.account
        /\ objs'.config = objs.config /\ (cmd.plan.namespaces = FALSE \/ objs'.namespaces = "release") /\ cmd.phase = "namespaces"
    BY <1>1, <2>1 DEF ObjsType, PlanType, ObjsGrow
  <2>3. cmd' \in CmdType /\ cmd'.phase = "config" /\ cmd'.failed = FALSE /\ SameCommand /\ SameRows
    BY <1>1, <1>2, <2>1, GoneTo DEF Phases
  <2>4. Provided'
    BY <1>1, <1>2, <2>2, <2>3 DEF Provided, Full, Planned, Phases, Forwards, Rolling, Undoing, SameCommand, SameRows, ObjsGrow
  <2> QED
    BY <2>2, <2>3, <2>4
<1>9. CASE ApplyConfigMaps
  <2> DEFINE todo == {i \in DOMAIN ConfigMaps : ConfigMaps[i] \in cmd.plan.config \ objs.config}
             next == ConfigMaps[Min(todo)]
  <2>1. /\ cmd.phase = "config"
        /\ \/ todo = {} /\ Go("workloads") /\ UNCHANGED objs
           \/ todo # {} /\ objs' = [objs EXCEPT !.config = @ \cup {next}] /\ cmd' = [cmd EXCEPT !.saved = Append(@, next)]
           \/ UNCHANGED objs /\ cmd' = [cmd EXCEPT !.failed = TRUE, !.phase = IF cmd.opts.rollback THEN "restore" ELSE "idle"]
    BY <1>9 DEF ApplyConfigMaps
  <2>2. todo # {} => next \in ConfigNames
    <3>1. todo \in SUBSET Nat
      BY UpdateAssumption
    <3> QED
      BY <3>1, LeastPlace DEF ConfigNames, ToSet
  <2>3. todo = {} => cmd.plan.config \subseteq objs.config
    BY <1>1 DEF PlanType, ConfigNames, ToSet
  <2> HIDE DEF todo, next
  <2>4. CASE todo = {} /\ Go("workloads") /\ UNCHANGED objs
    <3>1. cmd' \in CmdType /\ cmd'.phase = "workloads" /\ cmd'.failed = FALSE /\ SameCommand /\ SameRows
      BY <1>1, <1>2, <2>4, GoneTo DEF Phases
    <3>2. Provided'
      BY <1>1, <1>2, <2>1, <2>3, <2>4, <3>1 DEF Provided, Full, Planned, Phases, Forwards, Rolling, Undoing, SameCommand, SameRows
    <3> QED
      BY <1>1, <2>4, <3>1, <3>2 DEF ObjsGrow
  <2>5. CASE todo # {} /\ objs' = [objs EXCEPT !.config = @ \cup {next}] /\ cmd' = [cmd EXCEPT !.saved = Append(@, next)]
    <3>1. cmd' \in CmdType /\ cmd'.phase = cmd.phase /\ cmd'.failed = FALSE /\ SameCommand /\ SameRows
      <4>1. cmd.saved \in Seq(ConfigNames)
        BY <1>1 DEF CmdType
      <4>2. Append(cmd.saved, next) \in Seq(ConfigNames)
        BY <2>2, <2>5, <4>1
      <4> QED
        BY <1>1, <1>2, <2>5, <4>2 DEF CmdType, SameCommand, SameRows
    <3>2. objs' \in ObjsType /\ ObjsGrow /\ objs'.crds = objs.crds /\ objs'.binding = objs.binding /\ objs'.account = objs.account
          /\ objs'.namespaces = objs.namespaces /\ objs.config \subseteq objs'.config
      BY <1>1, <2>2, <2>5 DEF ObjsType, ObjsGrow
    <3>3. Provided'
      BY <1>1, <1>2, <2>1, <3>1, <3>2 DEF Provided, Full, Planned, Phases, Forwards, Rolling, Undoing, SameCommand, SameRows
    <3> QED
      BY <2>1, <3>1, <3>2, <3>3 DEF Early
  <2>6. CASE UNCHANGED objs /\ cmd' = [cmd EXCEPT !.failed = TRUE, !.phase = IF cmd.opts.rollback THEN "restore" ELSE "idle"]
    <3>1. PICK q \in {"restore", "idle"} : cmd' = [cmd EXCEPT !.phase = q, !.failed = TRUE]
      BY <2>6 DEF CmdType
    <3>2. cmd' \in CmdType /\ cmd'.phase = q /\ SameCommand /\ SameRows
      BY <1>1, <3>1, PhaseSet DEF Phases
    <3>3. Provided'
      BY <1>1, <1>2, <2>1, <2>6, <3>2 DEF Provided, Full, Planned, Phases, Forwards, Rolling, Undoing, SameCommand, SameRows
    <3> QED
      BY <1>1, <2>6, <3>2, <3>3 DEF ObjsGrow
  <2> QED
    BY <2>1, <2>4, <2>5, <2>6
<1> QED
  BY <1>5, <1>6, <1>7, <1>8, <1>9 DEF ApplyStep

-----------------------------------------------------------------------------
\* The Deployments, forwards.

\* The release's objects stay, and so does what rests on them.
LEMMA ObjectsStay ==
  ASSUME UpdateInv, cmd.phase \in Rolling \cup Undoing \cup {"restore"}, SameCommand, ObjsGrow,
         cmd'.phase \in Undoing \cup {"restore", "idle"} \/ (cmd.phase \in Rolling /\ cmd'.phase \in Rolling /\ UNCHANGED objs),
         cmd.touched = <<>> => cmd'.touched = <<>> \/ cmd.phase \in Rolling,
         cmd.phase # "restore" => objs'.config = objs.config, cmd'.phase = "restore" => cmd'.touched = <<>>,
         cmd.phase = "restore" => cmd'.touched = <<>>,
         \A w \in Workloads : deploy'[w].wired = TRUE => deploy[w].wired = TRUE \/ cmd.before[w].wired = TRUE \/ (w \in Wired /\ w \in cmd.plan.rows /\ cmd.phase \in Rolling)
  PROVE  Provided' /\ Accounts'
<1> USE DEF UpdateInv, SameCommand, ObjsGrow
<1>1. ~ Scoped(cmd.opts) => objs.crds = TRUE /\ objs.account = TRUE /\ objs.binding = "release" /\ objs.namespaces = "release"
  BY DEF Provided, Full, Planned, Phases, Rolling, Undoing
<1>2. Provided'
  BY <1>1 DEF Provided, Full, Planned, Phases, Forwards, Rolling, Undoing
<1>3. Accounts'
  BY <1>1 DEF Accounts, Planned, Phases, Rolling, Undoing
<1> QED
  BY <1>2, <1>3

\* In the middle of the rows: where the current one stands.
LEMMA AtRow ==
  ASSUME UpdateInv, cmd.phase = "workloads", More
  PROVE  /\ Current \in Workloads /\ Current \in cmd.plan.rows /\ Min(Todo) \in 0..Len(Order) /\ ~ DealtWith(Current)
         /\ cmd.status[Current] = "not-attempted" /\ ~ Touched(Current) /\ cmd \in CmdType
<1>1. cmd \in CmdType /\ Current \in Workloads /\ Current \in cmd.plan.rows /\ Min(Todo) \in 0..Len(Order) /\ ~ DealtWith(Current)
  BY NextRow DEF UpdateInv, UpdateTyped
<1>2. cmd.status[Current] = "not-attempted"
  BY <1>1 DEF UpdateInv, Reported, InOrder, Rolling
<1> QED
  BY <1>1, <1>2 DEF UpdateInv, Reported, InOrder

\* Going on to the next row.
LEMMA RowDone ==
  ASSUME UpdateTyped, More, SameCommand, cmd'.at = Min(Todo), NEW w \in Workloads
  PROVE  /\ DealtWith(w)' => DealtWith(w) \/ w \notin cmd.plan.rows \/ w = Current
         /\ DealtWith(w) \/ w = Current => DealtWith(w)'
<1>1. /\ Min(Todo) \in DOMAIN Order /\ cmd.at < Min(Todo) /\ Min(Todo) \in Nat /\ cmd.at \in Nat
      /\ (\E k \in DOMAIN Order : k <= Min(Todo) /\ Order[k] = w) => DealtWith(w) \/ w \notin cmd.plan.rows \/ w = Current
  BY NextRow, UpdateAssumption DEF UpdateTyped, CmdType
<1>2. DOMAIN Order \in SUBSET Nat
  BY UpdateAssumption
<1>3. (\E k \in DOMAIN Order : k <= Min(Todo) /\ Order[k] = w) <=> DealtWith(w)'
  BY DEF DealtWith
<1>4. DealtWith(w) \/ w = Current => \E k \in DOMAIN Order : k <= Min(Todo) /\ Order[k] = w
  BY <1>1, <1>2 DEF DealtWith, Current
<1> QED
  BY <1>1, <1>3, <1>4

\* A row that needs no patch is reported as it is found.
LEMMA SkippingKept == ASSUME UpdateInv, SkipWorkload PROVE UpdateInv'
<1> USE DEF UpdateInv
<1>1. cmd.phase = "workloads" /\ More /\ AlreadyCurrent(Current) /\ UNCHANGED <<deploy, pods, objs, settled, edits>>
  BY DEF SkipWorkload, cluster
<1>2. cmd' = [cmd EXCEPT !.at = Min(Todo), !.status[Current] = "skipped"]
  BY DEF SkipWorkload
<1>3. /\ Current \in Workloads /\ Current \in cmd.plan.rows /\ Min(Todo) \in 0..Len(Order) /\ ~ DealtWith(Current)
      /\ cmd.status[Current] = "not-attempted" /\ ~ Touched(Current) /\ cmd \in CmdType
  BY <1>1, AtRow
<1> HIDE DEF UpdateInv
<1>4. /\ cmd' \in CmdType /\ cmd'.at = Min(Todo) /\ cmd'.status = [cmd.status EXCEPT ![Current] = "skipped"] /\ SameCommand
      /\ cmd'.phase = "workloads" /\ cmd'.failed = cmd.failed /\ cmd'.touched = cmd.touched
  BY <1>1, <1>2, <1>3 DEF CmdType, SameCommand, Statuses
<1> USE DEF UpdateInv
<1>5. cmd'.status[Current] = "skipped" /\ \A w \in Workloads \ {Current} : cmd'.status[w] = cmd.status[w]
  BY <1>3, <1>4 DEF CmdType
<1>6. UpdateTyped'
  BY <1>1, <1>4 DEF UpdateTyped
<1>7. Provided' /\ Accounts'
  BY <1>1, <1>4, ObjectsStay DEF ObjsGrow, Rolling
<1>8. \A w \in Workloads : /\ DealtWith(w)' => DealtWith(w) \/ w \notin cmd.plan.rows \/ w = Current
                           /\ DealtWith(w) \/ w = Current => DealtWith(w)'
  BY <1>1, <1>4, RowDone
<1>9. Reported'
  <2>1. NotBegun' /\ InReverse' /\ IsInjective(cmd'.touched)
    BY <1>1, <1>4 DEF Reported, NotBegun, InReverse, Early, Undoing
  <2>2. \A w \in Workloads : Touched(w)' <=> Touched(w)
    BY <1>4 DEF Touched
  <2>3. InOrder'
    BY <1>1, <1>3, <1>4, <1>5, <1>8, <2>2 DEF Reported, InOrder, Rolling
  <2> QED
    BY <2>1, <2>3 DEF Reported
<1>10. Truthful'
  BY <1>1, <1>4, <1>5 DEF Truthful, Restored, SameCommand
<1>11. Settling'
  <2>1. \A w \in Workloads : Released(w)' <=> Released(w)
    BY <1>1 DEF Released
  <2>2. ~ Scoped(cmd.opts) => Released(Current)
    BY <1>1, <1>3 DEF AlreadyCurrent, Forward, Released, UpdateTyped, Template
  <2> QED
    BY <1>1, <1>4, <1>8, <2>1, <2>2 DEF Settling, SameCommand, Forwards, Planned, Phases
<1> QED
  BY <1>6, <1>7, <1>9, <1>10, <1>11

\* A row that fails ends the way forwards.
LEMMA RowFails ==
  ASSUME UpdateInv, cmd.phase \in Rolling, NEW w \in Workloads, SameCommand, cmd' \in CmdType,
         cmd'.phase = (IF cmd.opts.rollback THEN "rollback" ELSE "idle"), cmd'.failed = TRUE, cmd'.at = cmd.at,
         cmd'.status = [cmd.status EXCEPT ![w] = "failed"], UNCHANGED <<deploy, pods, objs, settled, edits>>,
         IsInjective(cmd'.touched),
         \A x \in Workloads : Touched(x) => Touched(x)',
         \A x \in Workloads : Touched(x)' => x = w \/ cmd.status[x] = "updated"
  PROVE  UpdateInv'
<1> USE DEF UpdateInv
<1>1. cmd'.status[w] = "failed" /\ \A x \in Workloads \ {w} : cmd'.status[x] = cmd.status[x]
  BY DEF UpdateTyped, CmdType
<1>2. UpdateTyped'
  BY DEF UpdateTyped
<1>3. Provided' /\ Accounts'
  <2>1. cmd'.phase \in Undoing \cup {"idle"}
    BY DEF Undoing
  <2>2. cmd'.phase # "restore" /\ cmd.phase # "restore"
    BY DEF Rolling
  <2> QED
    BY <2>1, <2>2, ObjectsStay DEF ObjsGrow
<1>4. Reported'
  <2>1. NotBegun' /\ InOrder'
    BY DEF NotBegun, InOrder, Early, Rolling
  <2>2. InReverse'
    <3>1. \A x \in Workloads : cmd'.status[x] = "updated" => Touched(x)'
      BY <1>1 DEF Reported, InOrder
    <3>2. cmd'.phase # "restore" /\ cmd'.phase # "rollbackWait" /\ (cmd'.phase = "idle" => cmd'.opts.rollback # TRUE)
      BY DEF SameCommand
    <3>3. \A x \in Workloads : Touched(x)' => cmd'.status[x] \in {"updated", "failed"}
      BY <1>1
    <3> QED
      BY <3>1, <3>2, <3>3 DEF InReverse
  <2> QED
    BY <2>1, <2>2 DEF Reported
<1>5. Truthful'
  <2>1. cmd.phase # "rollbackWait"
    BY DEF Rolling
  <2> QED
    BY <1>1, <2>1 DEF Truthful, Restored, SameCommand
<1>6. Settling'
  <2>1. cmd'.phase \notin Forwards /\ cmd'.phase # "wait" /\ settled = FALSE
    BY DEF Settling, Forwards, Rolling, Planned, Phases, UpdateTyped
  <2> QED
    BY <2>1 DEF Settling, SameCommand
<1> QED
  BY <1>2, <1>3, <1>4, <1>5, <1>6

\* A Deployment that cannot be read ends the rows.
LEMMA UnreadableKept == ASSUME UpdateInv, ReadFails PROVE UpdateInv'
<1>1. cmd.phase = "workloads" /\ More /\ UNCHANGED <<deploy, pods, objs, settled, edits>> /\ cmd.phase \in Rolling
  BY DEF ReadFails, cluster, Rolling
<1>2. /\ Current \in Workloads /\ cmd.status[Current] = "not-attempted" /\ ~ Touched(Current) /\ cmd \in CmdType
  BY <1>1, AtRow
<1>3. PICK q \in Phases : q = (IF cmd.opts.rollback THEN "rollback" ELSE "idle")
  BY DEF Phases
<1>4. cmd' = [cmd EXCEPT !.phase = q, !.failed = TRUE, !.status[Current] = "failed"]
  BY <1>3 DEF ReadFails, WorkloadFails
<1>5. /\ cmd' \in CmdType /\ cmd'.phase = q /\ cmd'.failed = TRUE /\ cmd'.at = cmd.at /\ cmd'.touched = cmd.touched /\ SameCommand
      /\ cmd'.status = [cmd.status EXCEPT ![Current] = "failed"]
  BY <1>2, <1>4 DEF CmdType, SameCommand, Statuses
<1>6. \A x \in Workloads : (Touched(x)' <=> Touched(x)) /\ (Touched(x) => cmd.status[x] = "updated")
  BY <1>1, <1>5 DEF Touched, UpdateInv, Reported, InOrder
<1>7. IsInjective(cmd'.touched)
  BY <1>5 DEF UpdateInv, Reported
<1> QED
  BY <1>1, <1>2, <1>3, <1>5, <1>6, <1>7, RowFails

\* What the forward patch writes is what the release asks for, and writing it again changes nothing.
LEMMA ForwardReleased ==
  ASSUME UpdateTyped, NEW w \in Workloads, deploy' = [deploy EXCEPT ![w] = Forward(w)], SameCommand
  PROVE  /\ Forward(w) \in Template /\ deploy' \in [Workloads -> Template] /\ deploy'[w] = Forward(w) /\ Forward(w)' = Forward(w)
         /\ \A x \in Workloads \ {w} : deploy'[x] = deploy[x]
         /\ ~ Scoped(cmd.opts) => Released(w)'
         /\ deploy'[w].wired = TRUE => deploy[w].wired = TRUE \/ w \in Wired
<1>1. deploy[w] \in Template /\ deploy \in [Workloads -> Template]
  BY DEF UpdateTyped
<1>2. Forward(w) \in Template
  BY <1>1, UpdateAssumption DEF Forward, Template
<1>3. deploy' \in [Workloads -> Template] /\ deploy'[w] = Forward(w) /\ \A x \in Workloads \ {w} : deploy'[x] = deploy[x]
  BY <1>1, <1>2
<1>4. Forward(w)' = Forward(w)
  BY <1>1, <1>3 DEF Forward, SameCommand, Template
<1>5. ~ Scoped(cmd.opts) => Released(w)'
  BY <1>1, <1>3 DEF Forward, Released, Template
<1>6. deploy'[w].wired = TRUE => deploy[w].wired = TRUE \/ w \in Wired
  BY <1>1, <1>3 DEF Forward, Template
<1> QED
  BY <1>2, <1>3, <1>4, <1>5, <1>6

\* A Deployment is patched and joins those to be rolled back.
LEMMA PatchingKept == ASSUME UpdateInv, PatchWorkload PROVE UpdateInv'
<1> DEFINE t == Append(cmd.touched, Current)
<1> USE DEF UpdateInv
<1>1. cmd.phase = "workloads" /\ More /\ UNCHANGED <<pods, objs, settled, edits>> /\ cmd.phase \in Rolling
  BY DEF PatchWorkload, Rolling
<1>2. /\ Current \in Workloads /\ Current \in cmd.plan.rows /\ ~ DealtWith(Current)
      /\ cmd.status[Current] = "not-attempted" /\ ~ Touched(Current) /\ cmd \in CmdType
  BY <1>1, AtRow
<1>3. \/ deploy' = [deploy EXCEPT ![Current] = Forward(Current)] /\ cmd' = [cmd EXCEPT !.phase = "wait", !.touched = t]
      \/ UNCHANGED deploy /\ cmd' = [WorkloadFails(Current) EXCEPT !.touched = t]
  BY DEF PatchWorkload
<1>4. cmd.touched \in Seq(Workloads) /\ IsInjective(cmd.touched) /\ \A i \in DOMAIN cmd.touched : cmd.touched[i] # Current
  BY <1>2 DEF CmdType, Reported, Touched
<1>5. t \in Seq(Workloads) /\ IsInjective(t) /\ t # <<>> /\ Last(t) = Current
      /\ \A x \in Workloads : (\E i \in DOMAIN t : t[i] = x) <=> Touched(x) \/ x = Current
  BY <1>2, <1>4, TouchOne DEF Touched
<1>6. \A x \in Workloads : Touched(x) => cmd.status[x] = "updated"
  BY <1>1 DEF Reported, InOrder
<1> HIDE DEF t
<1>7. CASE UNCHANGED deploy /\ cmd' = [WorkloadFails(Current) EXCEPT !.touched = t]
  <2>1. PICK q \in Phases : q = (IF cmd.opts.rollback THEN "rollback" ELSE "idle")
    BY DEF Phases
  <2>2. cmd' = [[cmd EXCEPT !.phase = q, !.failed = TRUE, !.status[Current] = "failed"] EXCEPT !.touched = t]
    BY <1>7, <2>1 DEF WorkloadFails
  <2>3. /\ cmd' \in CmdType /\ cmd'.phase = q /\ cmd'.failed = TRUE /\ cmd'.at = cmd.at /\ cmd'.touched = t /\ SameCommand
        /\ cmd'.status = [cmd.status EXCEPT ![Current] = "failed"]
    BY <1>2, <1>5, <2>2 DEF CmdType, SameCommand, Statuses
  <2>4. \A x \in Workloads : Touched(x)' <=> Touched(x) \/ x = Current
    BY <1>5, <2>3 DEF Touched
  <2> QED
    BY ZenonT(40), <1>1, <1>2, <1>5, <1>6, <1>7, <2>1, <2>3, <2>4, RowFails
<1>8. CASE deploy' = [deploy EXCEPT ![Current] = Forward(Current)] /\ cmd' = [cmd EXCEPT !.phase = "wait", !.touched = t]
  <2>1. /\ cmd' \in CmdType /\ cmd'.phase = "wait" /\ cmd'.touched = t /\ cmd'.status = cmd.status /\ cmd'.at = cmd.at
        /\ cmd'.failed = cmd.failed /\ SameCommand
    BY <1>2, <1>5, <1>8 DEF CmdType, SameCommand, Phases
  <2> PICK c \in Workloads : c = Current
    BY <1>2
  <2>2. /\ deploy' \in [Workloads -> Template] /\ deploy'[c] = Forward(c) /\ Forward(c)' = Forward(c)
        /\ \A x \in Workloads \ {c} : deploy'[x] = deploy[x]
        /\ ~ Scoped(cmd.opts) => Released(c)'
        /\ deploy'[c].wired = TRUE => deploy[c].wired = TRUE \/ c \in Wired
    BY <1>8, <2>1, ForwardReleased
  <2>3. UpdateTyped'
    BY <1>1, <2>1, <2>2 DEF UpdateTyped
  <2>4. Provided' /\ Accounts'
    <3>1. \A w \in Workloads : deploy'[w].wired = TRUE => deploy[w].wired = TRUE \/ (w \in Wired /\ w \in cmd.plan.rows)
      BY <1>2, <2>2
    <3> QED
      BY <1>1, <2>1, <3>1, ObjectsStay DEF ObjsGrow, Rolling
  <2>5. /\ Current' = Current /\ Todo' = Todo /\ More' = More
        /\ \A w \in Workloads : (DealtWith(w)' <=> DealtWith(w)) /\ (Touched(w)' <=> Touched(w) \/ w = Current)
    <3>1. Todo' = Todo
      BY <2>1 DEF Todo, SameCommand
    <3> QED
      BY <1>5, <2>1, <3>1 DEF Current, More, DealtWith, Touched
  <2>6. Reported'
    <3>1. NotBegun' /\ InReverse' /\ IsInjective(cmd'.touched)
      BY <1>5, <2>1 DEF NotBegun, InReverse, Early, Undoing
    <3>2. InOrder'
      BY <1>1, <1>5, <1>6, <2>1, <2>5 DEF Reported, InOrder, Rolling
    <3> QED
      BY <3>1, <3>2 DEF Reported
  <2>7. Truthful'
    BY ZenonT(40), <1>1, <1>2, <2>1, <2>2 DEF Truthful, Restored, SameCommand
  <2>8. Settling'
    <3>1. \A w \in Workloads \ {c} : Released(w)' <=> Released(w)
      BY <2>2 DEF Released
    <3>2. (deploy[Current])' = Forward(Current)'
      <4>1. Current' = c
        BY <2>5
      <4> QED
        BY <2>2, <4>1 DEF Forward
    <3>3. settled' = FALSE
      BY <1>1 DEF Settling, Planned, Phases, UpdateTyped
    <3>4. cmd'.phase \in Forwards /\ ~ Scoped(cmd'.opts) /\ cmd'.seen = edits' => \A w \in Workloads : w \notin cmd'.plan.rows \/ DealtWith(w)' => Released(w)'
      BY <1>1, <2>1, <2>2, <2>5, <3>1 DEF Settling, SameCommand, Forwards
    <3> QED
      BY <1>1, <2>1, <3>2, <3>3, <3>4 DEF Settling, SameCommand
  <2> QED
    BY <2>3, <2>4, <2>6, <2>7, <2>8
<1> QED
  BY <1>3, <1>7, <1>8

\* A roll-out ends, in time or not.
LEMMA WaitingKept == ASSUME UpdateInv, WaitForRollout PROVE UpdateInv'
<1> USE DEF UpdateInv
<1>1. cmd.phase = "wait" /\ More /\ UNCHANGED <<deploy, pods, objs, settled, edits>> /\ cmd.phase \in Rolling
  BY DEF WaitForRollout, Reported, InOrder, cluster, Rolling
<1>2. /\ Current \in Workloads /\ Current \in cmd.plan.rows /\ ~ DealtWith(Current) /\ Min(Todo) \in 0..Len(Order) /\ cmd \in CmdType
  BY <1>1, NextRow DEF UpdateTyped
<1>3. \/ pods[Current].template = deploy[Current] /\ cmd' = [cmd EXCEPT !.phase = "workloads", !.at = Min(Todo), !.status[Current] = "updated"]
      \/ cmd' = WorkloadFails(Current)
  BY DEF WaitForRollout
<1>4. \A x \in Workloads : Touched(x) => cmd.status[x] = "updated" \/ x = Current
  BY <1>1 DEF Reported, InOrder
<1>5. Touched(Current)
  <2>1. cmd.touched # <<>> /\ Last(cmd.touched) = Current /\ IsInjective(cmd.touched) /\ cmd.touched \in Seq(Workloads)
    BY <1>1, <1>2 DEF Reported, InOrder, CmdType
  <2> QED
    BY <2>1, DropLast DEF Touched
<1>6. CASE cmd' = WorkloadFails(Current)
  <2>1. PICK q \in Phases : q = (IF cmd.opts.rollback THEN "rollback" ELSE "idle")
    BY DEF Phases
  <2>2. cmd' = [cmd EXCEPT !.phase = q, !.failed = TRUE, !.status[Current] = "failed"]
    BY <1>6, <2>1 DEF WorkloadFails
  <2>3. /\ cmd' \in CmdType /\ cmd'.phase = q /\ cmd'.failed = TRUE /\ cmd'.at = cmd.at /\ cmd'.touched = cmd.touched /\ SameCommand
        /\ cmd'.status = [cmd.status EXCEPT ![Current] = "failed"]
    BY <1>2, <2>2 DEF CmdType, SameCommand, Statuses
  <2>4. IsInjective(cmd'.touched) /\ \A x \in Workloads : Touched(x)' <=> Touched(x)
    BY <2>3 DEF Reported, Touched
  <2> QED
    BY <1>1, <1>2, <1>4, <2>1, <2>3, <2>4, RowFails
<1>7. CASE pods[Current].template = deploy[Current] /\ cmd' = [cmd EXCEPT !.phase = "workloads", !.at = Min(Todo), !.status[Current] = "updated"]
  <2>1. /\ cmd' \in CmdType /\ cmd'.phase = "workloads" /\ cmd'.touched = cmd.touched /\ cmd'.at = Min(Todo) /\ cmd'.failed = cmd.failed /\ SameCommand
        /\ cmd'.status = [cmd.status EXCEPT ![Current] = "updated"]
    BY <1>2, <1>7 DEF CmdType, SameCommand, Phases, Statuses
  <2>2. cmd'.status[Current] = "updated" /\ \A w \in Workloads \ {Current} : cmd'.status[w] = cmd.status[w]
    BY <1>2, <2>1 DEF CmdType
  <2>3. UpdateTyped'
    BY <1>1, <2>1 DEF UpdateTyped
  <2>4. Provided' /\ Accounts'
    BY <1>1, <2>1, ObjectsStay DEF ObjsGrow, Rolling
  <2>5. \A w \in Workloads : /\ DealtWith(w)' => DealtWith(w) \/ w \notin cmd.plan.rows \/ w = Current
                             /\ DealtWith(w) \/ w = Current => DealtWith(w)'
                             /\ Touched(w)' <=> Touched(w)
    BY <1>1, <2>1, RowDone DEF Touched
  <2>6. Reported'
    <3>1. NotBegun' /\ InReverse' /\ IsInjective(cmd'.touched)
      BY <2>1 DEF Reported, NotBegun, InReverse, Early, Undoing
    <3>2. InOrder'
      BY <1>1, <1>4, <1>5, <2>1, <2>2, <2>5 DEF Reported, InOrder, Rolling
    <3> QED
      BY <3>1, <3>2 DEF Reported
  <2>7. deploy[Current] = Forward(Current)
    BY <1>1 DEF Settling
  <2>8. Truthful'
    <3>1. deploy[Current].image = Target
      BY <2>7 DEF Forward
    <3> QED
      BY <1>1, <1>7, <2>1, <2>2, <3>1 DEF Truthful, Restored, SameCommand
  <2>9. Settling'
    <3>1. \A w \in Workloads : Released(w)' <=> Released(w)
      BY <1>1 DEF Released
    <3>2. ~ Scoped(cmd.opts) => Released(Current)
      BY <1>2, <2>7 DEF Forward, Released, UpdateTyped, Template
    <3>3. settled' = FALSE
      BY <1>1 DEF Settling, Planned, Phases, UpdateTyped
    <3>4. cmd'.phase \in Forwards /\ ~ Scoped(cmd'.opts) /\ cmd'.seen = edits' => \A w \in Workloads : w \notin cmd'.plan.rows \/ DealtWith(w)' => Released(w)'
      BY <1>1, <2>1, <2>5, <3>1, <3>2 DEF Settling, SameCommand, Forwards
    <3> QED
      BY <1>1, <2>1, <3>3, <3>4 DEF Settling, SameCommand
  <2> QED
    BY <2>3, <2>4, <2>6, <2>8, <2>9
<1> QED
  BY <1>3, <1>6, <1>7

\* Every row is done, and the command ends.
LEMMA CompletingKept == ASSUME UpdateInv, Complete PROVE UpdateInv'
<1> USE DEF UpdateInv
<1>1. /\ cmd.phase = "workloads" /\ ~ More /\ UNCHANGED <<deploy, pods, objs, edits>> /\ Go("idle") /\ cmd.phase \in Rolling /\ cmd \in CmdType
      /\ settled' = (settled \/ (~ Scoped(cmd.opts) /\ cmd.seen = edits))
  BY DEF Complete, cluster, Rolling, UpdateTyped
<1>2. cmd' \in CmdType /\ cmd'.phase = "idle" /\ cmd'.failed = cmd.failed /\ SameCommand /\ SameRows
  BY <1>1, GoneTo DEF Phases
<1>3. settled = FALSE /\ cmd.failed = FALSE
  BY <1>1 DEF Settling, Planned, Phases, UpdateTyped, Reported, InOrder
<1>4. settled' = (~ Scoped(cmd.opts) /\ cmd.seen = edits)
  BY <1>1, <1>3
<1>5. UpdateTyped'
  BY <1>1, <1>2, <1>4 DEF UpdateTyped
<1>6. Provided' /\ Accounts'
  BY <1>1, <1>2, ObjectsStay DEF ObjsGrow, SameRows
<1>7. Reported'
  BY <1>2, <1>3 DEF Reported, NotBegun, InOrder, InReverse, Early, Rolling, Undoing, SameRows
<1>8. Truthful'
  BY <1>1, <1>2 DEF Truthful, Restored, SameCommand, SameRows
<1>9. Settling'
  <2>1. settled' = TRUE => \A w \in Workloads : Released(w)
    BY <1>1, <1>4, LastRow DEF Settling, Forwards
  <2>2. settled' = TRUE => objs.crds = TRUE /\ objs.account = TRUE /\ objs.binding = "release" /\ objs.namespaces = "release" /\ ConfigNames \subseteq objs.config
    BY <1>1, <1>4 DEF Provided, Full, Planned, Phases, Rolling
  <2>3. \A w \in Workloads : Released(w)' <=> Released(w)
    BY <1>1 DEF Released
  <2> QED
    BY <1>1, <1>2, <2>1, <2>2, <2>3 DEF Settling, Planned, Forwards, SameCommand
<1> QED
  BY <1>5, <1>6, <1>7, <1>8, <1>9

-----------------------------------------------------------------------------
\* The Deployments, backwards.

\* A step of the rollback that only changes the report and the Deployment it is at.
LEMMA UndoStep ==
  ASSUME UpdateInv, cmd.phase \in Undoing, cmd'.phase \in Undoing \cup {"restore"}, SameCommand, cmd' \in CmdType,
         deploy' \in [Workloads -> Template], UNCHANGED <<pods, objs, settled, edits>>, cmd.touched = <<>> => cmd'.touched = <<>>,
         cmd'.phase = "restore" => cmd'.touched = <<>>,
         \A w \in Workloads : deploy'[w].wired = TRUE => deploy[w].wired = TRUE \/ cmd.before[w].wired = TRUE,
         Reported', Truthful'
  PROVE  UpdateInv'
<1> USE DEF UpdateInv
<1>1. UpdateTyped'
  BY DEF UpdateTyped
<1>2. Provided' /\ Accounts'
  BY ObjectsStay DEF ObjsGrow, Undoing
<1>3. Settling'
  <2>1. settled = FALSE
    BY DEF Settling, Planned, Phases, Undoing, UpdateTyped
  <2>2. cmd'.phase \notin Forwards /\ cmd'.phase # "wait"
    BY DEF Undoing, Forwards
  <2>3. cmd'.seen <= edits'
    BY DEF Settling, SameCommand
  <2> QED
    BY <2>1, <2>2, <2>3 DEF Settling
<1> QED
  BY <1>1, <1>2, <1>3

\* The Deployment at the end of the touched ones.
LEMMA AtLast ==
  ASSUME UpdateInv, cmd.touched # <<>>
  PROVE  /\ Front(cmd.touched) \in Seq(Workloads) /\ IsInjective(Front(cmd.touched)) /\ Last(cmd.touched) \in Workloads /\ Touched(Last(cmd.touched))
         /\ \A x \in Workloads : (\E i \in DOMAIN Front(cmd.touched) : Front(cmd.touched)[i] = x) <=> Touched(x) /\ x # Last(cmd.touched)
BY DropLast DEF UpdateInv, Reported, UpdateTyped, CmdType, Touched

\* It is done with, one way or the other.
LEMMA Popped ==
  ASSUME UpdateInv, cmd.phase \in Undoing, cmd.touched # <<>>, NEW w \in Workloads, w = Last(cmd.touched), NEW s \in {"rolled-back", "rollback-failed"},
         cmd' = [cmd EXCEPT !.phase = "rollback", !.touched = Front(@), !.status[w] = s], UNCHANGED <<deploy, pods, objs, settled, edits>>,
         s = "rolled-back" => Restored(w)
  PROVE  UpdateInv'
<1> USE DEF UpdateInv
<1>1. cmd \in CmdType /\ deploy \in [Workloads -> Template] /\ s \in Statuses
  BY DEF UpdateTyped, Statuses
<1>2. /\ Front(cmd.touched) \in Seq(Workloads) /\ IsInjective(Front(cmd.touched)) /\ Touched(w)
      /\ \A x \in Workloads : (\E i \in DOMAIN Front(cmd.touched) : Front(cmd.touched)[i] = x) <=> Touched(x) /\ x # w
  BY AtLast
<1> HIDE DEF UpdateInv
<1>3. /\ cmd' \in CmdType /\ cmd'.phase = "rollback" /\ cmd'.touched = Front(cmd.touched) /\ cmd'.failed = cmd.failed /\ SameCommand
      /\ cmd'.status = [cmd.status EXCEPT ![w] = s]
  BY <1>1, <1>2 DEF CmdType, SameCommand, Phases
<1> USE DEF UpdateInv
<1>4. cmd'.status[w] = s /\ \A x \in Workloads \ {w} : cmd'.status[x] = cmd.status[x]
  BY <1>1, <1>3 DEF CmdType
<1>5. \A x \in Workloads : Touched(x)' <=> Touched(x) /\ x # w
  BY <1>2, <1>3 DEF Touched
<1>6. Reported'
  <2>1. NotBegun' /\ InOrder' /\ IsInjective(cmd'.touched)
    BY <1>2, <1>3 DEF NotBegun, InOrder, Early, Rolling
  <2>2. InReverse'
    BY <1>3, <1>4, <1>5 DEF Reported, InReverse, Undoing
  <2> QED
    BY <2>1, <2>2 DEF Reported
<1>7. Truthful'
  BY <1>3, <1>4 DEF Truthful, Restored, SameCommand
<1> QED
  BY <1>1, <1>3, <1>6, <1>7, UndoStep DEF Undoing

\* The rollback patches the last Deployment touched to its plan-time image.
LEMMA UndoKept == ASSUME UpdateInv, RollbackPatch PROVE UpdateInv'
<1> USE DEF UpdateInv
<1>1. cmd.phase = "rollback" /\ cmd.touched # <<>> /\ UNCHANGED <<pods, objs, settled, edits>> /\ cmd.phase \in Undoing /\ cmd \in CmdType
      /\ deploy \in [Workloads -> Template] /\ cmd.before \in [Workloads -> Template]
  BY DEF RollbackPatch, Undoing, UpdateTyped, CmdType
<1>2. PICK w \in Workloads : w = Last(cmd.touched)
  BY <1>1, AtLast
<1>3. Touched(w)
  BY <1>1, <1>2, AtLast
<1>4. \/ deploy' = [deploy EXCEPT ![w] = Backward(w)] /\ Go("rollbackWait")
      \/ UNCHANGED deploy /\ cmd' = [cmd EXCEPT !.touched = Front(@), !.status[w] = "rollback-failed"]
  BY <1>2 DEF RollbackPatch
<1>5. CASE UNCHANGED deploy /\ cmd' = [cmd EXCEPT !.touched = Front(@), !.status[w] = "rollback-failed"]
  <2>1. cmd' = [cmd EXCEPT !.phase = "rollback", !.touched = Front(@), !.status[w] = "rollback-failed"]
    <3> HIDE DEF UpdateInv
    <3> QED
      BY <1>1, <1>5 DEF CmdType
  <2> QED
    BY <1>1, <1>2, <1>5, <2>1, Popped
<1>6. CASE deploy' = [deploy EXCEPT ![w] = Backward(w)] /\ Go("rollbackWait")
  <2>1. cmd' \in CmdType /\ cmd'.phase = "rollbackWait" /\ cmd'.failed = cmd.failed /\ SameCommand /\ SameRows
    BY <1>1, <1>6, GoneTo DEF Phases
  <2>2. Backward(w) \in Template /\ Backward(w).env = deploy[w].env /\ Backward(w).wired = cmd.before[w].wired
    BY <1>1 DEF Backward, Template
  <2>3. deploy' \in [Workloads -> Template] /\ deploy'[w] = Backward(w) /\ \A x \in Workloads \ {w} : deploy'[x] = deploy[x]
    BY <1>1, <1>6, <2>2
  <2>4. deploy'[w] = [cmd'.before[w] EXCEPT !.env = deploy'[w].env]
    BY <2>1, <2>2, <2>3 DEF Backward, SameCommand
  <2>5. Last(cmd.touched)' = w
    BY <1>2, <2>1 DEF Last, SameRows
  <2>6. Reported'
    <3>1. NotBegun' /\ InOrder' /\ IsInjective(cmd'.touched)
      BY <2>1 DEF Reported, NotBegun, InOrder, Early, Rolling, SameRows
    <3>2. deploy'[w] = Backward(w)'
      BY <2>4 DEF Backward
    <3>3. (deploy[Last(cmd.touched)] = Backward(Last(cmd.touched)))'
      BY <2>4, <2>5 DEF Backward
    <3>4. InReverse'
      BY <1>1, <2>1, <3>3 DEF Reported, InReverse, Undoing, SameRows, Touched
    <3> QED
      BY <3>1, <3>4 DEF Reported
  <2>7. Truthful'
    <3>1. cmd.status[w] \in {"updated", "failed"}
      BY <1>1, <1>3 DEF Reported, InReverse
    <3> QED
      BY <1>1, <2>1, <2>3, <2>5, <3>1 DEF Truthful, Restored, SameCommand, SameRows
  <2>8. \A x \in Workloads : deploy'[x].wired = TRUE => deploy[x].wired = TRUE \/ cmd.before[x].wired = TRUE
    BY <2>2, <2>3
  <2>9. cmd.touched = <<>> => cmd'.touched = <<>>
    BY <1>1
  <2> QED
    BY <1>1, <2>1, <2>3, <2>6, <2>7, <2>8, <2>9, UndoStep DEF Undoing
<1> QED
  BY <1>4, <1>5, <1>6

\* The rollback waits for it.
LEMMA UndoWaitKept == ASSUME UpdateInv, RollbackWait PROVE UpdateInv'
<1>1. cmd.phase = "rollbackWait" /\ UNCHANGED <<deploy, pods, objs, settled, edits>> /\ cmd.phase \in Undoing
  BY DEF RollbackWait, Undoing, cluster
<1>2. cmd.touched # <<>> /\ deploy[Last(cmd.touched)] = Backward(Last(cmd.touched))
  BY <1>1 DEF UpdateInv, Reported, InReverse
<1>3. PICK w \in Workloads : w = Last(cmd.touched)
  BY <1>2, AtLast
<1>4. PICK s \in {"rolled-back", "rollback-failed"} : /\ cmd' = [cmd EXCEPT !.phase = "rollback", !.touched = Front(@), !.status[w] = s]
                                                      /\ s = "rolled-back" => pods[w].template = deploy[w]
  BY <1>3 DEF RollbackWait
<1>5. s = "rolled-back" => Restored(w)
  BY <1>2, <1>3, <1>4 DEF Restored, Backward
<1> QED
  BY <1>1, <1>2, <1>3, <1>4, <1>5, Popped

\* No Deployment is left to roll back.
LEMMA UndoneKept == ASSUME UpdateInv, Deployed PROVE UpdateInv'
<1> USE DEF UpdateInv
<1>1. /\ cmd.phase = "rollback" /\ cmd.touched = <<>> /\ Go("restore") /\ UNCHANGED <<deploy, pods, objs, settled, edits>> /\ cmd.phase \in Undoing
      /\ cmd \in CmdType /\ deploy \in [Workloads -> Template]
  BY DEF Deployed, cluster, Undoing, UpdateTyped
<1>2. cmd' \in CmdType /\ cmd'.phase = "restore" /\ cmd'.failed = cmd.failed /\ SameCommand /\ SameRows
  BY <1>1, GoneTo DEF Phases
<1>3. \A w \in Workloads : cmd.status[w] # "updated"
  BY <1>1 DEF Reported, InReverse, Touched
<1>4. Reported'
  BY <1>2, <1>3 DEF Reported, NotBegun, InOrder, InReverse, Early, Rolling, Undoing, SameRows
<1>5. Truthful'
  BY <1>1, <1>2, <1>3 DEF Truthful, Restored, SameCommand, SameRows
<1>6. cmd.touched = <<>> => cmd'.touched = <<>>
  BY <1>2 DEF SameRows
<1> QED
  BY <1>1, <1>2, <1>4, <1>5, <1>6, UndoStep

\* The rollback ends with the saved ConfigMaps.
LEMMA RestoringKept == ASSUME UpdateInv, RestoreConfigMaps PROVE UpdateInv'
<1> USE DEF UpdateInv
<1>1. cmd.phase = "restore" /\ UNCHANGED <<deploy, pods, settled, edits>> /\ cmd \in CmdType /\ objs \in ObjsType /\ settled = FALSE
  BY DEF RestoreConfigMaps, Settling, Planned, Phases, UpdateTyped
<1>2. /\ cmd' \in CmdType /\ cmd'.phase \in {"restore", "idle"} /\ cmd'.failed = cmd.failed /\ SameCommand /\ SameRows
  <2>1. CASE cmd.saved = <<>>
    BY <1>1, <2>1, GoneTo DEF RestoreConfigMaps, Phases
  <2>2. CASE cmd.saved # <<>>
    <3>1. cmd' = [cmd EXCEPT !.saved = Front(@)]
      BY <2>2 DEF RestoreConfigMaps
    <3>2. Front(cmd.saved) \in Seq(ConfigNames)
      <4>1. cmd.saved \in Seq(ConfigNames) /\ Len(cmd.saved) > 0
        BY <1>1, <2>2, EmptySeq DEF CmdType
      <4> QED
        BY <4>1 DEF Front
    <3> HIDE DEF UpdateInv
    <3> QED
      BY <1>1, <3>1, <3>2 DEF CmdType, SameCommand, SameRows
  <2> QED
    BY <2>1, <2>2
<1>3. objs' \in ObjsType /\ ObjsGrow
  <2>1. objs' = objs \/ objs' = [objs EXCEPT !.config = @ \ {Last(cmd.saved)}]
    BY DEF RestoreConfigMaps
  <2> QED
    BY <1>1, <2>1 DEF ObjsType, ObjsGrow
<1>4. UpdateTyped'
  BY <1>1, <1>2, <1>3 DEF UpdateTyped
<1>5. Provided' /\ Accounts'
  <2>1. cmd'.phase \in Undoing \cup {"restore", "idle"} /\ cmd.phase \in Rolling \cup Undoing \cup {"restore"}
    BY <1>1, <1>2
  <2>2. cmd.touched = <<>> /\ cmd'.touched = <<>>
    BY <1>1, <1>2 DEF Provided, SameRows
  <2> QED
    BY <1>1, <1>2, <1>3, <2>1, <2>2, ObjectsStay
<1>6. \A w \in Workloads : cmd.status[w] # "updated"
  BY <1>1 DEF Reported, InReverse
<1>7. Reported'
  BY <1>2, <1>6 DEF Reported, NotBegun, InOrder, InReverse, Early, Rolling, Undoing, SameRows
<1>8. Truthful'
  BY <1>1, <1>2, <1>6 DEF Truthful, Restored, SameCommand, SameRows
<1>9. Settling'
  BY <1>1, <1>2 DEF Settling, Forwards, SameCommand
<1> QED
  BY <1>4, <1>5, <1>7, <1>8, <1>9

-----------------------------------------------------------------------------
\* Around the command.

\* A roll-out takes effect in the cluster.
LEMMA RolledKept == ASSUME UpdateInv, NEW d \in Workloads, Rollout(d) PROVE UpdateInv'
<1> USE DEF UpdateInv
<1>1. /\ pods[d].template # deploy[d] /\ pods' = [pods EXCEPT ![d] = [template |-> deploy[d], config |-> objs.config]]
      /\ UNCHANGED <<site, deploy, objs, cmd, settled, edits>>
  BY DEF Rollout
<1>2. UpdateTyped'
  BY <1>1 DEF UpdateTyped, PodType, ObjsType
<1>3. Provided' /\ Accounts' /\ Settling'
  BY <1>1 DEF Provided, Full, Accounts, Settling, Released, DealtWith, Current, Todo, Forward
<1>4. Reported'
  BY <1>1 DEF Reported, NotBegun, InOrder, InReverse, DealtWith, Touched, More, Current, Todo, Backward
<1>5. \A w \in Workloads : pods'[w].template = pods[w].template \/ pods'[w].template = deploy[w]
  BY <1>1 DEF UpdateTyped, PodType
<1>6. Truthful'
  BY <1>1, <1>5 DEF Truthful, Restored
<1> QED
  BY <1>2, <1>3, <1>4, <1>6

\* Somebody else comes between two commands, or before a confirmation.
LEMMA BetweenCommands ==
  ASSUME UpdateInv, Interfere
  PROVE  /\ cmd.phase \in {"idle", "confirm"} /\ cmd.touched = <<>> /\ cmd.failed = FALSE /\ (\A w \in Workloads : cmd.status[w] = "not-attempted")
         /\ edits \in Nat /\ edits' = edits + 1 /\ edits' \in 0..MaxEdits /\ settled' = FALSE
<1>1. cmd.phase = "confirm" \/ cmd = Idle
  BY DEF Interfere, Unattended
<1>2. edits \in 0..MaxEdits /\ MaxEdits \in Nat /\ edits < MaxEdits /\ edits' = edits + 1 /\ settled' = FALSE
  BY UpdateAssumption DEF UpdateInv, UpdateTyped, Interfere
<1>3. CASE cmd.phase = "confirm"
  BY <1>2, <1>3 DEF UpdateInv, Reported, NotBegun, Early
<1>4. CASE cmd = Idle
  BY <1>2, <1>4, UpdateConstants
<1> QED
  BY <1>1, <1>3, <1>4

\* Somebody else sets an image.
LEMMA ImagesKept == ASSUME UpdateInv, NEW d \in Workloads, NEW v \in 1..Newest, SetImage(d, v) PROVE UpdateInv'
<1> USE DEF UpdateInv
<1>1. deploy' = [deploy EXCEPT ![d].image = v] /\ UNCHANGED <<pods, objs, cmd>> /\ Interfere
  BY DEF SetImage
<1>2. /\ cmd.phase \in {"idle", "confirm"} /\ cmd.touched = <<>> /\ (\A w \in Workloads : cmd.status[w] = "not-attempted")
      /\ edits \in Nat /\ edits' = edits + 1 /\ edits' \in 0..MaxEdits /\ settled' = FALSE
  BY <1>1, BetweenCommands
<1>3. deploy' \in [Workloads -> Template] /\ \A w \in Workloads : deploy'[w].wired = deploy[w].wired
  BY <1>1 DEF UpdateTyped, Template
<1>4. UpdateTyped'
  BY <1>1, <1>2, <1>3 DEF UpdateTyped
<1>5. Provided' /\ Accounts'
  BY <1>1, <1>3 DEF Provided, Full, Accounts
<1>6. Reported'
  BY <1>1, <1>2 DEF Reported, NotBegun, InOrder, InReverse, Early, Rolling, Undoing
<1>7. Truthful'
  BY <1>1, <1>2 DEF Truthful
<1>8. Settling'
  <2>1. cmd.seen <= edits /\ cmd.seen \in Nat
    BY UpdateAssumption DEF Settling, UpdateTyped, CmdType
  <2> QED
    BY <1>1, <1>2, <2>1 DEF Settling
<1> QED
  BY <1>4, <1>5, <1>6, <1>7, <1>8

\* Somebody else creates the namespace of the catalogs.
LEMMA TakenKept == ASSUME UpdateInv, TakeNamespace PROVE UpdateInv'
<1> USE DEF UpdateInv
<1>1. objs.namespaces = "absent" /\ objs' = [objs EXCEPT !.namespaces = "foreign"] /\ UNCHANGED <<deploy, pods, cmd>> /\ Interfere
  BY DEF TakeNamespace
<1>2. /\ cmd.phase \in {"idle", "confirm"} /\ cmd.touched = <<>> /\ (\A w \in Workloads : cmd.status[w] = "not-attempted")
      /\ edits \in Nat /\ edits' = edits + 1 /\ edits' \in 0..MaxEdits /\ settled' = FALSE
  BY <1>1, BetweenCommands
<1>3. objs' \in ObjsType /\ objs'.crds = objs.crds /\ objs'.account = objs.account /\ objs'.binding = objs.binding /\ objs'.config = objs.config
  BY <1>1 DEF UpdateTyped, ObjsType
<1>4. UpdateTyped'
  BY <1>1, <1>2, <1>3 DEF UpdateTyped
<1>5. Provided' /\ Accounts'
  BY <1>1, <1>2, <1>3 DEF Provided, Full, Accounts, Rolling, Undoing
<1>6. Reported'
  BY <1>1, <1>2 DEF Reported, NotBegun, InOrder, InReverse, Early, Rolling, Undoing
<1>7. Truthful'
  BY <1>1, <1>2 DEF Truthful
<1>8. Settling'
  <2>1. cmd.seen <= edits /\ cmd.seen \in Nat
    BY UpdateAssumption DEF Settling, UpdateTyped, CmdType
  <2> QED
    BY <1>1, <1>2, <2>1 DEF Settling
<1> QED
  BY <1>4, <1>5, <1>6, <1>7, <1>8

\* A step that changes nothing here.
LEMMA StillKept == ASSUME UpdateInv, UNCHANGED updateVars PROVE UpdateInv'
<1> USE DEF updateVars
<1>1. UpdateTyped' /\ Provided' /\ Accounts' /\ Truthful'
  BY DEF UpdateInv, UpdateTyped, Provided, Full, Accounts, Truthful, Restored
<1>2. Reported'
  BY DEF UpdateInv, Reported, NotBegun, InOrder, InReverse, DealtWith, Touched, More, Current, Todo, Backward
<1>3. Settling'
  BY DEF UpdateInv, Settling, Released, DealtWith, Current, Todo, Forward
<1> QED
  BY <1>1, <1>2, <1>3 DEF UpdateInv

\* A platform that setup has left satisfies the invariant.
LEMMA UpdateInitially == UpdateInit => UpdateInv
<1> SUFFICES ASSUME UpdateInit PROVE UpdateInv
  OBVIOUS
<1> USE UpdateConstants
<1>1. cmd = Idle /\ settled = FALSE /\ edits = 0 /\ deploy = [w \in Workloads |-> Installed(w)]
      /\ pods = [w \in Workloads |-> [template |-> Installed(w), config |-> {}]]
      /\ objs = [crds |-> FALSE, account |-> FALSE, binding |-> "old", namespaces |-> "absent", config |-> {}]
  BY DEF UpdateInit
<1> HIDE DEF Idle, Installed
<1>2. UpdateTyped
  <2>1. deploy \in [Workloads -> Template] /\ pods \in [Workloads -> PodType]
    BY <1>1 DEF PodType
  <2>2. objs \in ObjsType
    BY <1>1 DEF ObjsType
  <2>3. edits \in 0..MaxEdits
    BY <1>1, UpdateAssumption
  <2> QED
    BY <1>1, <2>1, <2>2, <2>3 DEF UpdateTyped
<1>3. Provided /\ Accounts
  BY <1>1 DEF Provided, Full, Accounts, Planned, Forwards, Rolling
<1>4. Reported
  BY <1>1 DEF Reported, NotBegun, InOrder, InReverse, Early, Rolling, Undoing, IsInjective
<1>5. Truthful
  BY <1>1 DEF Truthful
<1>6. Settling
  BY <1>1 DEF Settling, Planned, Forwards
<1> QED
  BY <1>2, <1>3, <1>4, <1>5, <1>6 DEF UpdateInv

\* Every step of an update or of somebody else preserves the invariant.
LEMMA UpdateStep == UpdateInv /\ [UpdateNext]_updateVars => UpdateInv'
<1> SUFFICES ASSUME UpdateInv, [UpdateNext]_updateVars PROVE UpdateInv'
  OBVIOUS
<1>1. CASE CommandStep
  BY <1>1, PreparingKept, PlanningKept, ApplyingKept, SkippingKept, UnreadableKept, PatchingKept, WaitingKept, UndoKept, UndoWaitKept,
     UndoneKept, RestoringKept, CompletingKept DEF CommandStep, WorkloadStep
<1>2. CASE (\E o \in Options : StartUpdate(o)) \/ Kill
  BY <1>2, StartingKept, PreparingKept
<1>3. CASE TakeNamespace \/ \E w \in Workloads : Rollout(w) \/ \E v \in 1..Newest : SetImage(w, v)
  BY <1>3, TakenKept, RolledKept, ImagesKept
<1> QED
  BY <1>1, <1>2, <1>3, StillKept DEF UpdateNext

\* The invariant gives the state properties of the run.
LEMMA UpdateImplies == UpdateInv => UpdateTypeOK /\ DependenciesFirst /\ ReportIsTrue /\ RerunIsNoOp
<1> SUFFICES ASSUME UpdateInv PROVE UpdateTypeOK /\ DependenciesFirst /\ ReportIsTrue /\ RerunIsNoOp
  OBVIOUS
<1>1. UpdateTypeOK
  BY DEF UpdateInv, UpdateTyped, UpdateTypeOK, PodType, ObjsType, CmdType, ConfigNames
<1>2. DependenciesFirst
  <2>1. \A w \in Workloads : deploy[w].wired \in BOOLEAN
    BY DEF UpdateInv, UpdateTyped, Template
  <2>2. \A w \in ToSet(cmd.touched) : cmd.touched # <<>>
    BY DEF ToSet
  <2>3. \A w \in Workloads : deploy[w].wired => objs.account
    BY <2>1 DEF UpdateInv, Accounts
  <2>4. objs.config \subseteq ToSet(ConfigMaps)
    BY DEF UpdateInv, UpdateTyped, ObjsType, ConfigNames
  <2> QED
    BY <2>2, <2>3, <2>4 DEF UpdateInv, Provided, DependenciesFirst, ConfigNames
<1>3. ReportIsTrue
  <2>1. cmd.failed \in BOOLEAN /\ cmd.opts.rollback \in BOOLEAN
    BY DEF UpdateInv, UpdateTyped, CmdType, Options
  <2> QED
    BY <2>1 DEF UpdateInv, Truthful, Reported, InReverse, ReportIsTrue
<1>4. RerunIsNoOp
  <2> SUFFICES ASSUME settled, NEW o \in Options PROVE ~ NeedsApply(BuildPlan(o))
    BY DEF RerunIsNoOp
  <2>1. settled = TRUE
    BY DEF UpdateInv, UpdateTyped
  <2>2. \A w \in Workloads : ~ Changes(o, w)
    BY <2>1 DEF UpdateInv, UpdateTyped, Settling, Released, Changes, WiringDrift, HashDrift, Template
  <2>3. ~ CRDPlan(o) /\ ~ ObjectPlan(o) /\ ~ NamespacePlan(o) /\ ConfigPlan(o) = {}
    BY <2>1 DEF UpdateInv, Settling, CRDPlan, ObjectPlan, NamespacePlan, ConfigPlan, ConfigNames
  <2> QED
    BY <2>2, <2>3 DEF NeedsApply, BuildPlan
<1> QED
  BY <1>1, <1>2, <1>3, <1>4

\* UpdateSound holds of every behaviour, for any catalog and any number of commands and edits: what workloads
\* need, every ConfigMap key of the release included, comes before them and is what their pods start on, the
\* report names the templates the cluster holds after failures and rollbacks, a second run changes nothing,
\* and another scope's namespaces are left alone (Apply, BuildPlan).
THEOREM UpdateIsSound == UpdateSpec => UpdateSound
<1>1. UpdateSpec => []UpdateInv
  BY UpdateInitially, UpdateStep, PTL DEF UpdateSpec
<1>2. UpdateSpec => [](UpdateTypeOK /\ DependenciesFirst /\ ReportIsTrue /\ RerunIsNoOp)
  BY <1>1, UpdateImplies, PTL
<1>3. UpdateSpec => ForeignCatalogsKept
  <2>1. UpdateInv /\ [UpdateNext]_updateVars => [objs.namespaces = "foreign" => objs'.namespaces = "foreign"]_updateVars
    <3> SUFFICES ASSUME UpdateInv, UpdateNext, objs.namespaces = "foreign" PROVE objs'.namespaces = "foreign"
      OBVIOUS
    <3>1. objs \in ObjsType
      BY DEF UpdateInv, UpdateTyped
    <3>2. CASE UNCHANGED objs
      BY <3>2
    <3>3. CASE ApplyStep
      BY <3>1, <3>3 DEF ObjsType, ApplyStep, ApplyCRDs, ApplyPlatformObjects, ReplaceBinding, ApplyCatalogNamespaces, CatalogsOwned, ApplyConfigMaps
    <3>4. CASE RestoreConfigMaps
      BY <3>1, <3>4 DEF ObjsType, RestoreConfigMaps
    <3>5. CASE TakeNamespace
      BY <3>5 DEF TakeNamespace
    <3> QED
      BY <3>2, <3>3, <3>4, <3>5 DEF UpdateNext, CommandStep, WorkloadStep, StartUpdate, PlanFails, PlanUpdate, Confirm, BuildImages, SkipWorkload, ReadFails,
         PatchWorkload, WaitForRollout, RollbackPatch, RollbackWait, Deployed, Complete, Kill, Rollout, SetImage, cluster
  <2> QED
    BY <1>1, <2>1, PTL DEF UpdateSpec, ForeignCatalogsKept
<1>4. UpdateSpec => StartedOnRelease
  <2> DEFINE OnRelease == \A w \in ToSet(cmd.touched) : ~ Scoped(cmd.opts) /\ pods'[w] # pods[w] => pods'[w].config = ToSet(ConfigMaps)
  <2>1. UpdateInv /\ [UpdateNext]_updateVars => [OnRelease]_updateVars
    <3> SUFFICES ASSUME UpdateInv, UpdateNext, NEW w \in ToSet(cmd.touched), ~ Scoped(cmd.opts), pods'[w] # pods[w]
                 PROVE  pods'[w].config = ToSet(ConfigMaps)
      OBVIOUS
    <3>1. cmd.touched # <<>>
      BY DEF ToSet
    <3>2. objs.config = ConfigNames
      BY <3>1 DEF UpdateInv, Provided, UpdateTyped, ObjsType
    <3>3. PICK d \in Workloads : Rollout(d)
      BY DEF UpdateNext, CommandStep, ApplyStep, WorkloadStep, StartUpdate, PlanFails, PlanUpdate, Confirm, BuildImages, ApplyCRDs, ApplyPlatformObjects,
         ReplaceBinding, ApplyCatalogNamespaces, ApplyConfigMaps, SkipWorkload, ReadFails, PatchWorkload, WaitForRollout, RollbackPatch, RollbackWait,
         Deployed, RestoreConfigMaps, Complete, Kill, SetImage, TakeNamespace, cluster
    <3>4. pods' = [pods EXCEPT ![d] = [template |-> deploy[d], config |-> objs.config]] /\ pods \in [Workloads -> PodType]
      BY <3>3 DEF Rollout, UpdateInv, UpdateTyped
    <3> QED
      BY <3>2, <3>4 DEF ConfigNames
  <2> QED
    BY <1>1, <2>1, PTL DEF UpdateSpec, StartedOnRelease
<1> QED
  BY <1>2, <1>3, <1>4 DEF UpdateSound
=============================================================================
