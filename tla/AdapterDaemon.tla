---------------------------- MODULE AdapterDaemon ----------------------------
(* The per-user adapter daemon: profiles in a file, their secrets in a       *)
(* keychain, one router in memory.  Adding, removing and reconnecting a      *)
(* profile and the renewal loop hold one lock across the calls they make to  *)
(* the platform; the connectivity probe takes no lock and puts the routes it *)
(* looked at back.  A crash keeps the two files and loses the rest.          *)
(* Expiries are ticks still to run.                                          *)
EXTENDS Integers, FiniteSets

CONSTANTS
    ProfileIds,   \* random profile ids, each used once
    SessionTTL,   \* ticks a session is authorised for
    CertTTL,      \* ticks a certificate lasts at most
    RenewLead,    \* ticks before expiry at which renewal starts
    MaxSerial     \* bound: certificates issued

ASSUME AdapterAssumption ==
    {SessionTTL, CertTTL, MaxSerial} \subseteq Nat \ {0} /\ RenewLead \in Nat /\ "none" \notin ProfileIds

VARIABLES
    profiles,   \* profiles.json: id -> profile
    secrets,    \* the secret store: account -> token owner, certificate and key
    routes,     \* the router: path -> profile, token and key pair presented
    op,         \* the operation that holds profilesMu
    probing,    \* routes a probe has read and not yet put back
    issued      \* certificates issued: whose, by serial
daemonVars == <<profiles, secrets, routes, op, probing, issued>>

Paths == {"s", "s-2"}
NoProfile == [kept |-> FALSE, slug |-> "none", auth |-> "none", session |-> 0, sess |-> 0, cert |-> 0, known |-> FALSE]
Removed == [NoProfile EXCEPT !.auth = "removed"]
NoRoute == [id |-> "none", token |-> "none", pair |-> 0]
Empty == [s \in Paths |-> NoRoute]
NothingStored == [token |-> "none", cert |-> 0, key |-> 0]
NoOp == [kind |-> "none", id |-> "none", step |-> "none", draft |-> NoProfile, base |-> NoProfile, fresh |-> 0, todo |-> {}]
Serials == 1..MaxSerial
NextSerial == Cardinality({n \in Serials : issued[n] # "none"}) + 1

(* tokenAccount, certAccount, keyAccount: named after the random id. *)
Account(id, slug) == id

DaemonInit ==
    /\ profiles = [i \in ProfileIds |-> NoProfile]
    /\ secrets = [a \in ProfileIds \cup Paths |-> NothingStored]
    /\ routes = Empty
    /\ op = NoOp /\ probing = {}
    /\ issued = [n \in Serials |-> "none"]

Kept == {i \in ProfileIds : profiles[i].kept}
At_(kind, step) == op.kind = kind /\ op.step = step
Move(step) == op' = [op EXCEPT !.step = step]
Hook(kind, id, p, todo) ==
    [kind |-> kind, id |-> id, step |-> "hook", draft |-> p, base |-> p, fresh |-> 0, todo |-> todo]

--------------------------------------------------------------------------------
(* Operations of the control socket. *)

(* The server's name as a path, or the first numbered one not taken. *)
UniqueSlug == IF \E i \in Kept : profiles[i].slug = "s" THEN "s-2" ELSE "s"

(* AddProfile: a path, an id and a token; the token is stored first.         *)
AddProfile(id) ==
    /\ op = NoOp
    /\ \E s \in Paths : \A i \in Kept : profiles[i].slug # s   \* bound: two paths
    /\ profiles[id] = NoProfile /\ secrets[id] = NothingStored
    /\ op' = Hook("add", id, [NoProfile EXCEPT !.kept = TRUE, !.slug = UniqueSlug, !.auth = "not_enrolled"], {})
    /\ secrets' = [secrets EXCEPT ![Account(id, UniqueSlug)].token = id]
    /\ UNCHANGED <<profiles, routes, probing, issued>>

(* RestartProfile: a user's reconnect drops a session that is over. *)
RestartProfile(id) ==
    /\ op = NoOp /\ id \in Kept
    /\ LET p == profiles[id]
           over == p.auth = "sign_in_required" \/ p.session = 0 \/ p.sess = 0
       IN  op' = Hook("restart", id, IF over THEN [p EXCEPT !.session = 0, !.sess = 0] ELSE p, {})
    /\ UNCHANGED <<profiles, secrets, routes, probing, issued>>

(* DeleteProfile: first the stored profile ... *)
DeleteProfile(id) ==
    /\ op = NoOp /\ id \in Kept
    /\ op' = [NoOp EXCEPT !.kind = "delete", !.id = id, !.step = "route", !.draft.slug = profiles[id].slug]
    /\ profiles' = [profiles EXCEPT ![id] = Removed]
    /\ UNCHANGED <<secrets, routes, probing, issued>>

(* ... then the route, and the secrets on purge. *)
Unroute ==
    /\ At_("delete", "route")
    /\ routes' = [routes EXCEPT ![op.draft.slug] = NoRoute]
    /\ \/ UNCHANGED secrets
       \/ secrets' = [secrets EXCEPT ![Account(op.id, op.draft.slug)] = NothingStored]
    /\ op' = NoOp
    /\ UNCHANGED <<profiles, probing, issued>>

--------------------------------------------------------------------------------
(* Renewal: every minute, each profile whose certificate is about to expire. *)
renewAll ==
    /\ op = NoOp /\ Kept # {}
    /\ op' = [NoOp EXCEPT !.kind = "renew", !.step = "next", !.todo = Kept]
    /\ UNCHANGED <<profiles, secrets, routes, probing, issued>>

Due(p) == p.known /\ p.cert <= RenewLead

(* The session is absent or ends within the lead: only the user may go on. *)
SessionShort(p) == p.session = 0 \/ p.sess <= RenewLead

RenewNext(id) ==
    LET p == profiles[id]
        short == [p EXCEPT !.auth = "sign_in_required"]
    IN  /\ At_("renew", "next") /\ id \in op.todo
        /\ IF Due(p) /\ ~SessionShort(p)
           THEN /\ op' = Hook("renew", id, p, op.todo \ {id})
                /\ UNCHANGED profiles
           ELSE /\ op' = [op EXCEPT !.todo = @ \ {id}]
                /\ profiles' = [profiles EXCEPT ![id] = IF Due(p) THEN short ELSE p]
        /\ UNCHANGED <<secrets, routes, probing, issued>>

RenewDone ==
    /\ At_("renew", "next") /\ op.todo = {}
    /\ op' = NoOp
    /\ UNCHANGED <<profiles, secrets, routes, probing, issued>>

--------------------------------------------------------------------------------
(* The enrollment hook and what follows it. *)

(* The login or the platform refuses, or a call on the way fails.  A session *)
(* made for this enrollment is removed again; nothing is stored.             *)
Failed(p, denied) ==
    [p EXCEPT !.auth = IF IF op.kind = "renew" THEN p.sess = 0 \/ denied ELSE p.cert = 0
                       THEN "sign_in_required" ELSE "renewal_failed"]

HookFails(denied) ==
    /\ op.step = "hook"
    /\ op' = [op EXCEPT !.draft = Failed(op.draft, denied), !.step = "put"]
    /\ UNCHANGED <<profiles, secrets, routes, probing, issued>>

(* renewProfileCertificate: the same session, and no certificate beyond it. *)
renewProfileCertificate(p, left) == p.session # 0 /\ p.sess > 0 /\ left <= p.sess

\* Mutant: a session that is over is replaced without its user.
MutNewSession(p) == p.session = 0 \/ p.sess = 0
(* issueAdapterCredential: only a profile without a session creates one. *)
NewSession(p) == p.session = 0

HookIssues(left) ==
    LET p == op.draft
        n == NextSerial
    IN  /\ op.step = "hook" /\ n \in Serials
        /\ \/ /\ NewSession(p) /\ left <= SessionTTL
              /\ op' = [op EXCEPT !.draft = [p EXCEPT !.session = n, !.sess = SessionTTL, !.cert = left, !.known = TRUE, !.auth = "enrolled"],
                                  !.fresh = n, !.step = "cert"]
           \/ /\ renewProfileCertificate(p, left)
              /\ op' = [op EXCEPT !.draft = [p EXCEPT !.cert = left, !.auth = "enrolled"], !.fresh = n, !.step = "cert"]
        /\ issued' = [issued EXCEPT ![n] = op.id]
        /\ UNCHANGED <<profiles, secrets, routes, probing>>

(* storeMaterial: the certificate, then the key (and the CA, which a mount   *)
(* may do without).  A failed write stops it, and the profile stays as it    *)
(* was before the hook.                                                      *)
StoreMaterial ==
    /\ op.step \in {"cert", "key"}
    /\ \/ /\ secrets' = [secrets EXCEPT ![Account(op.id, op.draft.slug)] = IF op.step = "cert" THEN [@ EXCEPT !.cert = op.fresh]
                                                            ELSE [@ EXCEPT !.key = op.fresh]]
          /\ Move(IF op.step = "cert" THEN "key" ELSE "put")
       \/ /\ UNCHANGED secrets
          /\ op' = [op EXCEPT !.step = "put", !.fresh = 0,
                              !.draft = IF op.kind = "renew" THEN op.base ELSE [op.base EXCEPT !.auth = "renewal_failed"]]
    /\ UNCHANGED <<profiles, routes, probing, issued>>

(* Store.Put replaces the file.  When it fails, adding and reconnecting end  *)
(* here; the renewal loop goes on.                                           *)
StorePut ==
    /\ op.step = "put"
    /\ \/ /\ profiles' = [profiles EXCEPT ![op.id] = op.draft]
          /\ Move("mount")
       \/ /\ UNCHANGED profiles
          /\ IF op.kind = "renew" THEN Move("mount") ELSE op' = NoOp
    /\ UNCHANGED <<secrets, routes, probing, issued>>

(* mount: no token, or a certificate and a key that do not match, is an      *)
(* error and leaves the route alone; without either the path is not enrolled. *)
Mounted(before, id, slug) ==
    LET s == secrets[Account(id, slug)]
    IN  IF s.token = "none" \/ (s.cert # 0 /\ s.key # 0 /\ s.cert # s.key) THEN before
        ELSE [before EXCEPT ![slug] = [id |-> id, token |-> s.token, pair |-> IF s.key = 0 THEN 0 ELSE s.cert]]

(* The renewal loop mounts only what it renewed. *)
Mount ==
    /\ op.step = "mount"
    /\ routes' = IF op.kind = "renew" /\ op.fresh = 0 THEN routes ELSE Mounted(routes, op.id, op.draft.slug)
    /\ op' = IF op.kind = "renew" THEN [op EXCEPT !.step = "next", !.fresh = 0, !.id = "none"] ELSE NoOp
    /\ UNCHANGED <<profiles, secrets, probing, issued>>

--------------------------------------------------------------------------------
(* probe: reads every route, dials each upstream, and sets the route again.  *)
ProbeStart ==
    /\ probing = {}
    /\ probing' = {[slug |-> s, route |-> routes[s]] : s \in {x \in Paths : routes[x] # NoRoute}}
    /\ probing' # {}
    /\ UNCHANGED <<profiles, secrets, routes, op, issued>>

ProbeSet(r) ==
    /\ routes' = [routes EXCEPT ![r.slug] = r.route]
    /\ probing' = probing \ {r}
    /\ UNCHANGED <<profiles, secrets, op, issued>>

(* The process ends; launchd starts it again and it mounts what is stored.   *)
reload ==
    /\ op' = NoOp /\ probing' = {}
    /\ routes' = [s \in Paths |->
                    LET owner == {i \in Kept : profiles[i].slug = s}
                    IN  IF owner = {} THEN NoRoute ELSE Mounted(Empty, CHOOSE i \in owner : TRUE, s)[s]]
    /\ UNCHANGED <<profiles, secrets, issued>>

(* Time passes, in ticks longer than the dials of a probe take. *)
Older(p) == [p EXCEPT !.sess = IF @ > 0 THEN @ - 1 ELSE 0, !.cert = IF @ > 0 THEN @ - 1 ELSE 0]
DaemonTick ==
    /\ probing = {}
    /\ \E i \in Kept : profiles[i].cert > 0 \/ profiles[i].sess > 0
    /\ profiles' = [i \in ProfileIds |-> Older(profiles[i])]
    /\ op' = [op EXCEPT !.draft = Older(@), !.base = Older(@)]
    /\ UNCHANGED <<secrets, routes, probing, issued>>

DaemonNext ==
    \/ \E id \in ProfileIds : AddProfile(id) \/ RestartProfile(id) \/ DeleteProfile(id) \/ RenewNext(id)
    \/ Unroute \/ renewAll \/ RenewDone \/ StoreMaterial \/ StorePut \/ Mount
    \/ \E denied \in BOOLEAN : HookFails(denied)
    \/ \E left \in 1..CertTTL : HookIssues(left)
    \/ ProbeStart \/ (\E r \in probing : ProbeSet(r))
    \/ reload \/ DaemonTick

DaemonSpec == DaemonInit /\ [][DaemonNext]_daemonVars

--------------------------------------------------------------------------------
(* No two profiles share a path; expiries are in range. *)
DaemonTypeOK ==
    /\ \A i, j \in Kept : profiles[i].slug = profiles[j].slug => i = j
    /\ \A i \in ProfileIds : profiles[i].sess \in 0..SessionTTL /\ profiles[i].cert \in 0..CertTTL

(* Whatever the renewal loop does, with whatever failures, restarts and      *)
(* delays, a profile gets a new session only when its user adds or           *)
(* reconnects it, and reconnecting keeps a session that still runs.          *)
ConsentKept ==
    [][\A i \in ProfileIds :
          profiles[i].kept /\ profiles'[i].kept /\ profiles'[i].session # profiles[i].session =>
            /\ op.kind = "restart"
            /\ profiles[i].session # 0 => profiles[i].auth = "sign_in_required" \/ profiles[i].sess = 0]_daemonVars

(* The local token that opens a path belongs to the profile whose            *)
(* certificate is presented upstream, also when a path is used again after   *)
(* its profile was removed, or a probe puts an old route back.               *)
CredentialSeparation ==
    \A s \in Paths : routes[s].pair # 0 => issued[routes[s].pair] = routes[s].token

(* A profile's path that works keeps working, with one whole key pair or     *)
(* another, until the profile is removed, the process ends or a probe puts   *)
(* an older route back: a renewal or a reconnect that fails half way does    *)
(* not take it away.                                                         *)
ServingKept ==
    [][Mount => \A s \in Paths : routes[s].pair # 0 /\ routes[s].id \in Kept => routes'[s].pair # 0]_daemonVars
(* The daemon keeps its profiles apart and its users in charge: a local      *)
(* token never opens another profile's path, a session is made only by its   *)
(* user, and a path that works is not lost to a renewal that fails.          *)
ProfilesSeparate == [](DaemonTypeOK /\ CredentialSeparation) /\ ConsentKept /\ ServingKept
=============================================================================
