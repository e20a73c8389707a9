------------------------------ MODULE Accounts ------------------------------
(* The platform API's accounts: password and OIDC accounts, API keys and     *)
(* registry credentials, teams and memberships, account deactivation and the *)
(* administrator seeded at start-up.                                         *)
(*                                                                           *)
(* A request resolves its caller first (`flights` holds the principals of    *)
(* requests under way, with the role and the owned teams they had then) and  *)
(* reaches the database later.  Each action is one transaction or statement; *)
(* an operation that reads outside its transaction leaves what it read in    *)
(* `pending`.  An e-mail address is unique for ever (a tombstone keeps it),  *)
(* so an account is named by its address.  All teams share one slug.         *)
EXTENDS Integers, FiniteSets

CONSTANTS
    Users, Teams, Subjects,  \* e-mail addresses, team ids, OIDC subjects
    SecretKinds,                   \* of secrets: API keys, registry credentials
    SeedAdmin,               \* PLATFORM_ADMIN_EMAIL
    OIDCAdmins,              \* addresses listed in ADMIN_USERS
    Service,                 \* the principal of an administrator service key
    MaxFlights               \* bound: requests of accounts under way at once

ASSUME AccountsAssumption ==
    /\ SeedAdmin \in Users /\ OIDCAdmins \subseteq Users /\ Service \notin Users
    /\ IsFiniteSet(Users) /\ MaxFlights \in Nat

VARIABLES
    accounts,   \* the users table
    subjects,   \* auth_identities of OIDC: subject -> account
    teams,      \* the teams table
    members,    \* live memberships: team -> account -> role
    secrets,    \* unrevoked API keys and registry credentials
    flights,    \* principals of requests under way
    pending     \* what an operation read before its transaction
accountVars == <<accounts, subjects, teams, members, secrets, flights, pending>>

None == "none"
Roles == {"user", "admin"}
TeamRoles == {"owner", "member"}
Absent == [status |-> "none", role |-> "user"]
Active(u) == accounts[u].status = "active"
Gone(u) == accounts[u].status = "gone"
Admins == {u \in Users : Active(u) /\ accounts[u].role = "admin"}
Owners(t) == {u \in Users : members[t][u] = "owner"}
Principal(u, role, owned) == [user |-> u, role |-> role, owns |-> owned]
ServicePrincipal == Principal(Service, "admin", {})
Principals == [user : Users, role : Roles, owns : SUBSET Teams]
Pendings == [op : {"none"}] \cup [op : {"seed"}] \cup [op : {"deleteTeam"}, team : Teams]
            \cup [op : {"join"}, team : Teams, user : Users]

(* The state after setup has seeded the first administrator. *)
AccountsInit ==
    /\ accounts = [u \in Users |-> IF u = SeedAdmin THEN [status |-> "active", role |-> "admin"]
                                                    ELSE Absent]
    /\ subjects = [s \in Subjects |-> None]
    /\ teams = [t \in Teams |-> "none"]
    /\ members = [t \in Teams |-> [u \in Users |-> "none"]]
    /\ secrets = {}
    /\ flights = {}
    /\ pending = [op |-> "none"]

--------------------------------------------------------------------------------
(* The store's statements. *)

(* insertPasswordUser: the address must never have been registered. *)
InsertUser(u, role) ==
    /\ accounts[u].status = "none"
    /\ accounts' = [accounts EXCEPT ![u] = [status |-> "active", role |-> role]]

(* PrincipalForUserID: current role and memberships of an undeleted account. *)
PrincipalForUserID(u) ==
    Principal(u, accounts[u].role, {t \in Teams : teams[t] = "active" /\ members[t][u] = "owner"})

(* The OIDC decision, serialized by a lock on users: an identity bound to a  *)
(* tombstone is refused, a bound one only promotes, an unbound one is bound  *)
(* to the account with its address, created when there is none.              *)
EnsureOIDCUser(s, u) ==
    LET role == IF u \in OIDCAdmins THEN "admin" ELSE "user"
        Promote(x) == accounts' = [accounts EXCEPT ![x].role = IF role = "admin" THEN role ELSE @]
    IN  /\ subjects[s] \in Users => Active(subjects[s])
        /\ \/ /\ subjects[s] \in Users
              /\ Promote(subjects[s])
              /\ UNCHANGED subjects
           \/ /\ subjects[s] = None
              /\ subjects' = [subjects EXCEPT ![s] = u]
              /\ \/ Active(u) /\ Promote(u)
                 \/ InsertUser(u, role)

(* CreateTeamUser: account and membership in one transaction. *)
CreateTeamUser(t, u, role) ==
    /\ teams[t] = "active"
    /\ InsertUser(u, "user")
    /\ members' = [members EXCEPT ![t][u] = role]

(* The insert of a key joins the account FOR SHARE: none for a tombstone. *)
InsertSecret(u, kind) == Active(u) /\ secrets' = secrets \cup {<<u, kind>>}

(* The upsert of a membership joins the account the same way. *)
InsertMembership(t, u, role) == Active(u) /\ members' = [members EXCEPT ![t][u] = role]

(* The end of a membership looks at no other owner. *)
DeleteTeamMembership(t, u) ==
    /\ teams[t] = "active" /\ members[t][u] # "none"
    /\ members' = [members EXCEPT ![t][u] = "none"]

(* CreateTeam inserts the team, its namespace and the creator's ownership;  *)
(* an active slug is unique, the creator is not read again.                  *)
InsertTeam(t, u) ==
    /\ teams[t] = "none"
    /\ \A x \in Teams : teams[x] # "active"
    /\ teams' = [teams EXCEPT ![t] = "active"]
    /\ members' = IF u = Service THEN members ELSE [members EXCEPT ![t][u] = "owner"]

(* A team whose only active owner is u. *)
Stranded(u) ==
    \E t \in Teams : /\ teams[t] = "active"
                     /\ members[t][u] = "owner"
                     /\ \A v \in Owners(t) \ {u} : ~Active(v)

\* Mutant: the last administrator is not looked for.
MutMayDeactivate(actor, u) ==
    actor # u /\ accounts[u].status # "none" /\ (actor # Service => actor \in Admins) /\ (Active(u) => ~Stranded(u))

(* DeactivateUser's refusals, under the locks on users and memberships. *)
MayDeactivate(actor, u) ==
    /\ actor # u
    /\ actor # Service => actor \in Admins
    /\ accounts[u].status # "none"
    /\ Active(u) => /\ accounts[u].role = "admin" => Admins \ {u} # {}
                    /\ ~Stranded(u)

(* Its updates: the tombstone, and everything the account holds. *)
Tombstone(u) ==
    /\ accounts' = [accounts EXCEPT ![u].status = "gone"]
    /\ secrets' = {k \in secrets : k[1] # u}
    /\ members' = [t \in Teams |-> [members[t] EXCEPT ![u] = "none"]]

--------------------------------------------------------------------------------
(* Requests. *)

(* Password, JWT, API key or OIDC: whichever was presented, the principal is *)
(* the account's current one; a deactivated account is refused.              *)
AuthenticateRequest(u) ==
    /\ Active(u)
    /\ Cardinality(flights) < MaxFlights
    /\ flights' = flights \cup {PrincipalForUserID(u)}
    /\ UNCHANGED <<accounts, subjects, teams, members, secrets, pending>>

(* A request ends, served or abandoned by its client. *)
EndRequest(p) ==
    /\ flights' = flights \ {p}
    /\ UNCHANGED <<accounts, subjects, teams, members, secrets, pending>>

(* Anybody may sign up as a user. *)
HandleSignup(u) ==
    /\ InsertUser(u, "user")
    /\ UNCHANGED <<subjects, teams, members, secrets, flights, pending>>

(* An administrator creates an account with either role. *)
HandleUsers(p, u, role) ==
    /\ p.role = "admin"
    /\ InsertUser(u, role)
    /\ UNCHANGED <<subjects, teams, members, secrets, flights, pending>>

(* An owner or an administrator creates an account inside the team. *)
TeamUserCreate(p, t, u, role) ==
    /\ p.role = "admin" \/ t \in p.owns
    /\ CreateTeamUser(t, u, role)
    /\ UNCHANGED <<subjects, teams, secrets, flights, pending>>

(* A sign-in with an ID token. *)
HandleOIDCLogin(s, u) ==
    /\ EnsureOIDCUser(s, u)
    /\ UNCHANGED <<teams, members, secrets, flights, pending>>

(* A person's own keys and registry credentials. *)
HandleUserAPIKeys(p, kind) ==
    /\ p.user \in Users
    /\ InsertSecret(p.user, kind)
    /\ UNCHANGED <<accounts, subjects, teams, members, flights, pending>>

RevokeSecret(p, kind) ==
    /\ <<p.user, kind>> \in secrets
    /\ secrets' = secrets \ {<<p.user, kind>>}
    /\ UNCHANGED <<accounts, subjects, teams, members, flights, pending>>

CreateTeam(p, t) ==
    /\ p.role = "admin"
    /\ InsertTeam(t, p.user)
    /\ UNCHANGED <<accounts, subjects, secrets, flights, pending>>

(* UpsertTeamMembership reads the team and the user ... *)
ReadMembership(p, t, u) ==
    /\ pending.op = "none"
    /\ p.role = "admin" \/ t \in p.owns
    /\ teams[t] = "active" /\ Active(u)
    /\ pending' = [op |-> "join", team |-> t, user |-> u]
    /\ UNCHANGED <<accounts, subjects, teams, members, secrets, flights>>

(* ... and inserts, or fails because the account went meanwhile. *)
UpsertTeamMembership(role) ==
    /\ pending.op = "join"
    /\ pending' = [op |-> "none"]
    /\ \/ InsertMembership(pending.team, pending.user, role)
       \/ ~Active(pending.user) /\ UNCHANGED members
    /\ UNCHANGED <<accounts, subjects, teams, secrets, flights>>

TeamMemberDelete(p, t, u) ==
    /\ p.role = "admin" \/ t \in p.owns
    /\ DeleteTeamMembership(t, u)
    /\ UNCHANGED <<accounts, subjects, teams, secrets, flights, pending>>

(* DeleteTeamBySlug finds the team, then deletes by id. *)
ReadTeam(p, t) ==
    /\ pending.op = "none"
    /\ p.role = "admin"
    /\ teams[t] = "active"
    /\ pending' = [op |-> "deleteTeam", team |-> t]
    /\ UNCHANGED <<accounts, subjects, teams, members, secrets, flights>>

DeleteTeamBySlug ==
    /\ pending.op = "deleteTeam"
    /\ pending' = [op |-> "none"]
    /\ teams' = [teams EXCEPT ![pending.team] = "gone"]
    /\ members' = [members EXCEPT ![pending.team] = [u \in Users |-> "none"]]
    /\ UNCHANGED <<accounts, subjects, secrets, flights>>

(* An administrator deactivates an account; a repetition cleans up again. *)
DeactivateUser(p, u) ==
    /\ p.role = "admin"
    /\ MayDeactivate(p.user, u)
    /\ Tombstone(u)
    /\ UNCHANGED <<subjects, teams, flights, pending>>

(* A replica starts and ensures the seeded administrator: it reads outside   *)
(* the transaction, and its update does not look at deleted_at.  When the    *)
(* account is a tombstone the start fails (see the README).                  *)
ReadSeed ==
    /\ pending.op = "none"
    /\ Active(SeedAdmin)
    /\ pending' = [op |-> "seed"]
    /\ UNCHANGED <<accounts, subjects, teams, members, secrets, flights>>

EnsurePasswordUser ==
    /\ pending.op = "seed"
    /\ pending' = [op |-> "none"]
    /\ accounts' = [accounts EXCEPT ![SeedAdmin].role = "admin"]
    /\ UNCHANGED <<subjects, teams, members, secrets, flights>>

AccountsNext ==
    \/ \E u \in Users : AuthenticateRequest(u) \/ HandleSignup(u)
    \/ \E s \in Subjects, u \in Users : HandleOIDCLogin(s, u)
    \/ \E p \in flights : EndRequest(p)
    \/ \E p \in flights \cup {ServicePrincipal} :
         \/ \E u \in Users : DeactivateUser(p, u) \/ \E r \in Roles : HandleUsers(p, u, r)
         \/ \E k \in SecretKinds : HandleUserAPIKeys(p, k) \/ RevokeSecret(p, k)
         \/ \E t \in Teams : CreateTeam(p, t) \/ ReadTeam(p, t)
         \/ \E t \in Teams, u \in Users :
              \/ TeamMemberDelete(p, t, u) \/ ReadMembership(p, t, u)
              \/ \E r \in TeamRoles : TeamUserCreate(p, t, u, r)
    \/ \E r \in TeamRoles : UpsertTeamMembership(r)
    \/ DeleteTeamBySlug \/ ReadSeed \/ EnsurePasswordUser

AccountsSpec == AccountsInit /\ [][AccountsNext]_accountVars
--------------------------------------------------------------------------------
AccountsTypeOK ==
    /\ accounts \in [Users -> [status : {"none", "active", "gone"}, role : Roles]]
    /\ subjects \in [Subjects -> Users \cup {None}]
    /\ teams \in [Teams -> {"none", "active", "gone"}]
    /\ members \in [Teams -> [Users -> {"none", "owner", "member"}]]
    /\ secrets \subseteq Users \X SecretKinds
    /\ flights \subseteq Principals
    /\ pending \in Pendings

(* The platform never loses its last administrator, whatever two            *)
(* administrators and a service key do to one another's accounts at once.    *)
AdministratorRemains == Admins # {}

(* A deactivated account holds no usable key, although requests it had under *)
(* way when it was deactivated go on to their inserts.                       *)
TombstoneHoldsNothing == \A k \in secrets : Active(k[1])

(* Deactivation is final and an OIDC subject keeps its account: a person who *)
(* signs in again, even under a new address, gets neither the old account    *)
(* back nor a fresh one for the same subject.                                *)
DeactivationFinal ==
    [][/\ \A u \in Users : Gone(u) => accounts'[u].status = "gone"
       /\ \A s \in Subjects : subjects[s] # None => subjects'[s] = subjects[s]]_accountVars

(* A deactivation never takes a team's last active owner, counting only      *)
(* owners whose own accounts are active.                                     *)
DeactivationKeepsOwners ==
    [][\A t \in Teams :
         (teams[t] = "active" /\ \E u \in Owners(t) : Active(u)) =>
             \/ \E u \in Users : members'[t][u] = "owner" /\ accounts'[u].status = "active"
             \/ accounts' = accounts]_accountVars
(* Deactivation ends an account for good and strands nobody: requests that   *)
(* were under way leave it no secret, sign-ins do not revive it, and the     *)
(* platform keeps an administrator and each team its active owner.           *)
AccountsSound ==
    [](AccountsTypeOK /\ AdministratorRemains /\ TombstoneHoldsNothing) /\ DeactivationFinal /\ DeactivationKeepsOwners
=============================================================================
