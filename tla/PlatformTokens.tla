--------------------------- MODULE PlatformTokens ---------------------------
(* What the platform signs for a person and for a node, and who honours it:  *)
(* the platform token of a sign-in, the one-minute tokens it is exchanged    *)
(* for at the split APIs, API keys resolved over HTTP with a cache, registry *)
(* tokens, and the pull credentials nodes hold.  Accounts change their       *)
(* teams or go while tokens are out.  Times are ticks still to run.          *)
EXTENDS Integers, FiniteSets, FiniteSetsExt

CONSTANTS
    Repos,       \* repositories; Scope says whose they are
    Scope,       \* repository -> team, or Unscoped for one without a prefix
    Unscoped,
    TeamScopes,  \* the teams a person can be in
    OpenScopes,  \* catalog scopes every user may write in the platform's mode
    NodeTeam,    \* the team of the node whose pull credential is modelled
    NodeShared,  \* the platform repositories every node may read
    SessionTTL, ExchangeTTL, Lifetime, CacheTTL,
    MaxTokens    \* bound: tokens out at once

ASSUME TokensAssumption ==
    /\ Scope \in [Repos -> TeamScopes \cup OpenScopes \cup {Unscoped}]
    /\ NodeTeam \in TeamScopes /\ NodeShared \subseteq Repos
    /\ {SessionTTL, ExchangeTTL, Lifetime, CacheTTL} \subseteq Nat \ {0} /\ MaxTokens \in Nat

VARIABLES
    person,    \* the person's account, its teams and its API key
    pullKey,   \* the node's pull credential
    tokens,    \* signed tokens: audience, subject, access, ticks left, root's ticks left
    answer,    \* what the resolver keeps of its last question about the key
    lost,      \* team -> ticks since the person lost it
    honoured   \* the request honoured last: with what, where, and what it did
tokenVars == <<person, pullKey, tokens, answer, lost, honoured>>

Actions == {"pull", "push"}
Accesses == Repos \X Actions
Nothing == [with |-> "none", at |-> "none", did |-> {}]
NoAnswer == [says |-> FALSE, left |-> 0]
Recently == Lifetime + 1

TokensInit ==
    /\ person = [active |-> TRUE, teams |-> TeamScopes, key |-> "none"]
    /\ pullKey = "none"
    /\ tokens = {}
    /\ answer = NoAnswer
    /\ lost = [t \in TeamScopes |-> Recently]
    /\ honoured = Nothing

Issue(t) == Cardinality(tokens) < MaxTokens /\ tokens' = tokens \cup {t}
Token(aud, sub, access, left, root) == [aud |-> aud, sub |-> sub, access |-> access, left |-> left, root |-> root]

--------------------------------------------------------------------------------
(* The platform's own tokens and keys. *)

(* CreateAccessToken after a login: signed for the platform audience only. *)
CreateAccessToken ==
    /\ person.active
    /\ Issue(Token("platform", "person", {}, SessionTTL, SessionTTL))
    /\ UNCHANGED <<person, pullKey, answer, lost, honoured>>

(* The exchange: the account is read again, and the result expires with the  *)
(* source when that comes first.                                             *)
Exchange(t) ==
    /\ t.aud = "platform" /\ person.active
    /\ Issue(Token("runtime", t.sub, {}, IF ExchangeTTL < t.left THEN ExchangeTTL ELSE t.left, t.left))
    /\ UNCHANGED <<person, pullKey, answer, lost, honoured>>

(* A service honours the token of its own audience for a current account. *)
AuthenticateJWT(t, aud) ==
    /\ t.aud = aud /\ aud # "registry" /\ person.active
    /\ honoured' = [with |-> aud, at |-> aud, did |-> {}]
    /\ UNCHANGED <<person, pullKey, tokens, answer, lost>>

(* The key's life, in the platform API. *)
CreateKey ==
    /\ person.active /\ person.key = "none"
    /\ person' = [person EXCEPT !.key = "live"]
    /\ UNCHANGED <<pullKey, tokens, answer, lost, honoured>>

RevokeKey ==
    /\ person.key = "live"
    /\ person' = [person EXCEPT !.key = "revoked"]
    /\ UNCHANGED <<pullKey, tokens, answer, lost, honoured>>

(* The platform's answer, and what the resolver keeps of it: only a miss. *)
Known == person.key = "live" /\ person.active
Remember(says) == IF says THEN NoAnswer ELSE [says |-> says, left |-> CacheTTL]

(* Another service resolves the key: from its cache, or by asking. *)
ResolveAPIKey ==
    LET fresh == answer.left > 0
        ok == IF fresh THEN answer.says ELSE Known
    IN  /\ answer' = IF fresh THEN answer ELSE Remember(ok)
        /\ honoured' = IF ~ok THEN Nothing
                       ELSE [with |-> IF Known THEN "key" ELSE "dead key", at |-> "runtime", did |-> {}]
        /\ UNCHANGED <<person, pullKey, tokens, lost>>

--------------------------------------------------------------------------------
(* The registry. *)

(* PrincipalCanAccessRegistryScope, and the pull credential's own Allows. *)
CanAccessScope(r) == Scope[r] # Unscoped /\ (Scope[r] \in OpenScopes \/ Scope[r] \in person.teams)
NodeAllows(r) == r \in NodeShared \/ Scope[r] = NodeTeam

(* What HandleToken signs: every requested scope, or none. *)
MayHold(sub, access) ==
    IF sub = "node" THEN \A a \in access : NodeAllows(a[1]) /\ a[2] = "pull"
                    ELSE \A a \in access : CanAccessScope(a[1])

(* A pull credential that is live; a person by key, password or registry     *)
(* credential, with the account's current teams.                             *)
NodeAuthenticated == pullKey = "live"
PersonAuthenticated == person.active
Authenticated(sub) == IF sub = "node" THEN NodeAuthenticated ELSE PersonAuthenticated

\* Mutant: a registry token lives as long as a sign-in.
MutHandleToken(sub, access) ==
    /\ Authenticated(sub) /\ MayHold(sub, access)
    /\ Issue(Token("registry", sub, access, SessionTTL, SessionTTL))
    /\ UNCHANGED <<person, pullKey, answer, lost, honoured>>

HandleToken(sub, access) ==
    /\ Authenticated(sub) /\ MayHold(sub, access)
    /\ Issue(Token("registry", sub, access, Lifetime, Lifetime))
    /\ UNCHANGED <<person, pullKey, answer, lost, honoured>>

(* The pull credential: its prefixes come from its namespace. *)
CreateRegistryPullCredential ==
    /\ pullKey = "none" /\ pullKey' = "live"
    /\ UNCHANGED <<person, tokens, answer, lost, honoured>>

RevokeRegistryPullCredential ==
    /\ pullKey = "live" /\ pullKey' = "revoked"
    /\ UNCHANGED <<person, tokens, answer, lost, honoured>>

(* The native forward-auth: the token's own access decides; a cross-         *)
(* repository mount needs pull on its source as well.                        *)
ForwardBearer(t, want, from) ==
    /\ t.aud = "registry" /\ want \in t.access
    /\ \A r \in from : <<r, "pull">> \in t.access
    /\ honoured' = [with |-> t.sub, at |-> "registry", did |-> {want} \cup {<<r, "pull">> : r \in from}]
    /\ UNCHANGED <<person, pullKey, tokens, answer, lost>>

(* A node's credential presented directly: reads only. *)
ForwardPullCredential(want) ==
    /\ NodeAuthenticated /\ want[2] = "pull" /\ NodeAllows(want[1])
    /\ honoured' = [with |-> "node", at |-> "registry", did |-> {want}]
    /\ UNCHANGED <<person, pullKey, tokens, answer, lost>>

(* A person's password, key or registry credential: current teams decide. *)
HandleAuthz(want, from) ==
    /\ PersonAuthenticated /\ CanAccessScope(want[1]) /\ \A r \in from : CanAccessScope(r)
    /\ honoured' = [with |-> "person", at |-> "registry", did |-> {want} \cup {<<r, "pull">> : r \in from}]
    /\ UNCHANGED <<person, pullKey, tokens, answer, lost>>

--------------------------------------------------------------------------------
(* A team drops the person, or the account goes (module Accounts). *)
LeaveTeam(t) ==
    /\ t \in person.teams
    /\ person' = [person EXCEPT !.teams = @ \ {t}]
    /\ lost' = [lost EXCEPT ![t] = 0]
    /\ UNCHANGED <<pullKey, tokens, answer, honoured>>

Deactivate ==
    /\ person.active
    /\ person' = [active |-> FALSE, teams |-> {}, key |-> IF person.key = "live" THEN "revoked" ELSE person.key]
    /\ lost' = [t \in TeamScopes |-> IF t \in person.teams THEN 0 ELSE lost[t]]
    /\ UNCHANGED <<pullKey, tokens, answer, honoured>>

(* Verification refuses an expired token. *)
VerifyAccess(t) == t.left > 1

(* Time passes: what expires is refused from then on (VerifyAccess). *)
TokensTick ==
    /\ tokens' = {[t EXCEPT !.left = @ - 1, !.root = IF @ = 0 THEN 0 ELSE @ - 1] : t \in {x \in tokens : VerifyAccess(x)}}
    /\ answer' = IF answer.left <= 1 THEN NoAnswer ELSE [answer EXCEPT !.left = @ - 1]
    /\ lost' = [t \in TeamScopes |-> IF lost[t] < Recently THEN lost[t] + 1 ELSE lost[t]]
    /\ honoured' = Nothing
    /\ UNCHANGED <<person, pullKey>>

TokensNext ==
    \/ CreateAccessToken \/ CreateKey \/ RevokeKey \/ ResolveAPIKey
    \/ \E t \in tokens : Exchange(t) \/ \E aud \in {"platform", "runtime"} : AuthenticateJWT(t, aud)
    \/ \E sub \in {"person", "node"}, access \in kSubset(1, Accesses) \cup kSubset(2, Accesses) : HandleToken(sub, access)
    \/ CreateRegistryPullCredential \/ RevokeRegistryPullCredential
    \/ \E want \in Accesses :
         \/ ForwardPullCredential(want)
         \/ \E from \in kSubset(0, Repos) \cup kSubset(1, Repos) :
              HandleAuthz(want, from) \/ \E t \in tokens : ForwardBearer(t, want, from)
    \/ \E t \in TeamScopes : LeaveTeam(t)
    \/ Deactivate \/ TokensTick

TokensSpec == TokensInit /\ [][TokensNext]_tokenVars

--------------------------------------------------------------------------------
(* Audiences, subjects and what a token may carry; nothing outlives its TTL. *)
TokensTypeOK ==
    /\ person \in [active : BOOLEAN, teams : SUBSET TeamScopes, key : {"none", "live", "revoked"}]
    /\ pullKey \in {"none", "live", "revoked"}
    /\ \A t \in tokens : t.left \in 1..SessionTTL \cup 1..Lifetime /\ t.access \subseteq Accesses
    /\ answer \in [says : BOOLEAN, left : 0..CacheTTL]
    /\ lost \in [TeamScopes -> 0..Recently]

(* Leaving a team (or losing the account) ends access to its repositories    *)
(* within one token lifetime, whatever tokens were collected before.         *)
RegistryStaleness ==
    honoured.with = "person" /\ honoured.at = "registry" =>
        \A a \in honoured.did : \/ Scope[a[1]] \in OpenScopes \cup person.teams
                                \/ Scope[a[1]] \in TeamScopes /\ lost[Scope[a[1]]] <= Lifetime

(* A node's credential, directly or through tokens it bought, never writes   *)
(* and never reads another team's repositories.                              *)
NodesOnlyPull ==
    honoured.with = "node" => \A a \in honoured.did : a[2] = "pull" /\ NodeAllows(a[1])

(* A token exchanged for a split API never outlives the sign-in behind it.   *)
ExchangeNeverOutlives == \A t \in tokens : t.left <= t.root

(* A revoked key is refused at the next request, on every service: the       *)
(* resolver's cache never keeps it alive.                                    *)
RevokedKeyRefused == honoured.with # "dead key"
(* What was taken away stops working within the bounds the services give: a  *)
(* registry token's lifetime, the sign-in behind an exchange, at once for a  *)
(* key; and a node's credential never grows.                                 *)
TokensBounded == TokensTypeOK /\ RegistryStaleness /\ NodesOnlyPull /\ ExchangeNeverOutlives /\ RevokedKeyRefused
=============================================================================
