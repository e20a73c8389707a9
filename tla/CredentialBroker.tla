-------------------------- MODULE CredentialBroker --------------------------
(* The credential broker: administrators approve secret sources, namespace   *)
(* owners bind them to servers, and a gateway resolves a binding for one     *)
(* tool call in three phases: an unlocked snapshot with a first decision,    *)
(* the provider's read without any lock, and under the session-state lock a  *)
(* second read, comparison and decision, the audit row and the commit.  The  *)
(* decision asks Kubernetes for the server and the grant, one call after the *)
(* other; the lock, which is the database's, does not hold these still.      *)
EXTENDS Integers, FiniteSets, FiniteSetsExt

CONSTANTS
    SourceNames,  \* names of credential sources
    Resources,    \* provider references a source can name
    Resolutions,  \* resolution requests
    MaxRevision,  \* bound: revisions of a name
    MaxTurns      \* bound: changes of the authority behind the session

ASSUME BrokerAssumption ==
    SourceNames # {} /\ Resources # {} /\ MaxRevision \in Nat \ {0} /\ MaxTurns \in Nat

VARIABLES
    sources,      \* credential_metadata of kind "sources"
    binding,      \* the binding under its name
    authority,    \* what is in force of the parts a session rests on
    turns,        \* how often that changed
    resolutions,  \* of each request the phase, whether it has the lock, its snapshot and the value
    stood,        \* history: the parts in force at some moment since the provider answered it
    audits,       \* resolutions with an audit row of success
    handed        \* what was handed out last, what was in force then and what had been
brokerVars == <<sources, binding, authority, turns, resolutions, stood, audits, handed>>

NoSource == [revision |-> 0, resource |-> "none", approves |-> FALSE]
NoBinding == [revision |-> 0, source |-> "none"]
NoSnapshot == [binding |-> NoBinding, source |-> NoSource]
AtRest == [phase |-> "none", locked |-> FALSE, snapshot |-> NoSnapshot, value |-> "none"]

(* The parts of the authority a resolution re-reads.  The first two are rows  *)
(* of the database that only change under the session-state lock, or that the *)
(* reader locks (FOR SHARE): the platform session with its revocation, and    *)
(* the person, agent and team.  The session's expiry is a matter of the       *)
(* clock, the server and the grant are Kubernetes objects.                    *)
Stored == {"session", "subjects"}
Parts == Stored \cup {"expiry", "server", "grant"}
NotHanded == [read |-> "none", named |-> "none", standing |-> Stored, stood |-> Parts]

BrokerInit ==
    /\ sources = [s \in SourceNames |-> NoSource]
    /\ binding = NoBinding
    /\ authority = Parts
    /\ turns = 0
    /\ resolutions = [r \in Resolutions |-> AtRest]
    /\ stood = [r \in Resolutions |-> {}]
    /\ audits = {}
    /\ handed = NotHanded

--------------------------------------------------------------------------------
(* Management, each under the session-state lock. *)
Unlocked == \A r \in Resolutions : ~resolutions[r].locked

(* credentialNamespace, credentialAdmin and credentialSourceAuthority decide  *)
(* for the caller; the callers here are the ones they admit.                 *)
ExactRevision(current, presented) == current.revision = presented /\ presented < MaxRevision

PutSource(s, presented, resource, approves) ==
    /\ Unlocked /\ ExactRevision(sources[s], presented)
    /\ sources' = [sources EXCEPT ![s] = [revision |-> presented + 1, resource |-> resource, approves |-> approves]]
    /\ UNCHANGED <<binding, authority, turns, resolutions, stood, audits, handed>>

(* A binding names an approved source, for subjects that are in force.  Its  *)
(* server was read before the lock was taken, and may be retired since.      *)
PutBinding(s, presented) ==
    /\ Unlocked /\ "subjects" \in authority
    /\ sources[s] # NoSource /\ sources[s].approves
    /\ ExactRevision(binding, presented)
    /\ binding' = [revision |-> presented + 1, source |-> s]
    /\ UNCHANGED <<sources, authority, turns, resolutions, stood, audits, handed>>

(* A source goes only while no binding names it; its revisions start over. *)
DeleteSource(s) ==
    /\ Unlocked /\ sources[s] # NoSource
    /\ binding.source # s
    /\ sources' = [sources EXCEPT ![s] = NoSource]
    /\ UNCHANGED <<binding, authority, turns, resolutions, stood, audits, handed>>

DeleteBinding ==
    /\ Unlocked /\ binding # NoBinding
    /\ binding' = NoBinding
    /\ UNCHANGED <<sources, authority, turns, resolutions, stood, audits, handed>>

Fetched(r) == resolutions[r].phase = "check" \/ resolutions[r].locked

MayTurn(p) == p \in Stored => Unlocked
(* A part stops or resumes; what the lock covers, only while nobody holds it. *)
TurnAuthority(p) ==
    /\ MayTurn(p)
    /\ turns < MaxTurns
    /\ turns' = turns + 1
    /\ authority' = IF p \in authority THEN authority \ {p} ELSE authority \cup {p}
    /\ stood' = [r \in Resolutions |-> IF Fetched(r) THEN stood[r] \cup authority' ELSE stood[r]]
    /\ UNCHANGED <<sources, binding, resolutions, audits, handed>>

--------------------------------------------------------------------------------
(* Resolution. *)

(* loadCredentialSnapshot: session and subjects, the binding, its source,    *)
(* which must approve of the subjects.                                       *)
Loadable ==
    /\ Stored \cup {"expiry"} \subseteq authority
    /\ binding # NoBinding
    /\ sources[binding.source] # NoSource /\ sources[binding.source].approves
Snapshot == [binding |-> binding, source |-> sources[binding.source]]

\* Mutant: two snapshots are compared by their revisions.
MutSameCredentialMetadata(a, b) ==
    a.binding.revision = b.binding.revision /\ a.source.revision = b.source.revision

(* Full content, not names and revisions. *)
SameCredentialMetadata(a, b) == a = b

Advance(r, phase, locked, snapshot, value) ==
    resolutions' = [resolutions EXCEPT ![r] = [phase |-> phase, locked |-> locked, snapshot |-> snapshot, value |-> value]]
Move(r, phase) == Advance(r, phase, resolutions[r].locked, resolutions[r].snapshot, resolutions[r].value)
End(r, phase) == Advance(r, phase, FALSE, NoSnapshot, "none") /\ stood' = [stood EXCEPT ![r] = {}]
RestOf == <<sources, binding, authority, turns, audits, handed>>

(* Phase 1: session, subjects and binding, then the source. *)
TakeSnapshot(r) ==
    /\ resolutions[r].phase = "none" /\ Stored \cup {"expiry"} \subseteq authority /\ binding # NoBinding
    /\ Advance(r, "source", FALSE, [binding |-> binding, source |-> NoSource], "none")
    /\ UNCHANGED stood /\ UNCHANGED RestOf
ReadSource(r) ==
    LET source == sources[resolutions[r].snapshot.binding.source]
    IN  /\ resolutions[r].phase = "source" /\ source # NoSource /\ source.approves
        /\ Advance(r, "server", FALSE, [resolutions[r].snapshot EXCEPT !.source = source], "none")
        /\ UNCHANGED stood /\ UNCHANGED RestOf

(* Handler.authorize and checkBinding, in both rounds: the server, the grant  *)
(* with the policy decision, and the server again for the binding.            *)
AskFor(r, phase, part, next) ==
    /\ resolutions[r].phase = phase /\ part \in authority /\ Move(r, next)
    /\ UNCHANGED stood /\ UNCHANGED RestOf
GetServer(r) == AskFor(r, "server", "server", "grant")
GetGrant(r) == AskFor(r, "grant", "grant", "binding")
checkBinding(r) == AskFor(r, "binding", "server", IF resolutions[r].locked THEN "commit" ELSE "read")

(* Phase 2: the provider answers for the reference it was given. *)
FetchValue(r) ==
    /\ resolutions[r].phase = "read"
    /\ Advance(r, "check", FALSE, resolutions[r].snapshot, resolutions[r].snapshot.source.resource)
    /\ stood' = [stood EXCEPT ![r] = authority]
    /\ UNCHANGED RestOf

(* Phase 3: the lock, and everything is read again; Kubernetes is asked       *)
(* again, then the audit row and the answer are committed.                    *)
Unchanged(r) == Loadable /\ SameCredentialMetadata(resolutions[r].snapshot, Snapshot)
Reread(r) ==
    /\ resolutions[r].phase = "check" /\ Unlocked /\ Unchanged(r)
    /\ Advance(r, "server", TRUE, resolutions[r].snapshot, resolutions[r].value)
    /\ UNCHANGED stood /\ UNCHANGED RestOf
HandOut(r) ==
    /\ resolutions[r].phase = "commit"
    /\ audits' = audits \cup {r}
    /\ handed' = [read |-> resolutions[r].value, named |-> sources[binding.source].resource,
                  standing |-> authority \cap Stored, stood |-> stood[r]]
    /\ End(r, "done")
    /\ UNCHANGED <<sources, binding, authority, turns>>

(* Anywhere: something does not stand, a call fails or takes too long (or the  *)
(* provider failed for this source a moment ago and is not asked).            *)
Withhold(r) ==
    /\ resolutions[r].phase \notin {"done", "denied"}
    /\ End(r, "denied")
    /\ UNCHANGED RestOf

BrokerNext ==
    \/ \E s \in SourceNames, rev \in 0..MaxRevision :
         PutBinding(s, rev) \/ \E x \in Resources, ok \in BOOLEAN : PutSource(s, rev, x, ok)
    \/ \E s \in SourceNames : DeleteSource(s)
    \/ DeleteBinding
    \/ \E p \in Parts : TurnAuthority(p)
    \/ \E r \in Resolutions :
         \/ TakeSnapshot(r) \/ ReadSource(r) \/ GetServer(r) \/ GetGrant(r) \/ checkBinding(r)
         \/ FetchValue(r) \/ Reread(r) \/ HandOut(r) \/ Withhold(r)

BrokerSpec == BrokerInit /\ [][BrokerNext]_brokerVars

--------------------------------------------------------------------------------
(* Every binding names a source that exists: a source and the binding that   *)
(* would use it are created and deleted in any order.                        *)
BrokerTypeOK ==
    /\ \A s \in SourceNames : sources[s].revision \in 0..MaxRevision
    /\ binding = NoBinding \/ sources[binding.source] # NoSource
    /\ \A r \in Resolutions :
         resolutions[r].phase \in {"none", "source", "server", "grant", "binding", "read", "check", "commit", "done", "denied"}
    /\ {r \in Resolutions : resolutions[r].phase = "done"} = audits

(* A value handed out belongs to the source the binding names at that        *)
(* moment, although sources and bindings were changed, or deleted and made   *)
(* anew under the same revision, while the provider was being read.          *)
HandedIsCurrent == handed.read = handed.named

(* When a value is handed out, the session is not revoked and person, agent  *)
(* and team are active, at that very moment.  The server, the grant and the   *)
(* session's lifetime were each in force at some moment after the provider    *)
(* had answered: one that ended before, or while it was being read, and was   *)
(* not restored, is noticed.  One that ends between its last read and the     *)
(* commit is not: the lock does not cover Kubernetes or the clock.            *)
HandedInForce == handed.standing = Stored /\ handed.stood = Parts
(* A credential is handed out only if its session, its subjects, its binding  *)
(* and its source stand at that moment, the value read is the one they name,  *)
(* and everything else has stood at some moment since the provider answered.  *)
HandOutsSound == BrokerTypeOK /\ HandedIsCurrent /\ HandedInForce

-----------------------------------------------------------------------------
(* How the credential broker remembers Pod tokens: verdicts are cached for   *)
(* a short time, a token that was good a while ago renews on a budget of its *)
(* own, unknown tokens share the cold budget, and a full cache sheds         *)
(* rejected tokens first.  Times are ticks still to run.                     *)

CONSTANTS
    PodTokens,    \* bearer tokens presented to the broker
    GoodTokens,   \* those of running Pods
    GoodTTL, RenewWindow, BadTTL,
    CacheMax,     \* entries of both kinds together
    ColdBurst, RenewBurst,  \* budgets, refilled by one a tick
    ReviewTime,   \* ticks a TokenReview can take (the request's deadline)
    MaxReviews    \* bound: reviews under way at once

ASSUME BrokerAuthAssumption ==
    /\ IsFiniteSet(PodTokens) /\ GoodTokens \subseteq PodTokens
    /\ {GoodTTL, RenewWindow, BadTTL, CacheMax, ColdBurst, RenewBurst, ReviewTime, MaxReviews} \subseteq Nat \ {0}
    /\ GoodTTL <= RenewWindow

VARIABLES
    alive,     \* tokens of Pods that still run
    dead,      \* ticks since a Pod stopped
    good,      \* authOK: ticks until the entry is dropped (0 = no entry)
    bad,       \* authBad: ticks until it expires
    cold, renewal,  \* what the budgets still hold
    reviews,   \* TokenReviews under way: token, verdict and age
    admitted   \* the token answered last, and how: admitted, or limited as what
brokerAuthVars == <<alive, dead, good, bad, cold, renewal, reviews, admitted>>

NotAdmitted == [token |-> "none", how |-> "none"]
Forgotten == GoodTTL + ReviewTime + 1

BrokerAuthInit ==
    /\ alive = GoodTokens
    /\ dead = [t \in PodTokens |-> IF t \in GoodTokens THEN 0 ELSE Forgotten]
    /\ good = [t \in PodTokens |-> 0]
    /\ bad = [t \in PodTokens |-> 0]
    /\ cold = ColdBurst
    /\ renewal = [t \in PodTokens |-> RenewBurst]
    /\ reviews = {}
    /\ admitted = NotAdmitted

(* CachedAuth: a rejection first, then a fresh verdict, then a renewable one. *)
CachedAuth(t) ==
    IF bad[t] > 0 THEN "rejected"
    ELSE IF good[t] > RenewWindow - GoodTTL THEN "valid"
    ELSE IF good[t] > 0 THEN "renewable"
    ELSE "unknown"

Entries(g, b) == Cardinality({t \in PodTokens : g[t] > 0}) + Cardinality({t \in PodTokens : b[t] > 0})
Without(f, s) == [t \in PodTokens |-> IF t \in s THEN 0 ELSE f[t]]

Verified == {t \in PodTokens : good[t] > 0}
Rejected == {t \in PodTokens : bad[t] > 0}

(* RecordAuth makes room: rejected tokens go first, verified ones only when  *)
(* none is left; no more than needed.                                        *)
Sheds(g) ==
    IF Entries(g, bad) < CacheMax THEN {<<{}, {}>>}
    ELSE {x \in (SUBSET Verified) \X (SUBSET Rejected) :
            /\ Entries(Without(g, x[1]), Without(bad, x[2])) = CacheMax - 1
            /\ x[1] # {} => x[2] = Rejected}

(* A request with a fresh verdict goes through; a rejected one is refused.   *)
AdmitCached(t) ==
    /\ CachedAuth(t) = "valid"
    /\ admitted' = [token |-> t, how |-> "admitted"]
    /\ UNCHANGED <<alive, dead, good, bad, cold, renewal, reviews>>

\* Mutant: everyone pays from the budget of unknown callers.
MutCharged(t) == "cold"

(* A review is charged to the token's own budget or to the cold one. *)
Charged(t) == IF CachedAuth(t) = "renewable" THEN "own" ELSE "cold"
Remaining(t) == IF Charged(t) = "own" THEN renewal[t] ELSE cold

(* A TokenReview starts; the API server decides when it is asked. *)
StartReview(t) ==
    /\ CachedAuth(t) \in {"unknown", "renewable"}
    /\ Remaining(t) > 0 /\ Cardinality(reviews) < MaxReviews
    /\ renewal' = [renewal EXCEPT ![t] = IF Charged(t) = "own" THEN @ - 1 ELSE @]
    /\ cold' = IF Charged(t) = "cold" THEN cold - 1 ELSE cold
    /\ reviews' = reviews \cup {[token |-> t, verdict |-> t \in alive, age |-> 0]}
    /\ UNCHANGED <<alive, dead, good, bad, admitted>>

(* No budget: the request is told to come back. *)
RateLimited(t) ==
    /\ CachedAuth(t) \in {"unknown", "renewable"}
    /\ Remaining(t) = 0
    /\ admitted' = [token |-> t, how |-> CachedAuth(t)]
    /\ UNCHANGED <<alive, dead, good, bad, cold, renewal, reviews>>

(* The verdict is recorded; a definite rejection forgets an older good one   *)
(* first.                                                                    *)
EndReview(v) ==
    /\ reviews' = reviews \ {v}
    /\ IF v.verdict
       THEN /\ \E x \in Sheds(good) : /\ good' = [Without(good, x[1]) EXCEPT ![v.token] = RenewWindow]
                                     /\ bad' = Without(bad, x[2])
            /\ admitted' = [token |-> v.token, how |-> "admitted"]
       ELSE /\ \E x \in Sheds(Without(good, {v.token})) :
                 /\ good' = Without(good, x[1] \cup {v.token})
                 /\ bad' = [Without(bad, x[2]) EXCEPT ![v.token] = BadTTL]
            /\ UNCHANGED admitted
    /\ UNCHANGED <<alive, dead, cold, renewal>>

(* The review cannot be made: this request fails, nothing is remembered. *)
ReviewUnavailable(v) ==
    /\ reviews' = reviews \ {v}
    /\ UNCHANGED <<alive, dead, good, bad, cold, renewal, admitted>>

StopPod(t) ==
    /\ t \in alive
    /\ alive' = alive \ {t}
    /\ UNCHANGED <<dead, good, bad, cold, renewal, reviews, admitted>>

Down(n) == IF n > 0 THEN n - 1 ELSE 0
BrokerAuthTick ==
    /\ \A v \in reviews : v.age < ReviewTime
    /\ dead' = [t \in PodTokens |-> IF t \in alive \/ dead[t] = Forgotten THEN dead[t] ELSE dead[t] + 1]
    /\ good' = [t \in PodTokens |-> Down(good[t])]
    /\ bad' = [t \in PodTokens |-> Down(bad[t])]
    /\ cold' = IF cold < ColdBurst THEN cold + 1 ELSE cold
    /\ renewal' = [t \in PodTokens |-> IF renewal[t] < RenewBurst THEN renewal[t] + 1 ELSE renewal[t]]
    /\ reviews' = {[v EXCEPT !.age = @ + 1] : v \in reviews}
    /\ admitted' = NotAdmitted
    /\ UNCHANGED alive

BrokerAuthNext ==
    \/ \E t \in PodTokens : AdmitCached(t) \/ StartReview(t) \/ RateLimited(t) \/ StopPod(t)
    \/ \E v \in reviews : EndReview(v) \/ ReviewUnavailable(v)
    \/ BrokerAuthTick

BrokerAuthSpec == BrokerAuthInit /\ [][BrokerAuthNext]_brokerAuthVars

--------------------------------------------------------------------------------
(* Budgets and lifetimes in range, and the cache never over its size. *)
BrokerAuthTypeOK ==
    /\ cold \in 0..ColdBurst /\ renewal \in [PodTokens -> 0..RenewBurst]
    /\ good \in [PodTokens -> 0..RenewWindow] /\ bad \in [PodTokens -> 0..BadTTL]
    /\ Entries(good, bad) <= CacheMax

(* The token of a Pod that stopped is honoured for no longer than a cached   *)
(* verdict lasts, counted from the end of the slowest review.                *)
VerdictStaleness ==
    admitted.how = "admitted" => admitted.token \in alive \/ dead[admitted.token] <= GoodTTL + ReviewTime

(* Unknown tokens cannot starve a caller that was verified a while ago: it   *)
(* is limited only when it spent its own budget.                             *)
KnownCallerNotStarved == admitted.how = "renewable" => renewal[admitted.token] = 0

(* A verified caller loses its entry to other tokens' verdicts only when no  *)
(* rejected one is left to shed.                                             *)
RejectedShedFirst ==
    [][\A v \in reviews, t \in PodTokens :
         reviews' = reviews \ {v} /\ t # v.token /\ good[t] > 0 /\ good'[t] = 0 /\ dead' = dead =>
             \A x \in PodTokens \ {v.token} : bad'[x] = 0]_brokerAuthVars
(* Cached verdicts are honoured for a bounded time, and callers that are     *)
(* known suffer nothing from a flood of those that are not.                  *)
ReviewsSound == [](BrokerAuthTypeOK /\ VerdictStaleness /\ KnownCallerNotStarved) /\ RejectedShedFirst
=============================================================================
