----------------------------- MODULE SessionSync -----------------------------
(***************************************************************************)
(* A gateway's view of the platform's sessions:                            *)
(* services/mcp-gateway/session_sync.go against the reads of               *)
(* platformstore/sessions.go, served by sessionapi/handlers.go (Gateway).  *)
(*                                                                         *)
(* One goroutine polls (a snapshot first, then pages of the change log);   *)
(* request handlers read the view and, when it is fresh and misses, ask    *)
(* the platform for one session.  Both go through one HTTP client, whose   *)
(* timeout covers a call from its start to the decoded body.  Between a    *)
(* call's start, its service by the platform and its use in the gateway,   *)
(* everything else may happen.                                             *)
(*                                                                         *)
(* Time is a count of ticks.  Only ages are kept, each up to the bound     *)
(* beyond which nothing tells them apart.                                  *)
(***************************************************************************)
EXTENDS SessionLog

CONSTANTS
    StaleWindow,   \* staleWindow
    Timeout        \* http.Client.Timeout

ASSUME SyncAssumption ==
    /\ StaleWindow \in Nat \ {0}
    /\ Timeout \in Nat \ {0}

VARIABLES
    cache,      \* gatewaySessionSync: epoch (0 for "", and then sessions is the
                \* nil map), sequence, sessions, age of lastSync
    poll,       \* the sync goroutine
    lookup,     \* one get-on-miss of a request handler
    superseded, \* history: superseded[n] is the age of change n + 1, 0 if none
    rejected    \* history: an identity rejection, and no snapshot since

gatewayVars == <<cache, poll, lookup>>
vars == <<logVars, gatewayVars, superseded, rejected>>

-----------------------------------------------------------------------------
NoResponse == [kind |-> "none"]
Idle == [pc |-> "idle", age |-> 0, resp |-> NoResponse]

Stale == StaleWindow + 1             \* lastSync is zero or too old
LongAgo == StaleWindow + Timeout + 1 \* bound: ages of changes up to here

\* Mutant: an invalidated view keeps its epoch and so its cursor.
invalidateKeepsEpoch(c) == [c EXCEPT !.sessions = Nothing, !.age = Stale]

\* invalidate, and the same three assignments after a reset: sequence stays.
invalidate(c) == [c EXCEPT !.epoch = 0, !.sessions = Nothing, !.age = Stale]

NewGateway == [epoch |-> 0, sequence |-> 0, sessions |-> Nothing, age |-> Stale]

\* Mutant: freshness is decided once, by the first snapshot.
freshAlways(c) == c.epoch # 0

fresh(c) == c.age <= StaleWindow

Init ==
    /\ LogInit
    /\ cache = NewGateway
    /\ poll = Idle
    /\ lookup = "idle"
    /\ superseded = [n \in 0 .. MaxSeq |-> 0]
    /\ rejected = FALSE

\* 401 or 403.  The platform answers 403 whenever it cannot authenticate the
\* gateway, so also while the Kubernetes API fails.
Rejection == [kind |-> "rejected"]

-----------------------------------------------------------------------------
\* The gateway: the polling goroutine.

PollStart ==
    /\ poll.pc = "idle"
    /\ poll' = [pc |-> "sent", age |-> 0, resp |-> NoResponse,
                epoch |-> cache.epoch, after |-> cache.sequence]
    /\ UNCHANGED <<cache, lookup, rejected>>

PollServe ==
    /\ poll.pc = "sent"
    /\ poll' = [poll EXCEPT !.pc = "served",
                    !.resp = IF poll.epoch = 0 THEN SessionSnapshot
                             ELSE SessionChanges(poll.epoch, poll.after)]
    /\ UNCHANGED <<cache, lookup, rejected>>

PollReject ==
    /\ poll.pc = "sent"
    /\ poll' = [poll EXCEPT !.pc = "served", !.resp = Rejection]
    /\ UNCHANGED <<cache, lookup, rejected>>

\* No answer in time, any other status, or no credential to send.
PollFail ==
    /\ poll.pc # "idle"
    /\ poll' = Idle
    /\ UNCHANGED <<cache, lookup, rejected>>

Answered(kind) == poll.pc = "served" /\ poll.resp.kind = kind

ApplySnapshot ==
    /\ Answered("snapshot")
    /\ cache' = [epoch |-> poll.resp.epoch, sequence |-> poll.resp.sequence,
                 sessions |-> poll.resp.sessions, age |-> 0]
    /\ poll' = Idle
    /\ rejected' = FALSE
    /\ UNCHANGED lookup

ApplyGone ==
    /\ Answered("gone")
    /\ cache' = invalidate(cache)
    /\ poll' = Idle
    /\ UNCHANGED <<lookup, rejected>>

ApplyRejection ==
    /\ Answered("rejected")
    /\ cache' = invalidate(cache)
    /\ poll' = Idle
    /\ rejected' = TRUE
    /\ UNCHANGED lookup

\* Mutant: every page renews freshness.
AdvancedEveryPage(resp) ==
    [cache EXCEPT !.sequence = resp.sequence,
                  !.sessions = Apply(cache.sessions, resp.changes),
                  !.age = 0]

\* The cursor moves with every page; only the last page renews freshness.
Advanced(resp) ==
    [cache EXCEPT !.sequence = resp.sequence,
                  !.sessions = Apply(cache.sessions, resp.changes),
                  !.age = IF resp.more THEN cache.age ELSE 0]

\* A write to the nil map, which a rejected lookup has left, panics.
Panics(resp) == cache.epoch = 0 /\ \E c \in resp.changes : c.row # NoRow

Restart ==
    /\ cache' = NewGateway
    /\ poll' = Idle
    /\ lookup' = "idle"
    /\ rejected' = FALSE

ApplyChanges ==
    /\ Answered("changes")
    /\ ~ Panics(poll.resp)
    /\ cache' = Advanced(poll.resp)
    /\ poll' = Idle
    /\ UNCHANGED <<lookup, rejected>>

PanicInSync ==
    /\ Answered("changes")
    /\ Panics(poll.resp)
    /\ Restart

-----------------------------------------------------------------------------
\* The gateway: binding() of a request for a session the view has not got.

LookupStart(id) ==
    /\ lookup = "idle"
    /\ fresh(cache) /\ cache.sessions[id] = NoRow
    /\ lookup' = "sent"
    /\ UNCHANGED <<cache, poll, rejected>>

LookupReject ==
    /\ lookup = "sent"
    /\ lookup' = "rejected"
    /\ UNCHANGED <<cache, poll, rejected>>

\* The request goes on with the row that it was given, or is refused without
\* one; the view is left alone.
LookupDone ==
    /\ lookup = "sent"
    /\ lookup' = "idle"
    /\ UNCHANGED <<cache, poll, rejected>>

LookupRejected ==
    /\ lookup = "rejected"
    /\ cache' = invalidate(cache)
    /\ lookup' = "idle"
    /\ rejected' = TRUE
    /\ UNCHANGED poll

-----------------------------------------------------------------------------

\* A poll is over before its timeout has passed.
Tick ==
    /\ poll.age < Timeout
    /\ cache' = [cache EXCEPT !.age = IF @ < Stale THEN @ + 1 ELSE @]
    /\ poll' = [poll EXCEPT !.age = IF poll.pc = "idle" THEN 0 ELSE @ + 1]
    /\ superseded' = [n \in 0 .. MaxSeq |->
                         IF n < sequence /\ superseded[n] < LongAgo
                         THEN superseded[n] + 1 ELSE superseded[n]]
    /\ UNCHANGED <<logVars, lookup, rejected>>

GatewayStep ==
    /\ \/ PollStart \/ PollServe \/ PollReject \/ PollFail
       \/ ApplySnapshot \/ ApplyGone \/ ApplyRejection \/ ApplyChanges
       \/ PanicInSync \/ Restart
       \/ \E id \in Ids : LookupStart(id)
       \/ LookupReject \/ LookupDone \/ LookupRejected
    /\ UNCHANGED <<logVars, superseded>>

PlatformStep ==
    /\ LogNext
    /\ UNCHANGED <<gatewayVars, superseded, rejected>>

Next == GatewayStep \/ PlatformStep \/ Tick

Spec == Init /\ [][Next]_vars

\* Time passes, calls end and the polling goroutine never stops.
Fairness ==
    /\ WF_vars(Tick)
    /\ WF_vars(PollStart /\ UNCHANGED <<logVars, superseded>>)
    /\ WF_vars(PollFail /\ UNCHANGED <<logVars, superseded>>)
    /\ WF_vars(LookupDone /\ UNCHANGED <<logVars, superseded>>)
    /\ WF_vars(LookupRejected /\ UNCHANGED <<logVars, superseded>>)

\* A platform that is asked again and again answers again and again.
Answers ==
    /\ SF_vars(PollServe /\ UNCHANGED <<logVars, superseded>>)
    /\ SF_vars(ApplySnapshot /\ UNCHANGED <<logVars, superseded>>)
    /\ SF_vars(ApplyGone /\ UNCHANGED <<logVars, superseded>>)
    /\ SF_vars(ApplyChanges /\ UNCHANGED <<logVars, superseded>>)

FairSpec == Spec /\ Fairness

-----------------------------------------------------------------------------
\* Properties.

TypeOK ==
    /\ LogTypeOK
    /\ cache \in [epoch : Nat, sequence : Nat,
                  sessions : [Ids -> Rows \cup {NoRow}], age : 0 .. Stale]
    /\ poll.pc \in {"idle", "sent", "served"}
    /\ poll.age \in 0 .. Timeout
    /\ lookup \in {"idle", "sent", "rejected"}
    /\ superseded \in [0 .. MaxSeq -> 0 .. LongAgo]
    /\ rejected \in BOOLEAN

\* The view is the server's active sessions as of its cursor: whatever
\* rejections, pages, removed changes and restarts lie behind it, no session of
\* another moment or of a lookup is in it, and none is missing.
ViewMatchesCursor ==
    cache.epoch # 0 /\ cache.sequence >= floor =>
        cache.sessions = past[cache.sequence]

\* A view that is used is at most StaleWindow + Timeout behind: no change older
\* than that is missing from it, however slow or unreachable the platform is and
\* however the pages of a long log were fetched.
BoundedStaleness ==
    fresh(cache) => superseded[cache.sequence] <= StaleWindow + Timeout

\* An identity rejection leaves no usable view until a new snapshot is applied.
RejectionInvalidates == rejected => ~ fresh(cache)

Serves(id) == fresh(cache) /\ cache.sessions[id] # NoRow
Authorized(id) == view[id] # NoRow

\* A session that is not active stops being served, even if the platform never
\* answers again.
RevocationTakesEffect ==
    \A id \in Ids : ~ Authorized(id) ~> ~ Serves(id) \/ Authorized(id)

InSync ==
    /\ fresh(cache)
    /\ cache.epoch = epoch
    /\ cache.sessions = view

\* A gateway whose calls are answered again and again is in step with the
\* platform again and again: no reset, rejection, restart or page leaves it
\* stuck.
Converges == Answers => []<>InSync
\* What a gateway may conclude from its cache: the log it follows replays to the
\* platform's table, the view is the table of its cursor, and a view in use is
\* behind by no more than the staleness window and one call.
ViewSound == TypeOK /\ LogReplays /\ ViewMatchesCursor /\ BoundedStaleness
=============================================================================
