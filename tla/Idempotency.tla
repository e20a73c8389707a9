----------------------------- MODULE Idempotency -----------------------------
(***************************************************************************)
(* The gateway's Idempotency-Key store and the request handlers using it:  *)
(* services/mcp-gateway/idempotency_store.go (memoryIdempotencyStore) and  *)
(* idempotency.go (idempotentUpstream).                                    *)
(*                                                                         *)
(* A handler is a goroutine serving one keyed tools/call.  Every store     *)
(* operation runs under the store's mutex and is one action.  What happens *)
(* between two store operations of a handler (forwarding upstream, the     *)
(* upstream's answer) is separate, so the operations of other handlers     *)
(* interleave with it.                                                     *)
(***************************************************************************)
EXTENDS Integers, FiniteSets

CONSTANTS
    Handlers,      \* goroutines that can serve keyed requests at one time
    Keys,          \* scoped keys: hashes over principal, session, server, key
    Sessions,      \* the Session half of an idemScope
    Principals,    \* the Principal half of an idemScope
    Hashes,        \* request hashes (method, tool, JSON-RPC id, params)
    Bodies,        \* what the upstream may answer
    SessionOf,     \* the session a scoped key belongs to
    PrincipalOf,   \* the principal a session belongs to
    None,          \* no handler, key, hash or body
    TTL, MaxEntries, MaxInflight,                     \* idempotencyLimits
    MaxScopeEntries, MaxScopeInflight, MaxPrincipalEntries,
    MaxPrincipalInflight, MaxScopeTombstones,
    MaxTime,       \* bound: the clock stops here
    MaxSeq         \* bound: completions of the store

ASSUME ScopeAssumption ==
    /\ SessionOf \in [Keys -> Sessions]
    /\ PrincipalOf \in [Sessions -> Principals]
    /\ IsFiniteSet(Keys)
    /\ None \notin Handlers \cup Keys \cup Hashes \cup Bodies

ASSUME LimitAssumption ==
    /\ TTL \in Nat \ {0}
    /\ MaxEntries \in Nat           /\ MaxInflight \in Nat
    /\ MaxScopeEntries \in Nat      /\ MaxScopeInflight \in Nat
    /\ MaxPrincipalEntries \in Nat  /\ MaxPrincipalInflight \in Nat
    /\ MaxScopeTombstones \in Nat
    /\ MaxTime \in Nat              /\ MaxSeq \in Nat

VARIABLES
    entries,    \* Keys -> entry; state "Absent" when the map has no such key
    inflight,   \* the store's own count of in-flight entries
    seq,        \* the store's completion counter, the age of an entry
    now,        \* the clock behind s.now()
    handlers,   \* Handlers -> the handler's local state
    answer,     \* what the last step answered a client from the store
    sealed,     \* history: Keys -> time until which the key must not run again
    latest      \* history: Keys -> the last reply the upstream gave for the key

vars == <<entries, inflight, seq, now, handlers, answer, sealed, latest>>

-----------------------------------------------------------------------------
Finished == {"Done", "Unknown", "NotReplayable"}
Tombstone == {"Unknown", "NotReplayable"}

\* idempotentReply, with the request it was the answer to.
Reply == [hash : Hashes \cup {None}, body : Bodies \cup {None}]
NoReply == [hash |-> None, body |-> None]

Entry == [state : {"Absent", "InFlight"} \cup Finished,
          hash : Hashes \cup {None}, owner : Handlers \cup {None}, seq : Nat, expires : Nat,
          reply : Reply]

\* No entry in the map.
Absent == [state |-> "Absent", hash |-> None, owner |-> None,
           seq |-> 0, expires |-> 0, reply |-> NoReply]

\* A handler: idle; owner of a key it has not sent upstream yet; sent; or
\* answered, with the outcome in hand and the store not yet told.
Handler == [pc : {"idle", "owner", "sent", "answered"},
            key : Keys \cup {None}, hash : Hashes \cup {None},
            body : Bodies \cup {None},
            outcome : {"none", "refused", "rejected", "failed", "aborted",
                       "opaque", "reply"}]

\* A goroutine that serves no request.
Idle == [pc |-> "idle", key |-> None, hash |-> None, body |-> None,
         outcome |-> "none"]

\* An answer given without running the tool: the idemStatus and, for a replay,
\* the stored reply.
Answer == [status : {"none", "Replay", "Conflict", "InFlight", "Unknown",
                     "NotReplayable", "Capacity"},
           key : Keys \cup {None}, hash : Hashes \cup {None}, reply : Reply]
NoAnswer == [status |-> "none", key |-> None, hash |-> None,
             reply |-> NoReply]

Init ==
    /\ entries = [k \in Keys |-> Absent]
    /\ inflight = 0
    /\ seq = 0
    /\ now = 0
    /\ handlers = [h \in Handlers |-> Idle]
    /\ answer = NoAnswer
    /\ sealed = [k \in Keys |-> 0]
    /\ latest = [k \in Keys |-> NoReply]

-----------------------------------------------------------------------------
\* The store's helpers, on a map es of entries.

Present(es) == {k \in Keys : es[k].state # "Absent"}
InState(es, S) == {k \in Keys : es[k].state \in S}
Scope(k) == {j \in Keys : SessionOf[j] = SessionOf[k]}
Principal(k) ==
    {j \in Keys : PrincipalOf[SessionOf[j]] = PrincipalOf[SessionOf[k]]}

\* Mutant: the sweep forgets to spare in-flight entries.
sweepLockedInFlight(es) ==
    [k \in Keys |->
        IF es[k].state # "Absent" /\ now >= es[k].expires
        THEN Absent ELSE es[k]]

\* Expired completed entries and tombstones leave; in-flight entries stay.
sweepLocked(es) ==
    [k \in Keys |->
        IF es[k].state \in Finished /\ now >= es[k].expires
        THEN Absent ELSE es[k]]

\* A zero limit means no limit.
atLimit(n, limit) == limit > 0 /\ n >= limit

\* Mutant: tombstones are evicted like completed entries.
EvictableAny(es, K) == K \cap InState(es, Finished)

\* Completed replayable entries among K, the only ones that may be evicted.
Evictable(es, K) == K \cap InState(es, {"Done"})

\* The oldest completed entry among K is dropped.
evictOldestLocked(es, K) ==
    LET oldest == CHOOSE k \in Evictable(es, K) :
                     \A j \in Evictable(es, K) : es[k].seq <= es[j].seq
    IN [es EXCEPT ![oldest] = Absent]

\* One quota of begin: when it is full, evict among K or give up.
MakeRoom(r, full, K) ==
    IF ~ r.ok \/ ~ full THEN r
    ELSE IF Evictable(r.es, K) = {} THEN [r EXCEPT !.ok = FALSE]
    ELSE [r EXCEPT !.es = evictOldestLocked(r.es, K)]

\* Mutant: only existing tombstones count against the budget.
SaturatedNoReserve(es, k) ==
    \/ atLimit(Cardinality(Scope(k) \cap InState(es, Tombstone)),
               MaxScopeTombstones)
    \/ atLimit(Cardinality(Scope(k) \cap InState(es, {"InFlight"})),
               MaxScopeInflight)
    \/ atLimit(Cardinality(Principal(k) \cap InState(es, {"InFlight"})),
               MaxPrincipalInflight)
    \/ atLimit(inflight, MaxInflight)

\* The in-flight and tombstone bounds.  Every in-flight key of the scope
\* reserves the tombstone it may end in.
Saturated(es, k) ==
    \/ atLimit(Cardinality(Scope(k) \cap InState(es, Tombstone))
               + Cardinality(Scope(k) \cap InState(es, {"InFlight"})),
               MaxScopeTombstones)
    \/ atLimit(Cardinality(Scope(k) \cap InState(es, {"InFlight"})),
               MaxScopeInflight)
    \/ atLimit(Cardinality(Principal(k) \cap InState(es, {"InFlight"})),
               MaxPrincipalInflight)
    \/ atLimit(inflight, MaxInflight)

\* The three entry quotas in the code's order.  The scope and principal counts
\* were taken before any eviction; the global one is the live map size.
Reserve(es, k) ==
    LET scope == MakeRoom([ok |-> TRUE, es |-> es],
                     atLimit(Cardinality(Scope(k) \cap Present(es)),
                             MaxScopeEntries), Scope(k))
        principal == MakeRoom(scope,
                     atLimit(Cardinality(Principal(k) \cap Present(es)),
                             MaxPrincipalEntries), Principal(k))
    IN MakeRoom(principal,
                atLimit(Cardinality(Present(principal.es)), MaxEntries), Keys)

-----------------------------------------------------------------------------
\* begin and the switch on its status in idempotentUpstream.

\* The client is told status, with reply r if it is a replay.
Told(k, q, status, r) ==
    /\ answer' = [status |-> status, key |-> k, hash |-> q, reply |-> r]
    /\ UNCHANGED <<handlers, inflight>>

\* Mutant: the request hash is not compared.
BeginKnownAnyHash(k, q) ==
    LET es == sweepLocked(entries)
        e == es[k]
    IN /\ e.state # "Absent"
       /\ entries' = es
       /\ IF e.state = "Done" THEN Told(k, q, "Replay", e.reply)
          ELSE Told(k, q, e.state, NoReply)

\* The key is known: replay, or refuse without running anything.
BeginKnown(k, q) ==
    LET es == sweepLocked(entries)
        e == es[k]
    IN /\ e.state # "Absent"
       /\ entries' = es
       /\ IF e.hash # q THEN Told(k, q, "Conflict", NoReply)
          ELSE IF e.state = "Done" THEN Told(k, q, "Replay", e.reply)
          ELSE Told(k, q, e.state, NoReply)

\* The key is new but a bound is reached: 429.  What the quotas evicted before
\* the one that gave up stays evicted.
BeginCapacity(k, q) ==
    LET es == sweepLocked(entries)
    IN /\ es[k].state = "Absent"
       /\ \/ /\ Saturated(es, k)
             /\ entries' = es
          \/ /\ ~ Saturated(es, k)
             /\ ~ Reserve(es, k).ok
             /\ entries' = Reserve(es, k).es
       /\ Told(k, q, "Capacity", NoReply)

\* The entry begin inserts for its caller.
Reservation(h, q) == [state |-> "InFlight", hash |-> q, owner |-> h, seq |-> 0,
                      expires |-> now + TTL, reply |-> NoReply]

\* The key is new and there is room: h owns the reservation.
BeginStarted(h, k, q) ==
    LET es == sweepLocked(entries)
    IN /\ es[k].state = "Absent"
       /\ ~ Saturated(es, k)
       /\ Reserve(es, k).ok
       /\ seq + inflight < MaxSeq
       /\ entries' = [Reserve(es, k).es EXCEPT ![k] = Reservation(h, q)]
       /\ inflight' = inflight + 1
       /\ handlers' = [handlers EXCEPT
             ![h] = [pc |-> "owner", key |-> k, hash |-> q,
                     body |-> None, outcome |-> "none"]]
       /\ answer' = NoAnswer

begin(h, k, q) ==
    /\ handlers[h].pc = "idle"
    /\ \/ BeginKnown(k, q)
       \/ BeginCapacity(k, q)
       \/ BeginStarted(h, k, q)
    /\ UNCHANGED <<seq, now, sealed, latest>>

-----------------------------------------------------------------------------
\* forwardUpstream: what the owner sees, between its store operations.

\* Handler h moves to pc with an outcome and, if there is one, a body.
Advance(h, pc, outcome, body) ==
    handlers' = [handlers EXCEPT
        ![h] = [pc |-> pc, key |-> handlers[h].key, hash |-> handlers[h].hash,
                body |-> body, outcome |-> outcome]]

\* Refused before dispatch: no credential, breaker open, or no permit.
\* Decision.Allowed is false.
Refuse(h) ==
    /\ handlers[h].pc = "owner"
    /\ Advance(h, "answered", "refused", None)
    /\ answer' = NoAnswer
    /\ UNCHANGED <<entries, inflight, seq, now, sealed, latest>>

\* The request leaves for the upstream; from here the tool may have run.
Dispatch(h) ==
    /\ handlers[h].pc = "owner"
    /\ Advance(h, "sent", "none", None)
    /\ answer' = NoAnswer
    /\ UNCHANGED <<entries, inflight, seq, now, sealed, latest>>

\* What forwardUpstream can come back with after dispatch:
\*   rejected  a 3xx or 4xx status
\*   failed    a 5xx status, the proxy's own 502/504 included
\*   aborted   a panic unwinds the handler (half-written response)
\*   opaque    2xx that is a stream, over the cap, or content-encoded
\*   reply     2xx with a replayable body
Outcomes == {"rejected", "failed", "aborted", "opaque"}

UpstreamReply(h, body) ==
    /\ handlers[h].pc = "sent"
    /\ Advance(h, "answered", "reply", body)
    /\ latest' = [latest EXCEPT ![handlers[h].key] =
                     [hash |-> handlers[h].hash, body |-> body]]
    /\ answer' = NoAnswer
    /\ UNCHANGED <<entries, inflight, seq, now, sealed>>

UpstreamOther(h, o) ==
    /\ handlers[h].pc = "sent"
    /\ Advance(h, "answered", o, None)
    /\ answer' = NoAnswer
    /\ UNCHANGED <<entries, inflight, seq, now, sealed, latest>>

-----------------------------------------------------------------------------
\* The store operation that ends a reservation.

\* The map still holds the entry that h points to.
Holds(h) == LET e == entries[handlers[h].key]
            IN e.state # "Absent" /\ e.owner = h

\* The entry of h once its outcome is recorded; h drops its pointer to it.
Settled(h, state, expires, reply) ==
    [state |-> state, hash |-> entries[handlers[h].key].hash, owner |-> None,
     seq |-> seq + 1, expires |-> expires, reply |-> reply]

\* Mutant: the lifetime still counts from the reservation.
finishLockedOldExpiry(h, state, reply) ==
    IF Holds(h)
    THEN /\ entries' = [entries EXCEPT ![handlers[h].key] =
                Settled(h, state, entries[handlers[h].key].expires, reply)]
         /\ inflight' = inflight - 1
         /\ seq' = seq + 1
    ELSE UNCHANGED <<entries, inflight, seq>>

\* Mutant: only a replayable completion gives its in-flight slot back.
finishLockedLeak(h, state, reply) ==
    IF Holds(h)
    THEN /\ entries' = [entries EXCEPT ![handlers[h].key] =
                Settled(h, state, now + TTL, reply)]
         /\ inflight' = IF state = "Done" THEN inflight - 1 ELSE inflight
         /\ seq' = seq + 1
    ELSE UNCHANGED <<entries, inflight, seq>>

\* finishLocked: the entry takes its final state and a fresh lifetime.
finishLocked(h, state, reply) ==
    IF Holds(h)
    THEN /\ entries' = [entries EXCEPT ![handlers[h].key] =
                Settled(h, state, now + TTL, reply)]
         /\ inflight' = inflight - 1
         /\ seq' = seq + 1
    ELSE UNCHANGED <<entries, inflight, seq>>

\* The handler returns.
Return(h) == /\ handlers' = [handlers EXCEPT ![h] = Idle]
             /\ answer' = NoAnswer

\* A 2xx reply is stored for replay.
complete(h) ==
    /\ handlers[h].pc = "answered"
    /\ handlers[h].outcome = "reply"
    /\ finishLocked(h, "Done",
                    [hash |-> handlers[h].hash, body |-> handlers[h].body])
    /\ Return(h)
    /\ UNCHANGED <<now, sealed, latest>>

\* An outcome after which the tool must not run again under this key: 5xx or
\* the deferred call of an unwinding handler (Unknown), an opaque 2xx.
tombstone(h) ==
    /\ handlers[h].pc = "answered"
    /\ handlers[h].outcome \in {"failed", "aborted", "opaque"}
    /\ finishLocked(h, IF handlers[h].outcome = "opaque"
                       THEN "NotReplayable" ELSE "Unknown", NoReply)
    /\ sealed' = [sealed EXCEPT ![handlers[h].key] = now + TTL]
    /\ Return(h)
    /\ UNCHANGED <<now, latest>>

\* Mutant: release and dropLocked both take the in-flight count down.
releaseTwice(h) ==
    /\ handlers[h].pc = "answered"
    /\ handlers[h].outcome \in {"refused", "rejected"}
    /\ IF Holds(h)
       THEN /\ entries' = [entries EXCEPT ![handlers[h].key] = Absent]
            /\ inflight' = inflight - 2
       ELSE UNCHANGED <<entries, inflight>>
    /\ Return(h)
    /\ UNCHANGED <<seq, now, sealed, latest>>

\* The request was not executed: the key is free again.
release(h) ==
    /\ handlers[h].pc = "answered"
    /\ handlers[h].outcome \in {"refused", "rejected"}
    /\ IF Holds(h)
       THEN /\ entries' = [entries EXCEPT ![handlers[h].key] = Absent]
            /\ inflight' = inflight - 1
       ELSE UNCHANGED <<entries, inflight>>
    /\ Return(h)
    /\ UNCHANGED <<seq, now, sealed, latest>>

Tick ==
    /\ now < MaxTime
    /\ now' = now + 1
    /\ answer' = NoAnswer
    /\ UNCHANGED <<entries, inflight, seq, handlers, sealed, latest>>

Next ==
    \/ Tick
    \/ \E h \in Handlers :
         \/ \E k \in Keys, q \in Hashes : begin(h, k, q)
         \/ Refuse(h)
         \/ Dispatch(h)
         \/ \E body \in Bodies : UpstreamReply(h, body)
         \/ \E o \in Outcomes : UpstreamOther(h, o)
         \/ complete(h)
         \/ tombstone(h)
         \/ release(h)

Spec == Init /\ [][Next]_vars
-----------------------------------------------------------------------------
\* Properties.

TypeOK ==
    /\ entries \in [Keys -> Entry]
    /\ inflight \in Nat
    /\ seq \in Nat
    /\ now \in Nat
    /\ handlers \in [Handlers -> Handler]
    /\ answer \in Answer
    /\ sealed \in [Keys -> Nat]
    /\ latest \in [Keys -> Reply]

\* A reservation and its handler live and die together: while a handler serves
\* a keyed request the map holds its in-flight entry (no sweep, eviction or
\* other handler took it), and every in-flight entry has such a handler, so no
\* exit path of idempotentUpstream leaks a reservation.
OwnersAndReservations ==
    /\ \A h \in Handlers : handlers[h].pc # "idle" =>
          LET e == entries[handlers[h].key]
          IN e.state = "InFlight" /\ e.owner = h /\ e.hash = handlers[h].hash
    /\ \A k \in Keys : entries[k].state = "InFlight" =>
          \E h \in Handlers : /\ handlers[h].pc # "idle"
                              /\ handlers[h].key = k
                              /\ entries[k].owner = h

\* The counter the store keeps beside the map never drifts from the map, so
\* MaxInflight bounds what it is meant to bound.
InflightExact == inflight = Cardinality(InState(entries, {"InFlight"}))

\* n respects a limit; zero is no limit.
Within(n, limit) == limit > 0 => n <= limit

\* However completions and reservations interleave, a scope never holds more
\* tombstones, kept or still to come, than its budget.
TombstoneBudget ==
    \A k \in Keys :
        Within(Cardinality(Scope(k) \cap InState(entries, Tombstone))
               + Cardinality(Scope(k) \cap InState(entries, {"InFlight"})),
               MaxScopeTombstones)

\* The entry quotas hold per session, per principal and for the whole map,
\* although begin counts before it evicts.
EntryQuotas ==
    /\ \A k \in Keys :
          /\ Within(Cardinality(Scope(k) \cap Present(entries)),
                    MaxScopeEntries)
          /\ Within(Cardinality(Principal(k) \cap Present(entries)),
                    MaxPrincipalEntries)
    /\ Within(Cardinality(Present(entries)), MaxEntries)

\* From the moment an ambiguous or unreplayable outcome is recorded until TTL
\* later, the map holds that tombstone, whatever is swept, evicted or refused.
TombstonesKept ==
    \A k \in Keys : now < sealed[k] =>
        entries[k].state \in Tombstone /\ entries[k].expires = sealed[k]

\* The tool is never sent again under a key while an earlier outcome of that
\* key is ambiguous or unreplayable and its window is open, nor while another
\* handler has the same key upstream.
NoReExecution ==
    [][\A h \in Handlers :
          handlers[h].pc # "sent" /\ handlers'[h].pc = "sent" =>
             /\ now >= sealed[handlers[h].key]
             /\ \A g \in Handlers \ {h} :
                   handlers[g].pc # "idle" => handlers[g].key # handlers[h].key
      ]_vars

\* A replay answers the request that is being retried, and with the reply of
\* the key's last replayable execution.
ReplayIsLatest ==
    answer.status = "Replay" => /\ answer.reply.hash = answer.hash
                                /\ answer.reply = latest[answer.key]

\* A stored reply still within its window.
LiveReply(k) == entries[k].state = "Done" /\ now < entries[k].expires

\* A request that is refused for capacity costs no client its stored reply:
\* begin does not evict and then give up.  This depends on the limits: the
\* tombstone budget of a scope is smaller than its entry quota.
RefusalLosesNoReply ==
    [][answer'.status = "Capacity" =>
          \A k \in Keys : LiveReply(k) => entries'[k] = entries[k]]_vars
\* What the quotas promise together: no budget or quota is overrun by reservations
\* that are counted before they evict, and a request that begin refuses for
\* capacity has cost no other client its reply.
QuotasHold == [](TombstoneBudget /\ EntryQuotas) /\ RefusalLosesNoReply
=============================================================================
