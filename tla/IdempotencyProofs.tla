-------------------------- MODULE IdempotencyProofs --------------------------
(***************************************************************************)
(* Proofs about the idempotency store for every set of keys and handlers,  *)
(* every assignment of keys to sessions and principals, and all limits.    *)
(*                                                                         *)
(* The inductive invariant IInv couples the handlers, the map and the      *)
(* in-flight counter: a handler's reservation is in the map, the counter   *)
(* is the number of in-flight entries, a tombstone is there as long as its *)
(* window is open, and a stored reply is the last one for its key.         *)
(*                                                                         *)
(* QInv, beside it, is about the bounds: begin takes its counts before it  *)
(* evicts, so that the last of three checks finds room rests on the checks *)
(* before it only ever removing keys; and that a refusal has evicted       *)
(* nothing rests on a full scope holding two replies at least, because its *)
(* budget of tombstones is smaller than its quota of entries.              *)
(***************************************************************************)
EXTENDS Idempotency, TLAPS, FiniteSetTheorems, WellFoundedInduction

\* A stored reply is the upstream's last reply for the key, and answers the
\* request the entry is for.
RepliesAreLatest ==
    \A k \in Keys : entries[k].state = "Done" =>
        /\ entries[k].reply = latest[k]
        /\ entries[k].reply.hash = entries[k].hash

\* While a handler has the key, the only reply that is newer than what it
\* started from is the one it holds itself.
HandlerReplyIsLatest ==
    \A h \in Handlers : handlers[h].outcome = "reply" =>
        /\ handlers[h].pc = "answered"
        /\ latest[handlers[h].key] =
              [hash |-> handlers[h].hash, body |-> handlers[h].body]

\* The parts of TypeOK, with the counter an integer: that it never goes below
\* zero follows from InflightExact.
Typed ==
    /\ entries \in [Keys -> Entry]
    /\ inflight \in Int
    /\ seq \in Nat
    /\ now \in Nat
    /\ handlers \in [Handlers -> Handler]
    /\ \A h \in Handlers : handlers[h].pc # "idle" =>
           handlers[h].key \in Keys /\ handlers[h].hash \in Hashes
    /\ answer \in Answer
    /\ sealed \in [Keys -> Nat]
    /\ latest \in [Keys -> Reply]

IInv ==
    /\ Typed
    /\ OwnersAndReservations
    /\ InflightExact
    /\ TombstonesKept
    /\ RepliesAreLatest
    /\ HandlerReplyIsLatest
    /\ ReplayIsLatest

-----------------------------------------------------------------------------
\* Facts about the store's helpers.

\* es2 is es with some completed entries dropped.
Evicts(es2, es) ==
    /\ es2 \in [Keys -> Entry]
    /\ \A k \in Keys : \/ es2[k] = es[k]
                       \/ es2[k] = Absent /\ es[k].state = "Done"

\* The empty slot is an entry like any other.
LEMMA AbsentType == Absent \in Entry /\ Absent.state = "Absent"
  BY DEF Absent, Entry, NoReply, Reply, Finished

\* The sweep keeps the map well typed and drops only expired finished entries.
LEMMA SweepFacts ==
  ASSUME NEW es \in [Keys -> Entry], now \in Nat
  PROVE  /\ sweepLocked(es) \in [Keys -> Entry]
         /\ \A k \in Keys : \/ sweepLocked(es)[k] = es[k]
                            \/ /\ sweepLocked(es)[k] = Absent
                               /\ es[k].state \in Finished
                               /\ now >= es[k].expires
         /\ \A k \in Keys : es[k].state = "InFlight" =>
                               sweepLocked(es)[k] = es[k]
  BY AbsentType DEF sweepLocked, Finished

\* A non-empty set of keys has one with the least seq.
LEMMA OldestExists ==
  ASSUME NEW es \in [Keys -> Entry], NEW K \in SUBSET Keys, K # {}
  PROVE  \E k \in K : \A j \in K : es[k].seq <= es[j].seq
<1> DEFINE T == {es[k].seq : k \in K}
<1>1. T \subseteq Nat /\ T # {}
  BY DEF Entry
<1>2. \E x \in T : \A y \in T : ~ (<<y, x>> \in OpToRel(<, Nat))
  <2> HIDE DEF T
  <2> QED BY <1>1, NatLessThanWellFounded, WFMin
<1>3. PICK x \in T : \A y \in T : ~ (<<y, x>> \in OpToRel(<, Nat))
  BY <1>2
<1>4. \A y \in T : x <= y
  <2>1. OpToRel(<, Nat) = {p \in Nat \X Nat : p[1] < p[2]}
    BY Zenon DEF OpToRel
  <2> SUFFICES ASSUME NEW y \in T, ~ (x <= y)
               PROVE  FALSE
    OBVIOUS
  <2>2. y \in Nat /\ x \in Nat /\ y < x
    BY <1>1
  <2>3. <<y, x>> \in {p \in Nat \X Nat : p[1] < p[2]}
    BY <2>2
  <2> QED BY <1>3, <2>1, <2>3
<1>5. PICK k \in K : x = es[k].seq
  OBVIOUS
<1> QED BY <1>4, <1>5

\* Eviction drops one completed entry of K, if K has one.
LEMMA EvictFacts ==
  ASSUME NEW es \in [Keys -> Entry], NEW K \in SUBSET Keys,
         Evictable(es, K) # {}
  PROVE  \E k \in Evictable(es, K) :
            evictOldestLocked(es, K) = [es EXCEPT ![k] = Absent]
<1>1. Evictable(es, K) \in SUBSET Keys
  BY DEF Evictable, InState
<1>2. \E k \in Evictable(es, K) :
         \A j \in Evictable(es, K) : es[k].seq <= es[j].seq
  BY <1>1, OldestExists
<1> QED BY <1>2 DEF evictOldestLocked

\* What a step of begin's quota checks has done so far.
Outcome(r, es) == /\ r = [ok |-> r.ok, es |-> r.es]
                  /\ r.ok \in BOOLEAN
                  /\ Evicts(r.es, es)

\* One quota check evicts at most completed entries.
LEMMA MakeRoomFacts ==
  ASSUME NEW es \in [Keys -> Entry], NEW r, Outcome(r, es),
         NEW full \in BOOLEAN, NEW K \in SUBSET Keys
  PROVE  Outcome(MakeRoom(r, full, K), es)
<1>1. CASE ~ r.ok \/ ~ full
  BY <1>1 DEF MakeRoom
<1>2. CASE r.ok /\ full /\ Evictable(r.es, K) = {}
  BY <1>2 DEF MakeRoom, Outcome
<1>3. CASE r.ok /\ full /\ Evictable(r.es, K) # {}
  <2>1. r.es \in [Keys -> Entry]
    BY DEF Outcome, Evicts
  <2>2. PICK k \in Evictable(r.es, K) :
           evictOldestLocked(r.es, K) = [r.es EXCEPT ![k] = Absent]
    BY <1>3, <2>1, EvictFacts
  <2>3. k \in Keys /\ r.es[k].state = "Done"
    BY <2>2 DEF Evictable, InState
  <2>4. es[k].state = "Done"
    BY <2>3, AbsentType DEF Outcome, Evicts
  <2>5. Evicts(evictOldestLocked(r.es, K), es)
    BY <2>1, <2>2, <2>3, <2>4, AbsentType DEF Outcome, Evicts
  <2>6. MakeRoom(r, full, K) = [ok |-> r.ok, es |-> evictOldestLocked(r.es, K)]
    BY <1>3 DEF MakeRoom, Outcome
  <2> QED BY <2>5, <2>6 DEF Outcome
<1> QED BY <1>1, <1>2, <1>3

\* The three quota checks together evict at most completed entries.
LEMMA ReserveFacts ==
  ASSUME NEW es \in [Keys -> Entry], NEW k \in Keys
  PROVE  Outcome(Reserve(es, k), es)
<1> DEFINE full1 == atLimit(Cardinality(Scope(k) \cap Present(es)),
                            MaxScopeEntries)
           full2 == atLimit(Cardinality(Principal(k) \cap Present(es)),
                            MaxPrincipalEntries)
           r0 == [ok |-> TRUE, es |-> es]
           r1 == MakeRoom(r0, full1, Scope(k))
           r2 == MakeRoom(r1, full2, Principal(k))
           full3 == atLimit(Cardinality(Present(r2.es)), MaxEntries)
<1>1. full1 \in BOOLEAN /\ full2 \in BOOLEAN /\ full3 \in BOOLEAN
  BY DEF atLimit
<1>2. Scope(k) \in SUBSET Keys /\ Principal(k) \in SUBSET Keys
  BY DEF Scope, Principal
<1>3. Outcome(r0, es)
  BY DEF Outcome, Evicts
<1>4. Reserve(es, k) = MakeRoom(r2, full3, Keys)
  BY DEF Reserve
<1> HIDE DEF full1, full2, r0
<1>5. Outcome(r1, es)
  BY <1>1, <1>2, <1>3, MakeRoomFacts
<1> HIDE DEF r1
<1>6. Outcome(r2, es)
  BY <1>1, <1>2, <1>5, MakeRoomFacts
<1> HIDE DEF r2, full3
<1>7. Outcome(MakeRoom(r2, full3, Keys), es)
  BY <1>1, <1>6, MakeRoomFacts
<1> QED BY <1>4, <1>7
-----------------------------------------------------------------------------
\* begin, store by store.

\* es2 is the map with expired entries and completed entries dropped, which is
\* all that begin ever removes.
Thinned(es2) ==
    /\ es2 \in [Keys -> Entry]
    /\ \A k \in Keys :
          \/ es2[k] = entries[k]
          \/ /\ es2[k] = Absent
             /\ \/ entries[k].state = "Done"
                \/ entries[k].state \in Tombstone /\ now >= entries[k].expires

\* Sweeping and evicting only thins the map.
LEMMA SweptThins ==
  ASSUME entries \in [Keys -> Entry], now \in Nat,
         NEW es2, Evicts(es2, sweepLocked(entries))
  PROVE  Thinned(es2)
<1>1. sweepLocked(entries) \in [Keys -> Entry]
  BY SweepFacts
<1> SUFFICES ASSUME NEW k \in Keys
             PROVE  \/ es2[k] = entries[k]
                    \/ /\ es2[k] = Absent
                       /\ \/ entries[k].state = "Done"
                          \/ /\ entries[k].state \in Tombstone
                             /\ now >= entries[k].expires
  BY DEF Evicts, Thinned
<1>2. CASE sweepLocked(entries)[k] = entries[k]
  BY <1>2 DEF Evicts
<1>3. CASE /\ sweepLocked(entries)[k] = Absent
           /\ entries[k].state \in Finished
           /\ now >= entries[k].expires
  BY <1>3, AbsentType DEF Evicts, Finished, Tombstone
<1> QED BY <1>2, <1>3, SweepFacts

\* A thinned map has the same in-flight entries.
LEMMA ThinnedInFlight ==
  ASSUME entries \in [Keys -> Entry], NEW es2, Thinned(es2)
  PROVE  /\ InState(es2, {"InFlight"}) = InState(entries, {"InFlight"})
         /\ \A k \in Keys : es2[k].state = "InFlight" \/
               entries[k].state = "InFlight" => es2[k] = entries[k]
  BY AbsentType DEF Thinned, InState, Tombstone

\* Every answer begin gives without starting the key leaves a thinned map, the
\* handlers and the counter alone; a replay hands out a stored reply.
LEMMA BeginAnswers ==
  ASSUME Typed, NEW k \in Keys, NEW q \in Hashes,
         BeginKnown(k, q) \/ BeginCapacity(k, q)
  PROVE  /\ Thinned(entries')
         /\ UNCHANGED <<handlers, inflight>>
         /\ answer' \in Answer
         /\ answer'.status = "Replay" =>
               /\ answer'.key = k /\ answer'.hash = q
               /\ entries[k].state = "Done" /\ entries[k].hash = q
               /\ answer'.reply = entries[k].reply
<1> DEFINE es == sweepLocked(entries)
<1>1. es \in [Keys -> Entry] /\ Evicts(es, es)
  BY SweepFacts DEF Typed, Evicts
<1>2. CASE BeginKnown(k, q)
  <2>1. Thinned(entries')
    BY <1>1, <1>2, SweptThins DEF BeginKnown, Typed
  <2>2. es[k] = entries[k]
    BY <1>2, SweepFacts, AbsentType DEF BeginKnown, Typed
  <2>3. entries[k] \in Entry /\ entries[k].state # "Absent"
    BY <1>2, <2>2 DEF BeginKnown, Typed
  <2>4. UNCHANGED <<handlers, inflight>>
    BY <1>2 DEF BeginKnown, Told
  <2>5. CASE entries[k].hash # q
    <3>1. answer' = [status |-> "Conflict", key |-> k, hash |-> q,
                     reply |-> NoReply]
      BY <1>2, <2>2, <2>5 DEF BeginKnown, Told
    <3> QED BY <2>1, <2>4, <3>1 DEF Answer, NoReply, Reply
  <2>6. CASE entries[k].hash = q /\ entries[k].state = "Done"
    <3>1. answer' = [status |-> "Replay", key |-> k, hash |-> q,
                     reply |-> entries[k].reply]
      BY <1>2, <2>2, <2>6 DEF BeginKnown, Told
    <3> QED BY <2>1, <2>3, <2>4, <2>6, <3>1 DEF Answer, Entry
  <2>7. CASE entries[k].hash = q /\ entries[k].state # "Done"
    <3>1. answer' = [status |-> entries[k].state, key |-> k, hash |-> q,
                     reply |-> NoReply]
      BY <1>2, <2>2, <2>7 DEF BeginKnown, Told
    <3>2. entries[k].state \in {"InFlight", "Unknown", "NotReplayable"}
      BY <2>3, <2>7 DEF Entry, Finished
    <3> QED BY <2>1, <2>4, <3>1, <3>2 DEF Answer, NoReply, Reply
  <2> QED BY <2>5, <2>6, <2>7
<1>3. CASE BeginCapacity(k, q)
  <2>1. Evicts(Reserve(es, k).es, es)
    BY <1>1, ReserveFacts DEF Outcome
  <2>2. Evicts(entries', es)
    BY <1>1, <1>3, <2>1 DEF BeginCapacity
  <2>3. Thinned(entries')
    BY <2>2, SweptThins DEF Typed
  <2>4. /\ answer' = [status |-> "Capacity", key |-> k, hash |-> q,
                      reply |-> NoReply]
        /\ UNCHANGED <<handlers, inflight>>
    BY <1>3 DEF BeginCapacity, Told
  <2> QED BY <2>3, <2>4 DEF Answer, NoReply, Reply
<1> QED BY <1>2, <1>3

\* A started key was free: the map is a thinned one, without the key, plus the
\* reservation of h.
LEMMA BeginStarts ==
  ASSUME Typed, NEW h \in Handlers, NEW k \in Keys, NEW q \in Hashes,
         BeginStarted(h, k, q)
  PROVE  \E es2 : /\ Thinned(es2)
                  /\ es2[k].state = "Absent"
                  /\ entries' = [es2 EXCEPT ![k] = Reservation(h, q)]
                  /\ Reservation(h, q) \in Entry
                  /\ entries[k].state # "InFlight"
                  /\ entries[k].state \in Tombstone => now >= entries[k].expires
<1> DEFINE es == sweepLocked(entries)
           es2 == Reserve(es, k).es
<1>1. /\ es \in [Keys -> Entry]
      /\ es[k].state = "Absent"
  BY SweepFacts DEF Typed, BeginStarted
<1>2. Evicts(es2, es)
  BY <1>1, ReserveFacts DEF Outcome
<1>3. Thinned(es2)
  BY <1>2, SweptThins DEF Typed
<1>4. es2[k].state = "Absent"
  BY <1>1, <1>2, AbsentType DEF Evicts
<1>5. es[k] = entries[k] \/ (es[k] = Absent /\ entries[k].state \in Finished
                             /\ now >= entries[k].expires)
  BY SweepFacts DEF Typed
<1>6. entries[k].state # "InFlight"
  BY <1>1, <1>5 DEF Finished
<1>7. entries[k].state \in Tombstone => now >= entries[k].expires
  BY <1>1, <1>5 DEF Tombstone
<1>8. entries' = [es2 EXCEPT ![k] = Reservation(h, q)]
  BY DEF BeginStarted
<1>9. Reservation(h, q) \in Entry
  BY LimitAssumption DEF Reservation, Entry, Reply, NoReply, Typed, Finished
<1> QED BY <1>3, <1>4, <1>6, <1>7, <1>8, <1>9
-----------------------------------------------------------------------------
\* The steps of the specification.

\* The number of in-flight entries when one key enters or leaves.
LEMMA InFlightCount ==
  ASSUME NEW es \in [Keys -> Entry], NEW k \in Keys, NEW e \in Entry
  PROVE  LET before == InState(es, {"InFlight"})
             after == InState([es EXCEPT ![k] = e], {"InFlight"})
         IN /\ Cardinality(before) \in Nat
            /\ (es[k].state = "InFlight" /\ e.state # "InFlight") =>
                  /\ Cardinality(after) = Cardinality(before) - 1
            /\ (es[k].state # "InFlight" /\ e.state = "InFlight") =>
                  /\ Cardinality(after) = Cardinality(before) + 1
<1> DEFINE before == InState(es, {"InFlight"})
           after == InState([es EXCEPT ![k] = e], {"InFlight"})
<1>1. before \in SUBSET Keys
  BY DEF InState
<1>2. IsFiniteSet(before)
  BY <1>1, FS_Subset, ScopeAssumption
<1>3. Cardinality(before) \in Nat
  BY <1>2, FS_CardinalityType
<1>4. ASSUME es[k].state = "InFlight", e.state # "InFlight"
      PROVE  Cardinality(after) = Cardinality(before) - 1
  <2>1. k \in before /\ after = before \ {k}
    BY <1>4 DEF InState
  <2> HIDE DEF before, after
  <2> QED BY <1>2, <2>1, FS_RemoveElement
<1>5. ASSUME es[k].state # "InFlight", e.state = "InFlight"
      PROVE  Cardinality(after) = Cardinality(before) + 1
  <2>1. k \notin before /\ after = before \cup {k}
    BY <1>5 DEF InState
  <2> HIDE DEF before, after
  <2> QED BY <1>2, <2>1, FS_AddElement
<1> QED BY <1>3, <1>4, <1>5

\* The initial states satisfy the invariant.
LEMMA InitIInv == Init => IInv
<1> SUFFICES ASSUME Init PROVE IInv
  OBVIOUS
<1>1. Typed
  BY AbsentType DEF Init, Typed, Idle, Handler, NoAnswer, Answer, NoReply, Reply
<1>2. OwnersAndReservations
  BY AbsentType DEF Init, OwnersAndReservations, Idle
<1>3. InflightExact
  <2>1. InState(entries, {"InFlight"}) = {}
    BY AbsentType DEF Init, InState
  <2> QED BY <2>1, FS_EmptySet DEF Init, InflightExact
<1>4. TombstonesKept
  BY DEF Init, TombstonesKept
<1>5. RepliesAreLatest
  BY AbsentType DEF Init, RepliesAreLatest
<1>6. HandlerReplyIsLatest /\ ReplayIsLatest
  BY DEF Init, HandlerReplyIsLatest, ReplayIsLatest, Idle, NoAnswer
<1> QED BY <1>1, <1>2, <1>3, <1>4, <1>5, <1>6 DEF IInv

\* An answer from the store preserves the invariant: only finished entries that
\* are expired or replayable leave the map.
LEMMA AnswerKeepsIInv ==
  ASSUME IInv, NEW k \in Keys, NEW q \in Hashes,
         BeginKnown(k, q) \/ BeginCapacity(k, q),
         UNCHANGED <<seq, now, sealed, latest>>
  PROVE  IInv'
<1>1. Typed
  BY DEF IInv
<1>2. /\ Thinned(entries')
      /\ UNCHANGED <<handlers, inflight>>
      /\ answer' \in Answer
      /\ answer'.status = "Replay" =>
            /\ answer'.key = k /\ answer'.hash = q
            /\ entries[k].state = "Done" /\ entries[k].hash = q
            /\ answer'.reply = entries[k].reply
  BY <1>1, BeginAnswers
<1>3. /\ InState(entries', {"InFlight"}) = InState(entries, {"InFlight"})
      /\ \A j \in Keys : entries'[j].state = "InFlight" \/
            entries[j].state = "InFlight" => entries'[j] = entries[j]
  BY <1>1, <1>2, ThinnedInFlight DEF Typed
<1>4. Typed'
  BY <1>1, <1>2 DEF Typed, Thinned
<1>5. OwnersAndReservations'
  <2>1. \A h \in Handlers : handlers[h].pc # "idle" => handlers[h].key \in Keys
    BY <1>1 DEF Typed
  <2> QED BY <1>2, <1>3, <2>1 DEF IInv, OwnersAndReservations
<1>6. InflightExact'
  BY <1>2, <1>3 DEF IInv, InflightExact
<1>7. TombstonesKept'
  <2> SUFFICES ASSUME NEW j \in Keys, now < sealed[j]
               PROVE  /\ entries'[j].state \in Tombstone
                      /\ entries'[j].expires = sealed[j]
    BY DEF TombstonesKept
  <2>1. entries[j].state \in Tombstone /\ entries[j].expires = sealed[j]
    BY DEF IInv, TombstonesKept
  <2>2. now \in Nat /\ sealed[j] \in Nat
    BY <1>1 DEF Typed
  <2>3. entries'[j] = entries[j]
    BY <1>2, <2>1, <2>2 DEF Thinned, Tombstone
  <2> QED BY <2>1, <2>3
<1>8. RepliesAreLatest'
  BY <1>2, AbsentType DEF IInv, RepliesAreLatest, Thinned
<1>9. HandlerReplyIsLatest' /\ ReplayIsLatest'
  BY <1>2 DEF IInv, HandlerReplyIsLatest, ReplayIsLatest, RepliesAreLatest
<1> QED BY <1>4, <1>5, <1>6, <1>7, <1>8, <1>9 DEF IInv

\* Starting a key preserves the invariant: the key was free, so no handler has
\* it and no open window protects it.
LEMMA StartKeepsIInv ==
  ASSUME IInv, NEW h \in Handlers, NEW k \in Keys, NEW q \in Hashes,
         handlers[h].pc = "idle",
         BeginStarted(h, k, q),
         UNCHANGED <<seq, now, sealed, latest>>
  PROVE  IInv'
<1>1. Typed
  BY DEF IInv
<1>2. PICK es2 : /\ Thinned(es2)
                 /\ es2[k].state = "Absent"
                 /\ entries' = [es2 EXCEPT ![k] = Reservation(h, q)]
                 /\ Reservation(h, q) \in Entry
                 /\ entries[k].state # "InFlight"
                 /\ entries[k].state \in Tombstone => now >= entries[k].expires
  BY <1>1, BeginStarts
<1>3. /\ handlers' = [handlers EXCEPT
                        ![h] = [pc |-> "owner", key |-> k, hash |-> q,
                                body |-> None, outcome |-> "none"]]
      /\ inflight' = inflight + 1
      /\ answer' = NoAnswer
  BY DEF BeginStarted
<1>4. /\ InState(es2, {"InFlight"}) = InState(entries, {"InFlight"})
      /\ \A j \in Keys : es2[j].state = "InFlight" \/
            entries[j].state = "InFlight" => es2[j] = entries[j]
  BY <1>1, <1>2, ThinnedInFlight DEF Typed
<1>5. es2 \in [Keys -> Entry] /\ entries' \in [Keys -> Entry]
  BY <1>2 DEF Thinned
<1>6. /\ entries'[k].state = "InFlight" /\ entries'[k].hash = q
      /\ entries'[k].owner = h
      /\ \A j \in Keys \ {k} : entries'[j] = es2[j]
  BY <1>2, <1>5 DEF Reservation
<1>7. Typed'
  BY <1>1, <1>3, <1>5 DEF Typed, Handler, NoAnswer, Answer, NoReply, Reply
<1>8. OwnersAndReservations'
  <2>1. \A g \in Handlers \ {h} : handlers[g].pc # "idle" =>
           /\ handlers[g].key \in Keys \ {k}
           /\ entries'[handlers[g].key] = entries[handlers[g].key]
    BY <1>1, <1>2, <1>4, <1>6 DEF IInv, OwnersAndReservations, Typed
  <2>2. ASSUME NEW g \in Handlers, handlers'[g].pc # "idle"
        PROVE  LET e == entries'[handlers'[g].key]
               IN e.state = "InFlight" /\ e.owner = g /\ e.hash = handlers'[g].hash
    <3>1. CASE g = h
      BY <3>1, <1>1, <1>3, <1>6 DEF Typed
    <3>2. CASE g # h
      BY <3>2, <1>1, <1>3, <2>1, <2>2 DEF IInv, OwnersAndReservations, Typed
    <3> QED BY <3>1, <3>2
  <2>3. ASSUME NEW j \in Keys, entries'[j].state = "InFlight"
        PROVE  \E g \in Handlers : /\ handlers'[g].pc # "idle"
                                   /\ handlers'[g].key = j
                                   /\ entries'[j].owner = g
    <3>1. CASE j = k
      BY <3>1, <1>1, <1>3, <1>6 DEF Typed
    <3>2. CASE j # k
      <4>1. entries'[j] = entries[j] /\ entries[j].state = "InFlight"
        BY <3>2, <1>4, <1>6, <2>3
      <4>2. PICK g \in Handlers : /\ handlers[g].pc # "idle"
                                  /\ handlers[g].key = j
                                  /\ entries[j].owner = g
        BY <4>1 DEF IInv, OwnersAndReservations
      <4>3. handlers'[g] = handlers[g]
        BY <1>1, <1>3, <4>2 DEF Typed
      <4> QED BY <4>1, <4>2, <4>3
    <3> QED BY <3>1, <3>2
  <2> QED BY <2>2, <2>3 DEF OwnersAndReservations
<1>9. InflightExact'
  <2>1. Cardinality(InState(entries', {"InFlight"}))
          = Cardinality(InState(es2, {"InFlight"})) + 1
    <3>1. Reservation(h, q).state = "InFlight" /\ es2[k].state # "InFlight"
      BY <1>2 DEF Reservation
    <3> HIDE DEF Reservation
    <3> QED BY <1>2, <1>5, <3>1, InFlightCount
  <2> QED BY <1>3, <1>4, <2>1 DEF IInv, InflightExact
<1>10. TombstonesKept'
  <2> SUFFICES ASSUME NEW j \in Keys, now < sealed[j]
               PROVE  /\ entries'[j].state \in Tombstone
                      /\ entries'[j].expires = sealed[j]
    BY DEF TombstonesKept
  <2>1. entries[j].state \in Tombstone /\ entries[j].expires = sealed[j]
    BY DEF IInv, TombstonesKept
  <2>2. now \in Nat /\ sealed[j] \in Nat
    BY <1>1 DEF Typed
  <2>3. j # k
    BY <1>2, <2>1, <2>2
  <2>4. es2[j] = entries[j]
    BY <1>2, <2>1, <2>2 DEF Thinned, Tombstone
  <2> QED BY <1>6, <2>1, <2>3, <2>4
<1>11. RepliesAreLatest'
  BY <1>2, <1>6, AbsentType DEF IInv, RepliesAreLatest, Thinned
<1>12. HandlerReplyIsLatest' /\ ReplayIsLatest'
  BY <1>1, <1>3 DEF IInv, HandlerReplyIsLatest, ReplayIsLatest, NoAnswer, Typed
<1> QED BY <1>7, <1>8, <1>9, <1>10, <1>11, <1>12 DEF IInv
\* Two handlers never serve the same key.
LEMMA KeysAreExclusive ==
  ASSUME IInv, NEW h \in Handlers, NEW g \in Handlers, g # h,
         handlers[h].pc # "idle", handlers[g].pc # "idle"
  PROVE  handlers[g].key # handlers[h].key
  BY DEF IInv, OwnersAndReservations

\* What happens upstream touches one handler and, with a replayable reply, the
\* record of the last one.
LEMMA UpstreamKeepsIInv ==
  ASSUME IInv, NEW h \in Handlers,
         \/ Refuse(h)
         \/ Dispatch(h)
         \/ \E body \in Bodies : UpstreamReply(h, body)
         \/ \E o \in Outcomes : UpstreamOther(h, o)
  PROVE  IInv'
<1>1. Typed
  BY DEF IInv
<1>2. PICK pc \in {"sent", "answered"}, body \in Bodies \cup {None},
           o \in Outcomes \cup {"none", "refused", "reply"} :
         /\ UNCHANGED <<entries, inflight, seq, now, sealed>>
         /\ answer' = NoAnswer
         /\ handlers[h].pc # "idle"
         /\ Advance(h, pc, o, body)
         /\ \/ o # "reply" /\ latest' = latest
            \/ /\ o = "reply" /\ pc = "answered" /\ body \in Bodies
               /\ latest' = [latest EXCEPT ![handlers[h].key] =
                                [hash |-> handlers[h].hash, body |-> body]]
  BY DEF Refuse, Dispatch, UpstreamReply, UpstreamOther, Outcomes
<1>3. handlers'[h] = [pc |-> pc, key |-> handlers[h].key,
                      hash |-> handlers[h].hash, body |-> body, outcome |-> o]
  BY <1>1, <1>2 DEF Typed, Advance
<1>4. handlers[h].key \in Keys /\ handlers[h].hash \in Hashes
  BY <1>1, <1>2 DEF Typed
<1>5. \A g \in Handlers \ {h} : handlers'[g] = handlers[g]
  BY <1>1, <1>2 DEF Typed, Advance
<1>6. latest' \in [Keys -> Reply]
  BY <1>1, <1>2, <1>4 DEF Typed, Reply
<1>7. Typed'
  <2>1. handlers' \in [Handlers -> Handler]
    <3>1. [pc |-> pc, key |-> handlers[h].key, hash |-> handlers[h].hash,
           body |-> body, outcome |-> o] \in Handler
      BY <1>4 DEF Handler, Outcomes
    <3> QED BY <1>1, <1>2, <3>1 DEF Typed, Advance
  <2>2. \A g \in Handlers : handlers'[g].pc # "idle" =>
           handlers'[g].key \in Keys /\ handlers'[g].hash \in Hashes
    BY <1>1, <1>3, <1>4, <1>5 DEF Typed
  <2>3. answer' \in Answer
    BY <1>2 DEF NoAnswer, Answer, NoReply, Reply
  <2> QED BY <1>1, <1>2, <1>6, <2>1, <2>2, <2>3 DEF Typed
<1>8. OwnersAndReservations'
  <2>1. ASSUME NEW g \in Handlers
        PROVE  /\ handlers'[g].pc # "idle" <=> handlers[g].pc # "idle"
               /\ handlers'[g].key = handlers[g].key
               /\ handlers'[g].hash = handlers[g].hash
    BY <1>2, <1>3, <1>5
  <2> QED BY <1>2, <2>1 DEF IInv, OwnersAndReservations
<1>9. InflightExact' /\ TombstonesKept'
  BY <1>2 DEF IInv, InflightExact, TombstonesKept
<1>10. entries[handlers[h].key].state = "InFlight"
  BY <1>2 DEF IInv, OwnersAndReservations
<1>11. RepliesAreLatest'
  <2> SUFFICES ASSUME NEW k \in Keys, entries[k].state = "Done"
               PROVE  latest'[k] = latest[k]
    BY <1>2 DEF IInv, RepliesAreLatest
  <2>1. k # handlers[h].key
    BY <1>10
  <2> QED BY <1>1, <1>2, <1>4, <2>1 DEF Typed
<1>12. HandlerReplyIsLatest'
  <2> SUFFICES ASSUME NEW g \in Handlers, handlers'[g].outcome = "reply"
               PROVE  /\ handlers'[g].pc = "answered"
                      /\ latest'[handlers'[g].key] =
                            [hash |-> handlers'[g].hash,
                             body |-> handlers'[g].body]
    BY DEF HandlerReplyIsLatest
  <2>1. CASE g = h
    <3>1. o = "reply"
      BY <1>3, <2>1
    <3> QED BY <1>1, <1>2, <1>3, <1>4, <2>1, <3>1 DEF Typed
  <2>2. CASE g # h
    <3>1. /\ handlers'[g] = handlers[g]
          /\ handlers[g].pc = "answered"
          /\ latest[handlers[g].key] =
                [hash |-> handlers[g].hash, body |-> handlers[g].body]
      BY <1>5, <2>2 DEF IInv, HandlerReplyIsLatest
    <3>2. handlers[g].key # handlers[h].key
      BY <1>2, <2>2, <3>1, KeysAreExclusive
    <3>3. handlers[g].key \in Keys
      BY <1>1, <3>1 DEF Typed
    <3>4. latest'[handlers[g].key] = latest[handlers[g].key]
      BY <1>1, <1>2, <1>4, <3>2, <3>3 DEF Typed
    <3> QED BY <3>1, <3>4
  <2> QED BY <2>1, <2>2
<1>13. ReplayIsLatest'
  BY <1>2 DEF ReplayIsLatest, NoAnswer
<1> QED BY <1>7, <1>8, <1>9, <1>11, <1>12, <1>13 DEF IInv

\* The end of a reservation, whatever the outcome: the handler's own entry is
\* replaced by e, which is no longer in flight.
LEMMA FinishKeepsIInv ==
  ASSUME IInv, NEW h \in Handlers, NEW k \in Keys, NEW e \in Entry,
         handlers[h].pc = "answered", k = handlers[h].key,
         e.state # "InFlight",
         entries' = [entries EXCEPT ![k] = e],
         inflight' = inflight - 1,
         seq' \in Nat, UNCHANGED <<now, latest>>,
         Return(h),
         \/ /\ e.state \in Tombstone
            /\ e.expires = now + TTL
            /\ sealed' = [sealed EXCEPT ![k] = now + TTL]
         \/ /\ e.state \notin Tombstone
            /\ UNCHANGED sealed,
         e.state = "Done" => e.reply = latest[k] /\ e.reply.hash = e.hash
  PROVE  IInv'
<1>1. Typed
  BY DEF IInv
<1>2. /\ handlers' = [handlers EXCEPT ![h] = Idle]
      /\ answer' = NoAnswer
  BY DEF Return
<1>3. /\ handlers'[h] = Idle
      /\ \A g \in Handlers \ {h} : handlers'[g] = handlers[g]
  BY <1>1, <1>2 DEF Typed
<1>4. /\ entries' \in [Keys -> Entry]
      /\ entries'[k] = e
      /\ \A j \in Keys \ {k} : entries'[j] = entries[j]
  BY <1>1 DEF Typed
<1>5. entries[k].state = "InFlight" /\ entries[k].owner = h
  BY DEF IInv, OwnersAndReservations
<1>6. sealed' \in [Keys -> Nat]
  BY <1>1, LimitAssumption DEF Typed
<1>7. Typed'
  <2>1. Idle \in Handler /\ Idle.pc = "idle"
    BY DEF Idle, Handler
  <2>2. answer' \in Answer
    BY <1>2 DEF NoAnswer, Answer, NoReply, Reply
  <2> QED BY <1>1, <1>2, <1>3, <1>4, <1>6, <2>1, <2>2 DEF Typed
<1>8. OwnersAndReservations'
  <2>1. ASSUME NEW g \in Handlers, handlers'[g].pc # "idle"
        PROVE  LET d == entries'[handlers'[g].key]
               IN d.state = "InFlight" /\ d.owner = g /\ d.hash = handlers'[g].hash
    <3>1. g # h /\ handlers'[g] = handlers[g]
      BY <1>3, <2>1 DEF Idle
    <3>2. handlers[g].key \in Keys \ {k}
      BY <1>1, <2>1, <3>1, KeysAreExclusive DEF Typed
    <3> QED BY <1>4, <2>1, <3>1, <3>2 DEF IInv, OwnersAndReservations
  <2>2. ASSUME NEW j \in Keys, entries'[j].state = "InFlight"
        PROVE  \E g \in Handlers : /\ handlers'[g].pc # "idle"
                                   /\ handlers'[g].key = j
                                   /\ entries'[j].owner = g
    <3>1. j # k /\ entries'[j] = entries[j]
      BY <1>4, <2>2
    <3>2. PICK g \in Handlers : /\ handlers[g].pc # "idle"
                                /\ handlers[g].key = j
                                /\ entries[j].owner = g
      BY <2>2, <3>1 DEF IInv, OwnersAndReservations
    <3> QED BY <1>3, <3>1, <3>2
  <2> QED BY <2>1, <2>2 DEF OwnersAndReservations
<1>9. InflightExact'
  <2>1. Cardinality(InState(entries', {"InFlight"}))
          = Cardinality(InState(entries, {"InFlight"})) - 1
    BY <1>1, <1>5, InFlightCount DEF Typed
  <2> QED BY <2>1 DEF IInv, InflightExact
<1>10. TombstonesKept'
  <2> SUFFICES ASSUME NEW j \in Keys, now < sealed'[j]
               PROVE  /\ entries'[j].state \in Tombstone
                      /\ entries'[j].expires = sealed'[j]
    BY DEF TombstonesKept
  <2>1. CASE j # k
    BY <1>1, <1>4, <2>1 DEF IInv, TombstonesKept, Typed
  <2>2. CASE j = k
    <3>1. ~ (now < sealed[k])
      BY <1>5 DEF IInv, TombstonesKept, Tombstone
    <3> QED BY <1>1, <1>4, <2>2, <3>1 DEF Typed
  <2> QED BY <2>1, <2>2
<1>11. RepliesAreLatest'
  BY <1>4 DEF IInv, RepliesAreLatest
<1>12. HandlerReplyIsLatest'
  BY <1>3 DEF IInv, HandlerReplyIsLatest, Idle
<1>13. ReplayIsLatest'
  BY <1>2 DEF ReplayIsLatest, NoAnswer
<1> QED BY <1>7, <1>8, <1>9, <1>10, <1>11, <1>12, <1>13 DEF IInv

\* A handler that is about to end its reservation still has its entry.
LEMMA AnsweredHolds ==
  ASSUME IInv, NEW h \in Handlers, handlers[h].pc = "answered"
  PROVE  /\ Holds(h)
         /\ handlers[h].key \in Keys
         /\ entries[handlers[h].key] \in Entry
         /\ entries[handlers[h].key].hash = handlers[h].hash
  BY DEF IInv, Typed, OwnersAndReservations, Holds

\* The three operations that end a reservation preserve the invariant.
LEMMA EndKeepsIInv ==
  ASSUME IInv, NEW h \in Handlers,
         complete(h) \/ tombstone(h) \/ release(h)
  PROVE  IInv'
<1> DEFINE k == handlers[h].key
<1>1. handlers[h].pc = "answered" /\ Return(h) /\ UNCHANGED <<now, latest>>
  BY DEF complete, tombstone, release
<1>2. /\ Holds(h) /\ k \in Keys /\ entries[k] \in Entry
      /\ entries[k].hash = handlers[h].hash
  BY <1>1, AnsweredHolds
<1>3. Typed
  BY DEF IInv
<1>4. CASE complete(h)
  <2> DEFINE r == [hash |-> handlers[h].hash, body |-> handlers[h].body]
             e == Settled(h, "Done", now + TTL, r)
  <2>1. /\ entries' = [entries EXCEPT ![k] = e]
        /\ inflight' = inflight - 1
        /\ seq' = seq + 1
        /\ UNCHANGED sealed
    BY <1>2, <1>4 DEF complete, finishLocked
  <2>2. r \in Reply /\ r = latest[k]
    <3>1. latest[k] = r
      BY <1>1, <1>4 DEF complete, IInv, HandlerReplyIsLatest
    <3> QED BY <1>2, <1>3, <3>1 DEF Typed
  <2>3. e \in Entry /\ e.state = "Done" /\ e.reply = r /\ e.hash = entries[k].hash
    BY <1>2, <1>3, <2>2, LimitAssumption DEF Typed, Entry, Finished, Settled
  <2>4. seq' \in Nat
    BY <1>3, <2>1 DEF Typed
  <2>5. e.reply = latest[k] /\ e.reply.hash = e.hash
    BY <1>2, <2>2, <2>3
  <2>6. e.state # "InFlight" /\ e.state \notin Tombstone
    BY <2>3 DEF Tombstone
  <2> HIDE DEF e, k
  <2> QED BY <1>1, <1>2, <2>1, <2>3, <2>4, <2>5, <2>6, FinishKeepsIInv DEF k
<1>5. CASE tombstone(h)
  <2> DEFINE st == IF handlers[h].outcome = "opaque"
                   THEN "NotReplayable" ELSE "Unknown"
             e == Settled(h, st, now + TTL, NoReply)
  <2>1. /\ entries' = [entries EXCEPT ![k] = e]
        /\ inflight' = inflight - 1
        /\ seq' = seq + 1
        /\ sealed' = [sealed EXCEPT ![k] = now + TTL]
    BY <1>2, <1>5 DEF tombstone, finishLocked
  <2>2. st \in Tombstone
    BY DEF Tombstone
  <2>3. e \in Entry /\ e.state = st /\ e.expires = now + TTL
    <3> HIDE DEF st
    <3>1. NoReply \in Reply
      BY DEF NoReply, Reply
    <3> QED BY <1>2, <1>3, <2>2, <3>1, LimitAssumption
            DEF Typed, Entry, Finished, Tombstone, Settled
  <2>4. seq' \in Nat
    BY <1>3, <2>1 DEF Typed
  <2> HIDE DEF e, st
  <2> QED BY <1>1, <1>2, <2>1, <2>2, <2>3, <2>4, FinishKeepsIInv DEF Tombstone
<1>6. CASE release(h)
  <2>1. /\ entries' = [entries EXCEPT ![k] = Absent]
        /\ inflight' = inflight - 1
        /\ seq' = seq
        /\ UNCHANGED sealed
    BY <1>2, <1>6 DEF release
  <2>2. seq' \in Nat
    BY <1>3, <2>1 DEF Typed
  <2> QED BY <1>1, <1>2, <2>1, <2>2, AbsentType, FinishKeepsIInv DEF Tombstone
<1> QED BY <1>4, <1>5, <1>6

\* The passing of time preserves the invariant.
LEMMA TickKeepsIInv == ASSUME IInv, Tick PROVE IInv'
<1>1. /\ now' = now + 1 /\ answer' = NoAnswer
      /\ UNCHANGED <<entries, inflight, seq, handlers, sealed, latest>>
  BY DEF Tick
<1>2. Typed'
  BY <1>1 DEF IInv, Typed, NoAnswer, Answer, NoReply, Reply
<1>3. TombstonesKept'
  <2> SUFFICES ASSUME NEW k \in Keys, now + 1 < sealed[k]
               PROVE  /\ entries[k].state \in Tombstone
                      /\ entries[k].expires = sealed[k]
    BY <1>1 DEF TombstonesKept
  <2> QED BY DEF IInv, TombstonesKept, Typed
<1> QED BY <1>1, <1>2, <1>3 DEF IInv, OwnersAndReservations, InflightExact,
           RepliesAreLatest, HandlerReplyIsLatest, ReplayIsLatest, NoAnswer

\* A step that changes nothing preserves the invariant.
LEMMA StutterKeepsIInv == ASSUME IInv, UNCHANGED vars PROVE IInv'
  BY DEF IInv, vars, Typed, OwnersAndReservations, InflightExact,
         TombstonesKept, RepliesAreLatest, HandlerReplyIsLatest, ReplayIsLatest

\* Every step of the store and its handlers preserves the invariant.
LEMMA NextIInv == IInv /\ [Next]_vars => IInv'
<1> SUFFICES ASSUME IInv, [Next]_vars PROVE IInv'
  OBVIOUS
<1>1. ASSUME NEW h \in Handlers, NEW k \in Keys, NEW q \in Hashes,
             begin(h, k, q)
      PROVE  IInv'
  BY <1>1, AnswerKeepsIInv, StartKeepsIInv DEF begin
<1>2. ASSUME NEW h \in Handlers,
             \/ Refuse(h)
             \/ Dispatch(h)
             \/ \E body \in Bodies : UpstreamReply(h, body)
             \/ \E o \in Outcomes : UpstreamOther(h, o)
      PROVE  IInv'
  BY <1>2, UpstreamKeepsIInv
<1>3. ASSUME NEW h \in Handlers, complete(h) \/ tombstone(h) \/ release(h)
      PROVE  IInv'
  BY <1>3, EndKeepsIInv
<1> QED BY <1>1, <1>2, <1>3, TickKeepsIInv, StutterKeepsIInv DEF Next

\* The inductive invariant holds throughout.
THEOREM Invariance == Spec => []IInv
  BY InitIInv, NextIInv, PTL DEF Spec

\* The state stays well typed; in particular the in-flight counter that begin
\* compares with MaxInflight never goes negative.
THEOREM TypeCorrect == Spec => []TypeOK
<1>1. IInv => TypeOK
  <2> SUFFICES ASSUME IInv PROVE TypeOK
    OBVIOUS
  <2>1. inflight \in Nat
    <3>1. InState(entries, {"InFlight"}) \in SUBSET Keys
      BY DEF InState
    <3>2. IsFiniteSet(InState(entries, {"InFlight"}))
      BY <3>1, FS_Subset, ScopeAssumption
    <3> QED BY <3>2, FS_CardinalityType DEF IInv, InflightExact
  <2> QED BY <2>1 DEF IInv, Typed, TypeOK
<1> QED BY <1>1, Invariance, PTL

\* A reservation lives exactly as long as the handler that made it.
THEOREM ReservationsOwned == Spec => []OwnersAndReservations
<1>1. IInv => OwnersAndReservations
  BY DEF IInv
<1> QED BY <1>1, Invariance, PTL

\* The counter of in-flight entries is exact.
THEOREM CounterExact == Spec => []InflightExact
<1>1. IInv => InflightExact
  BY DEF IInv
<1> QED BY <1>1, Invariance, PTL

\* A tombstone stays in the map until its window closes.
THEOREM TombstonesStay == Spec => []TombstonesKept
<1>1. IInv => TombstonesKept
  BY DEF IInv
<1> QED BY <1>1, Invariance, PTL

\* A replay is the latest reply to the same request.
THEOREM ReplaysCorrect == Spec => []ReplayIsLatest
<1>1. IInv => ReplayIsLatest
  BY DEF IInv
<1> QED BY <1>1, Invariance, PTL

\* No tool is sent upstream again under a key whose earlier outcome is ambiguous
\* or unreplayable while the window is open, nor concurrently with itself.
THEOREM NeverReExecuted == Spec => NoReExecution
<1> DEFINE A == \A h \in Handlers :
                   handlers[h].pc # "sent" /\ handlers'[h].pc = "sent" =>
                      /\ now >= sealed[handlers[h].key]
                      /\ \A g \in Handlers \ {h} :
                            handlers[g].pc # "idle" =>
                               handlers[g].key # handlers[h].key
<1>1. IInv /\ [Next]_vars => [A]_vars
  <2> SUFFICES ASSUME IInv, Next,
                      NEW h \in Handlers,
                      handlers[h].pc # "sent", handlers'[h].pc = "sent"
               PROVE  /\ now >= sealed[handlers[h].key]
                      /\ \A g \in Handlers \ {h} :
                            handlers[g].pc # "idle" =>
                               handlers[g].key # handlers[h].key
    OBVIOUS
  <2>1. handlers[h].pc # "idle" /\ handlers[h].key \in Keys
    <3>1. handlers \in [Handlers -> Handler]
      BY DEF IInv, Typed
    <3>2. \A g \in Handlers, k \in Keys, q \in Hashes :
             begin(g, k, q) => handlers[h].pc # "idle"
      BY <3>1 DEF begin, BeginKnown, BeginCapacity, BeginStarted, Told
    <3>3. \A g \in Handlers :
             \/ Refuse(g) \/ Dispatch(g)
             \/ \E body \in Bodies : UpstreamReply(g, body)
             \/ \E o \in Outcomes : UpstreamOther(g, o)
             => handlers[h].pc # "idle"
      BY <3>1 DEF Refuse, Dispatch, UpstreamReply, UpstreamOther, Advance
    <3>4. \A g \in Handlers : complete(g) \/ tombstone(g) \/ release(g)
                              => handlers[h].pc # "idle"
      BY <3>1 DEF complete, tombstone, release, Return, Idle
    <3>5. ~ Tick
      BY <3>1 DEF Tick
    <3>6. handlers[h].pc # "idle"
      BY <3>2, <3>3, <3>4, <3>5 DEF Next
    <3> QED BY <3>6 DEF IInv, Typed
  <2>2. entries[handlers[h].key].state = "InFlight"
    BY <2>1 DEF IInv, OwnersAndReservations
  <2>3. ~ (now < sealed[handlers[h].key])
    BY <2>1, <2>2 DEF IInv, TombstonesKept, Tombstone
  <2>4. now \in Nat /\ sealed[handlers[h].key] \in Nat
    BY <2>1 DEF IInv, Typed
  <2> QED BY <2>1, <2>3, <2>4, KeysAreExclusive
<1>2. Spec => [][A]_vars
  BY <1>1, Invariance, PTL DEF Spec
<1> QED BY <1>2 DEF NoReExecution
-----------------------------------------------------------------------------
\* The quotas.

\* Keys that hold a tombstone or the claim to one.
Holding == Tombstone \cup {"InFlight"}

\* Both bounds of a scope, and the entry quotas of scope, principal and map.
QInv == TombstoneBudget /\ EntryQuotas

\* The map without key k.
Without(es, k) == [es EXCEPT ![k] = Absent]

\* n leaves room for one more.
Below(n, limit) == limit > 0 => n < limit

\* Fewer keys count no more.
LEMMA CountLe ==
  ASSUME NEW S, NEW T \in SUBSET Keys, S \subseteq T
  PROVE  Cardinality(S) \in Nat /\ Cardinality(T) \in Nat /\ Cardinality(S) <= Cardinality(T)
<1>1. IsFiniteSet(T)
  BY ScopeAssumption, FS_Subset
<1>2. IsFiniteSet(S) /\ Cardinality(S) <= Cardinality(T)
  BY <1>1, FS_Subset
<1> QED BY <1>1, <1>2, FS_CardinalityType

\* Without one of them they count less.
LEMMA CountLt ==
  ASSUME NEW S, NEW T \in SUBSET Keys, S \subseteq T, NEW j \in T, j \notin S
  PROVE  Cardinality(S) \in Nat /\ Cardinality(T) \in Nat /\ Cardinality(S) < Cardinality(T)
<1>1. IsFiniteSet(T)
  BY ScopeAssumption, FS_Subset
<1>2. IsFiniteSet(S) /\ Cardinality(S) <= Cardinality(T) /\ (Cardinality(T) = Cardinality(S) => T = S)
  BY <1>1, FS_Subset
<1>3. T # S
  OBVIOUS
<1>4. Cardinality(S) \in Nat /\ Cardinality(T) \in Nat
  BY <1>1, <1>2, FS_CardinalityType
<1> QED BY <1>2, <1>3, <1>4

\* One key more counts at most one more.
LEMMA CountAdd ==
  ASSUME NEW S \in SUBSET Keys, NEW T, NEW k \in Keys, T \subseteq S \cup {k}
  PROVE  Cardinality(S) \in Nat /\ Cardinality(T) \in Nat /\ Cardinality(T) <= Cardinality(S) + 1
<1>1. IsFiniteSet(S) /\ Cardinality(S) \in Nat
  BY ScopeAssumption, FS_Subset, FS_CardinalityType
<1>2. IsFiniteSet(S \cup {k}) /\ Cardinality(S \cup {k}) <= Cardinality(S) + 1
  BY <1>1, FS_AddElement
<1>3. S \cup {k} \in SUBSET Keys
  OBVIOUS
<1>4. Cardinality(T) \in Nat /\ Cardinality(S \cup {k}) \in Nat /\ Cardinality(T) <= Cardinality(S \cup {k})
  BY <1>3, CountLe
<1> QED BY <1>1, <1>2, <1>4

\* A key holds a tombstone or a claim, never both.
LEMMA ClaimsAddUp ==
  ASSUME NEW es, NEW S \in SUBSET Keys
  PROVE  /\ Cardinality(S \cap InState(es, Holding)) \in Nat
         /\ Cardinality(S \cap InState(es, Tombstone)) + Cardinality(S \cap InState(es, {"InFlight"}))
               = Cardinality(S \cap InState(es, Holding))
<1> DEFINE A == S \cap InState(es, Tombstone)
           B == S \cap InState(es, {"InFlight"})
           C == S \cap InState(es, Holding)
<1>1. C = A \cup B /\ A \cap B = {}
  BY DEF InState, Holding, Tombstone
<1>2. A \in SUBSET Keys /\ B \in SUBSET Keys /\ C \in SUBSET Keys
  OBVIOUS
<1> HIDE DEF A, B, C
<1>3. IsFiniteSet(A) /\ IsFiniteSet(B) /\ Cardinality(A) \in Nat /\ Cardinality(B) \in Nat /\ Cardinality(C) \in Nat
  BY <1>2, ScopeAssumption, FS_Subset, FS_CardinalityType
<1>4. Cardinality(C) = Cardinality(A) + Cardinality(B) - Cardinality(A \cap B)
  BY <1>1, <1>3, FS_Union
<1>5. Cardinality(A \cap B) = 0
  BY <1>1, FS_EmptySet
<1>6. Cardinality(A) + Cardinality(B) = Cardinality(C)
  BY <1>3, <1>4, <1>5
<1> QED BY <1>3, <1>6 DEF A, B, C

\* What one quota check does, step by step.
LEMMA MakeRoomSteps ==
  ASSUME NEW es \in [Keys -> Entry], NEW r, Outcome(r, es),
         NEW full \in BOOLEAN, NEW K \in SUBSET Keys
  PROVE  /\ ~ r.ok \/ ~ full => MakeRoom(r, full, K) = r
         /\ r.ok /\ full /\ Evictable(r.es, K) = {} =>
               ~ MakeRoom(r, full, K).ok /\ MakeRoom(r, full, K).es = r.es
         /\ r.ok /\ full /\ Evictable(r.es, K) # {} =>
               /\ MakeRoom(r, full, K).ok
               /\ \E j \in Evictable(r.es, K) : MakeRoom(r, full, K).es = Without(r.es, j)
<1>1. CASE ~ r.ok \/ ~ full
  BY <1>1 DEF MakeRoom
<1>2. CASE r.ok /\ full /\ Evictable(r.es, K) = {}
  <2>1. MakeRoom(r, full, K) = [ok |-> FALSE, es |-> r.es]
    BY <1>2 DEF MakeRoom, Outcome
  <2>2. ~ MakeRoom(r, full, K).ok /\ MakeRoom(r, full, K).es = r.es
    BY <2>1
  <2> QED BY <1>2, <2>2, Zenon
<1>3. CASE r.ok /\ full /\ Evictable(r.es, K) # {}
  <2>1. r.es \in [Keys -> Entry]
    BY DEF Outcome, Evicts
  <2>2. PICK j \in Evictable(r.es, K) : evictOldestLocked(r.es, K) = Without(r.es, j)
    BY <1>3, <2>1, EvictFacts DEF Without
  <2>3. MakeRoom(r, full, K) = [ok |-> r.ok, es |-> evictOldestLocked(r.es, K)]
    BY <1>3 DEF MakeRoom, Outcome
  <2>4. MakeRoom(r, full, K).ok = r.ok /\ MakeRoom(r, full, K).es = evictOldestLocked(r.es, K)
    BY <2>3
  <2> QED BY <1>3, <2>2, <2>4, Zenon
<1> QED BY <1>1, <1>2, <1>3, Zenon

\* m is what r becomes when a reply among K has to go.
Evicted(m, r, K) == m.ok /\ \E j \in Evictable(r.es, K) : m.es = Without(r.es, j)

\* So it does when there is one.
LEMMA MakeRoomEvicts ==
  ASSUME NEW es \in [Keys -> Entry], NEW r, Outcome(r, es), r.ok,
         NEW full \in BOOLEAN, full, NEW K \in SUBSET Keys, Evictable(r.es, K) # {}
  PROVE  Evicted(MakeRoom(r, full, K), r, K)
<1>1. r.es \in [Keys -> Entry]
  BY DEF Outcome, Evicts
<1>2. PICK j \in Evictable(r.es, K) : evictOldestLocked(r.es, K) = Without(r.es, j)
  BY <1>1, EvictFacts DEF Without
<1>3. MakeRoom(r, full, K) = [ok |-> r.ok, es |-> evictOldestLocked(r.es, K)]
  BY DEF MakeRoom, Outcome
<1>4. MakeRoom(r, full, K).ok = r.ok /\ MakeRoom(r, full, K).es = evictOldestLocked(r.es, K)
  BY ONLY <1>3
<1> QED BY <1>2, <1>4, Zenon DEF Evicted

\* An eviction among K removes a key of K from the map and adds none.
LEMMA EvictionThins ==
  ASSUME NEW es \in [Keys -> Entry], NEW K \in SUBSET Keys, NEW j \in Evictable(es, K)
  PROVE  LET after == Without(es, j)
         IN /\ Present(after) = Present(es) \ {j}
            /\ j \in K \cap Present(es)
            /\ \A S : S \cap InState(after, Holding) = S \cap InState(es, Holding)
            /\ InState(after, {"Done"}) = InState(es, {"Done"}) \ {j}
<1> DEFINE after == Without(es, j)
<1>1. j \in K /\ j \in Keys /\ es[j].state = "Done"
  BY DEF Evictable, InState
<1>2. \A i \in Keys : after[i] = IF i = j THEN Absent ELSE es[i]
  BY DEF Without
<1> HIDE DEF after
<1>3. Present(after) = Present(es) \ {j} /\ j \in K \cap Present(es)
  BY <1>1, <1>2, AbsentType DEF Present
<1>4. InState(after, Holding) = InState(es, Holding)
  BY <1>1, <1>2, AbsentType DEF InState, Holding, Tombstone
<1>5. InState(after, {"Done"}) = InState(es, {"Done"}) \ {j}
  BY <1>1, <1>2, AbsentType DEF InState
<1> QED BY <1>3, <1>4, <1>5 DEF after
\* A quota check that succeeds leaves room for one more among K, whatever the
\* checks before it have evicted since the count was taken.
LEMMA MakeRoomBelow ==
  ASSUME NEW es \in [Keys -> Entry], NEW r, Outcome(r, es), r.ok,
         NEW K \in SUBSET Keys, NEW limit \in Nat, NEW full,
         full = atLimit(Cardinality(K \cap Present(es)), limit),
         Within(Cardinality(K \cap Present(es)), limit),
         MakeRoom(r, full, K).ok
  PROVE  LET m == MakeRoom(r, full, K)
         IN /\ Outcome(m, es)
            /\ Present(m.es) \subseteq Present(r.es)
            /\ Below(Cardinality(K \cap Present(m.es)), limit)
<1> DEFINE n == Cardinality(K \cap Present(es))
<1>1. PICK m : m = MakeRoom(r, full, K)
  OBVIOUS
<1>2. full \in BOOLEAN
  BY DEF atLimit
<1>3. Outcome(m, es)
  BY <1>1, <1>2, MakeRoomFacts
<1>4. r.es \in [Keys -> Entry] /\ Present(r.es) \subseteq Present(es)
  BY AbsentType DEF Outcome, Evicts, Present
<1>5. CASE ~ full
  <2>1. m = r
    BY <1>1, <1>2, <1>5, MakeRoomSteps
  <2>2. K \cap Present(es) \in SUBSET Keys /\ K \cap Present(r.es) \subseteq K \cap Present(es)
    BY <1>4
  <2>3. /\ n \in Nat /\ Cardinality(K \cap Present(r.es)) \in Nat
        /\ Cardinality(K \cap Present(r.es)) <= n
    BY <2>2, CountLe
  <2>4. limit > 0 => n < limit
    <3>1. ~ atLimit(n, limit)
      BY <1>5
    <3> HIDE DEF n
    <3> QED BY <2>3, <3>1 DEF atLimit
  <2>5. Below(Cardinality(K \cap Present(r.es)), limit)
    BY <2>3, <2>4 DEF Below
  <2> QED BY <1>1, <1>3, <2>1, <2>5
<1>6. CASE full
  <2>1. \E j \in Evictable(r.es, K) : m.es = Without(r.es, j)
    <3>1. CASE Evictable(r.es, K) = {}
      <4>1. ~ m.ok
        BY <1>1, <1>2, <1>6, <3>1, MakeRoomSteps
      <4> QED BY <1>1, <4>1
    <3>2. CASE Evictable(r.es, K) # {}
      BY <1>1, <1>2, <1>6, <3>2, MakeRoomSteps
    <3> QED BY <3>1, <3>2
  <2>2. PICK j \in Evictable(r.es, K) : m.es = Without(r.es, j)
    BY <2>1
  <2>3. Present(m.es) = Present(r.es) \ {j} /\ j \in K \cap Present(r.es)
    BY <1>4, <2>2, EvictionThins
  <2>4. /\ K \cap Present(es) \in SUBSET Keys /\ K \cap Present(m.es) \subseteq K \cap Present(es)
        /\ j \in K \cap Present(es) /\ j \notin K \cap Present(m.es)
    BY <1>4, <2>3
  <2>5. /\ n \in Nat /\ Cardinality(K \cap Present(m.es)) \in Nat
        /\ Cardinality(K \cap Present(m.es)) < n
    <3>1. PICK T \in SUBSET Keys, S \in SUBSET Keys : T = K \cap Present(es) /\ S = K \cap Present(m.es) /\ S \subseteq T
      BY <2>4
    <3>2. j \in T /\ j \notin S
      BY <2>4, <3>1
    <3>3. Cardinality(S) \in Nat /\ Cardinality(T) \in Nat /\ Cardinality(S) < Cardinality(T)
      BY <3>1, <3>2, CountLt
    <3> QED BY <3>1, <3>3
  <2>6. Below(Cardinality(K \cap Present(m.es)), limit)
    BY <2>5 DEF Below, Within
  <2> QED BY <1>1, <1>3, <2>3, <2>6
<1> QED BY <1>2, <1>5, <1>6

\* The three checks together, on a map that respects the quotas.
Respects(es, k) ==
    /\ Within(Cardinality(Scope(k) \cap Present(es)), MaxScopeEntries)
    /\ Within(Cardinality(Principal(k) \cap Present(es)), MaxPrincipalEntries)
    /\ Within(Cardinality(Present(es)), MaxEntries)

\* When they succeed there is room for k everywhere.
LEMMA ReserveRoom ==
  ASSUME NEW es \in [Keys -> Entry], NEW k \in Keys, Respects(es, k), Reserve(es, k).ok
  PROVE  LET es2 == Reserve(es, k).es
         IN /\ Below(Cardinality(Scope(k) \cap Present(es2)), MaxScopeEntries)
            /\ Below(Cardinality(Principal(k) \cap Present(es2)), MaxPrincipalEntries)
            /\ Below(Cardinality(Present(es2)), MaxEntries)
<1> DEFINE full1 == atLimit(Cardinality(Scope(k) \cap Present(es)), MaxScopeEntries)
           full2 == atLimit(Cardinality(Principal(k) \cap Present(es)), MaxPrincipalEntries)
           r0 == [ok |-> TRUE, es |-> es]
           r1 == MakeRoom(r0, full1, Scope(k))
           r2 == MakeRoom(r1, full2, Principal(k))
           full3 == atLimit(Cardinality(Present(r2.es)), MaxEntries)
           r3 == MakeRoom(r2, full3, Keys)
<1>1. full1 \in BOOLEAN /\ full2 \in BOOLEAN /\ full3 \in BOOLEAN
  BY DEF atLimit
<1>2. Scope(k) \in SUBSET Keys /\ Principal(k) \in SUBSET Keys /\ Keys \in SUBSET Keys
  BY DEF Scope, Principal
<1>3. Outcome(r0, es) /\ r0.ok /\ r0.es = es
  BY DEF Outcome, Evicts
<1>4. Reserve(es, k) = r3
  BY DEF Reserve
<1>5. r3.ok
  BY <1>4
<1>6. MaxScopeEntries \in Nat /\ MaxPrincipalEntries \in Nat /\ MaxEntries \in Nat
  BY LimitAssumption
<1>7. full1 = atLimit(Cardinality(Scope(k) \cap Present(es)), MaxScopeEntries)
      /\ full2 = atLimit(Cardinality(Principal(k) \cap Present(es)), MaxPrincipalEntries)
      /\ full3 = atLimit(Cardinality(Present(r2.es)), MaxEntries)
  OBVIOUS
<1> HIDE DEF full1, full2, r0
<1>8. Outcome(r1, es)
  BY <1>1, <1>2, <1>3, MakeRoomFacts
<1>9. r1 = MakeRoom(r0, full1, Scope(k))
  OBVIOUS
<1> HIDE DEF r1
<1>10. Outcome(r2, es)
  BY <1>1, <1>2, <1>8, MakeRoomFacts
<1>11. r2 = MakeRoom(r1, full2, Principal(k))
  OBVIOUS
<1> HIDE DEF r2, full3
<1>12. r3 = MakeRoom(r2, full3, Keys)
  OBVIOUS
<1> HIDE DEF r3
<1>13. r2.ok
  BY <1>1, <1>2, <1>5, <1>10, <1>12, MakeRoomSteps
<1>14. r1.ok
  BY <1>1, <1>2, <1>8, <1>11, <1>13, MakeRoomSteps
<1>15. Below(Cardinality(Scope(k) \cap Present(r1.es)), MaxScopeEntries)
  BY <1>2, <1>3, <1>6, <1>7, <1>9, <1>14, MakeRoomBelow DEF Respects
<1>16. Below(Cardinality(Principal(k) \cap Present(r2.es)), MaxPrincipalEntries) /\ Present(r2.es) \subseteq Present(r1.es)
  BY <1>2, <1>6, <1>7, <1>8, <1>11, <1>13, <1>14, MakeRoomBelow DEF Respects
<1>17. r2.es \in [Keys -> Entry] /\ Outcome(r2, r2.es) /\ Present(r2.es) \subseteq Present(es)
  BY <1>10, AbsentType DEF Outcome, Evicts, Present
<1>18. Keys \cap Present(r2.es) = Present(r2.es) /\ Present(es) \in SUBSET Keys
       /\ \A e : Keys \cap Present(e) = Present(e)
  BY DEF Present
<1>19. Within(Cardinality(Present(r2.es)), MaxEntries)
  <2>1. Cardinality(Present(r2.es)) <= Cardinality(Present(es)) /\ Cardinality(Present(es)) \in Nat
        /\ Cardinality(Present(r2.es)) \in Nat
    BY <1>17, <1>18, CountLe
  <2> QED BY <1>6, <2>1 DEF Respects, Within
<1>20. Below(Cardinality(Present(r3.es)), MaxEntries) /\ Present(r3.es) \subseteq Present(r2.es)
  <2>1. PICK e2 \in [Keys -> Entry] : e2 = r2.es
    BY <1>17
  <2>2. full3 = atLimit(Cardinality(Keys \cap Present(e2)), MaxEntries) /\ Within(Cardinality(Keys \cap Present(e2)), MaxEntries)
    BY <1>7, <1>18, <1>19, <2>1
  <2>3. Outcome(r2, e2) /\ MakeRoom(r2, full3, Keys).ok
    BY <1>5, <1>12, <1>17, <2>1
  <2>4. Below(Cardinality(Keys \cap Present(r3.es)), MaxEntries) /\ Present(r3.es) \subseteq Present(r2.es)
    BY <1>2, <1>6, <1>12, <1>13, <2>2, <2>3, MakeRoomBelow
  <2> QED BY <1>18, <2>4
<1>21. ASSUME NEW S \in SUBSET Keys, NEW A \in SUBSET Keys, NEW B \in SUBSET Keys, NEW limit \in Nat,
              A \subseteq B, Below(Cardinality(S \cap B), limit)
       PROVE  Below(Cardinality(S \cap A), limit)
  <2>1. S \cap A \subseteq S \cap B /\ S \cap B \in SUBSET Keys
    BY <1>21
  <2>2. Cardinality(S \cap A) <= Cardinality(S \cap B) /\ Cardinality(S \cap A) \in Nat /\ Cardinality(S \cap B) \in Nat
    BY <2>1, CountLe
  <2> QED BY <1>21, <2>2 DEF Below
<1>22. Present(r3.es) \in SUBSET Keys /\ Present(r2.es) \in SUBSET Keys /\ Present(r1.es) \in SUBSET Keys
  BY DEF Present
<1>23. Present(r3.es) \subseteq Present(r1.es)
  BY <1>16, <1>20
<1>24. Below(Cardinality(Scope(k) \cap Present(r3.es)), MaxScopeEntries)
  BY <1>2, <1>6, <1>15, <1>21, <1>22, <1>23
<1>25. Below(Cardinality(Principal(k) \cap Present(r3.es)), MaxPrincipalEntries)
  BY <1>2, <1>6, <1>16, <1>20, <1>21, <1>22
<1> QED BY <1>4, <1>20, <1>24, <1>25
\* Removing keys and settling claims overruns nothing.
LEMMA ShrinkKeepsQuotas ==
  ASSUME QInv, Present(entries') \subseteq Present(entries),
         InState(entries', Holding) \subseteq InState(entries, Holding)
  PROVE  QInv'
<1>1. ASSUME NEW S \in SUBSET Keys, NEW A, NEW B \in SUBSET Keys, NEW limit \in Nat, A \subseteq B,
             Within(Cardinality(S \cap B), limit)
      PROVE  Within(Cardinality(S \cap A), limit)
  <2>1. S \cap A \subseteq S \cap B /\ S \cap B \in SUBSET Keys
    BY <1>1
  <2>2. Cardinality(S \cap A) <= Cardinality(S \cap B) /\ Cardinality(S \cap A) \in Nat /\ Cardinality(S \cap B) \in Nat
    BY <2>1, CountLe
  <2> QED BY <1>1, <2>2 DEF Within
<1>2. Present(entries) \in SUBSET Keys /\ InState(entries, Holding) \in SUBSET Keys
      /\ \A e : Keys \cap Present(e) = Present(e)
  BY DEF Present, InState
<1>3. \A k \in Keys : Scope(k) \in SUBSET Keys /\ Principal(k) \in SUBSET Keys
  BY DEF Scope, Principal
<1>4. TombstoneBudget'
  <2> SUFFICES ASSUME NEW k \in Keys
               PROVE  Within(Cardinality(Scope(k) \cap InState(entries', Tombstone))
                             + Cardinality(Scope(k) \cap InState(entries', {"InFlight"})), MaxScopeTombstones)
    BY DEF TombstoneBudget
  <2>1. Within(Cardinality(Scope(k) \cap InState(entries, Holding)), MaxScopeTombstones)
    BY <1>3, ClaimsAddUp DEF QInv, TombstoneBudget
  <2>2. Within(Cardinality(Scope(k) \cap InState(entries', Holding)), MaxScopeTombstones)
    BY <1>1, <1>2, <1>3, <2>1, LimitAssumption
  <2>3. Cardinality(Scope(k) \cap InState(entries', Tombstone))
          + Cardinality(Scope(k) \cap InState(entries', {"InFlight"}))
          = Cardinality(Scope(k) \cap InState(entries', Holding))
    BY <1>3, ClaimsAddUp
  <2> QED BY <2>2, <2>3
<1>5. EntryQuotas'
  <2>1. ASSUME NEW k \in Keys
        PROVE  /\ Within(Cardinality(Scope(k) \cap Present(entries')), MaxScopeEntries)
               /\ Within(Cardinality(Principal(k) \cap Present(entries')), MaxPrincipalEntries)
    BY <1>1, <1>2, <1>3, LimitAssumption DEF QInv, EntryQuotas
  <2>2. Within(Cardinality(Present(entries')), MaxEntries)
    <3>1. Within(Cardinality(Keys \cap Present(entries)), MaxEntries)
      BY <1>2 DEF QInv, EntryQuotas
    <3>2. Within(Cardinality(Keys \cap Present(entries')), MaxEntries)
      BY <1>1, <1>2, <3>1, LimitAssumption
    <3> QED BY <1>2, <3>2
  <2> QED BY <2>1, <2>2 DEF EntryQuotas
<1> QED BY <1>4, <1>5 DEF QInv

\* A thinned map is smaller, and respects the quotas of any key.
LEMMA ThinnedShrinks ==
  ASSUME entries \in [Keys -> Entry], NEW es2, Thinned(es2)
  PROVE  Present(es2) \subseteq Present(entries) /\ InState(es2, Holding) \subseteq InState(entries, Holding)
BY AbsentType DEF Thinned, Present, InState, Holding, Tombstone

\* begin counts before it evicts, and still overruns no quota.
LEMMA StartKeepsQuotas ==
  ASSUME Typed, QInv, NEW h \in Handlers, NEW k \in Keys, NEW q \in Hashes, BeginStarted(h, k, q)
  PROVE  QInv'
<1>1. PICK es \in [Keys -> Entry] : es = sweepLocked(entries)
  BY SweepFacts DEF Typed
<1>2. PICK es2 : es2 = Reserve(es, k).es
  OBVIOUS
<1>3. /\ es[k].state = "Absent" /\ ~ Saturated(es, k) /\ Reserve(es, k).ok
      /\ entries' = [es2 EXCEPT ![k] = Reservation(h, q)]
  BY <1>1, <1>2 DEF BeginStarted
<1>4. Evicts(es2, es) /\ es2 \in [Keys -> Entry]
  BY <1>2, ReserveFacts DEF Outcome, Evicts
<1>5. Evicts(es, es)
  BY DEF Evicts
<1>6. Thinned(es) /\ Thinned(es2)
  BY <1>1, <1>4, <1>5, SweptThins DEF Typed
<1>7. /\ Present(es) \subseteq Present(entries) /\ InState(es, Holding) \subseteq InState(entries, Holding)
      /\ Present(es2) \subseteq Present(entries) /\ InState(es2, Holding) \subseteq InState(entries, Holding)
  BY <1>6, ThinnedShrinks DEF Typed
<1>8. Present(entries) \in SUBSET Keys /\ Present(es2) \in SUBSET Keys /\ InState(es2, Holding) \in SUBSET Keys
      /\ InState(entries, Holding) \in SUBSET Keys
  BY DEF Present, InState
<1>9. \A j \in Keys : Scope(j) \in SUBSET Keys /\ Principal(j) \in SUBSET Keys
  BY DEF Scope, Principal
<1>10. Present(entries') \subseteq Present(es2) \cup {k} /\ InState(entries', Holding) \subseteq InState(es2, Holding) \cup {k}
  BY <1>3, <1>4 DEF Present, InState
<1>11. ASSUME NEW S \in SUBSET Keys, NEW A \in SUBSET Keys, NEW B \in SUBSET Keys, NEW limit \in Nat, A \subseteq B,
              Within(Cardinality(S \cap B), limit)
       PROVE  Within(Cardinality(S \cap A), limit)
  <2>1. S \cap A \subseteq S \cap B /\ S \cap B \in SUBSET Keys
    BY <1>11
  <2>2. Cardinality(S \cap A) <= Cardinality(S \cap B) /\ Cardinality(S \cap A) \in Nat /\ Cardinality(S \cap B) \in Nat
    BY <2>1, CountLe
  <2> QED BY <1>11, <2>2 DEF Within
<1>12. ASSUME NEW S \in SUBSET Keys, NEW A, NEW B \in SUBSET Keys, NEW limit \in Nat, A \subseteq B \cup {k},
              Within(Cardinality(S \cap B), limit), k \in S => Below(Cardinality(S \cap B), limit)
       PROVE  Within(Cardinality(S \cap A), limit)
  <2>1. CASE k \in S
    <3>1. S \cap A \subseteq (S \cap B) \cup {k} /\ S \cap B \in SUBSET Keys
      BY <1>12
    <3>2. Cardinality(S \cap A) <= Cardinality(S \cap B) + 1 /\ Cardinality(S \cap A) \in Nat /\ Cardinality(S \cap B) \in Nat
      BY <3>1, CountAdd
    <3> QED BY <1>12, <2>1, <3>2 DEF Within, Below
  <2>2. CASE k \notin S
    <3>1. S \cap A \subseteq S \cap B /\ S \cap B \in SUBSET Keys
      BY <1>12, <2>2
    <3>2. Cardinality(S \cap A) <= Cardinality(S \cap B) /\ Cardinality(S \cap A) \in Nat /\ Cardinality(S \cap B) \in Nat
      BY <3>1, CountLe
    <3> QED BY <1>12, <3>2 DEF Within
  <2> QED BY <2>1, <2>2
<1>13. \A e : Keys \cap Present(e) = Present(e)
  BY DEF Present
<1>14. Respects(es, k)
  <2>1. Present(es) \in SUBSET Keys
    BY DEF Present
  <2>2. Within(Cardinality(Keys \cap Present(es)), MaxEntries)
    BY <1>7, <1>8, <1>11, <1>13, <2>1, LimitAssumption DEF QInv, EntryQuotas
  <2>3. Within(Cardinality(Scope(k) \cap Present(es)), MaxScopeEntries)
        /\ Within(Cardinality(Principal(k) \cap Present(es)), MaxPrincipalEntries)
    BY <1>7, <1>8, <1>9, <1>11, <2>1, LimitAssumption DEF QInv, EntryQuotas
  <2> QED BY <1>13, <2>2, <2>3 DEF Respects
<1>15. /\ Below(Cardinality(Scope(k) \cap Present(es2)), MaxScopeEntries)
       /\ Below(Cardinality(Principal(k) \cap Present(es2)), MaxPrincipalEntries)
       /\ Below(Cardinality(Present(es2)), MaxEntries)
  BY <1>2, <1>3, <1>14, ReserveRoom
<1>16. \A j \in Keys : /\ k \in Scope(j) => Scope(j) = Scope(k)
                       /\ k \in Principal(j) => Principal(j) = Principal(k)
  BY DEF Scope, Principal
<1>17. EntryQuotas'
  <2>1. ASSUME NEW j \in Keys
        PROVE  /\ Within(Cardinality(Scope(j) \cap Present(entries')), MaxScopeEntries)
               /\ Within(Cardinality(Principal(j) \cap Present(entries')), MaxPrincipalEntries)
    <3>1. /\ Within(Cardinality(Scope(j) \cap Present(es2)), MaxScopeEntries)
          /\ Within(Cardinality(Principal(j) \cap Present(es2)), MaxPrincipalEntries)
      BY <1>7, <1>8, <1>9, <1>11, LimitAssumption DEF QInv, EntryQuotas
    <3>2. k \in Scope(j) => Below(Cardinality(Scope(j) \cap Present(es2)), MaxScopeEntries)
      BY <1>15, <1>16
    <3>3. k \in Principal(j) => Below(Cardinality(Principal(j) \cap Present(es2)), MaxPrincipalEntries)
      BY <1>15, <1>16
    <3> QED BY <1>8, <1>9, <1>10, <1>12, <3>1, <3>2, <3>3, LimitAssumption
  <2>2. Within(Cardinality(Present(entries')), MaxEntries)
    <3>1. Within(Cardinality(Keys \cap Present(es2)), MaxEntries)
      BY <1>7, <1>8, <1>11, <1>13, LimitAssumption DEF QInv, EntryQuotas
    <3>2. Below(Cardinality(Keys \cap Present(es2)), MaxEntries)
      BY <1>13, <1>15
    <3>3. Within(Cardinality(Keys \cap Present(entries')), MaxEntries)
      BY <1>8, <1>10, <1>12, <3>1, <3>2, LimitAssumption
    <3> QED BY <1>13, <3>3
  <2> QED BY <2>1, <2>2 DEF EntryQuotas
<1>18. Below(Cardinality(Scope(k) \cap InState(es, Holding)), MaxScopeTombstones)
  <2>1. /\ Cardinality(Scope(k) \cap InState(es, Tombstone)) + Cardinality(Scope(k) \cap InState(es, {"InFlight"}))
             = Cardinality(Scope(k) \cap InState(es, Holding))
        /\ Cardinality(Scope(k) \cap InState(es, Holding)) \in Nat
    BY <1>9, ClaimsAddUp
  <2>2. ~ atLimit(Cardinality(Scope(k) \cap InState(es, Holding)), MaxScopeTombstones)
    BY <1>3, <2>1 DEF Saturated
  <2> QED BY <2>1, <2>2, LimitAssumption DEF atLimit, Below
<1>19. InState(es2, Holding) = InState(es, Holding)
  BY <1>4, AbsentType DEF Evicts, InState, Holding, Tombstone
<1>20. TombstoneBudget'
  <2> SUFFICES ASSUME NEW j \in Keys
               PROVE  Within(Cardinality(Scope(j) \cap InState(entries', Tombstone))
                             + Cardinality(Scope(j) \cap InState(entries', {"InFlight"})), MaxScopeTombstones)
    BY DEF TombstoneBudget
  <2>1. Within(Cardinality(Scope(j) \cap InState(entries, Holding)), MaxScopeTombstones)
    BY <1>9, ClaimsAddUp DEF QInv, TombstoneBudget
  <2>2. Within(Cardinality(Scope(j) \cap InState(es2, Holding)), MaxScopeTombstones)
    BY <1>7, <1>8, <1>9, <1>11, <2>1, LimitAssumption
  <2>3. k \in Scope(j) => Below(Cardinality(Scope(j) \cap InState(es2, Holding)), MaxScopeTombstones)
    BY <1>16, <1>18, <1>19
  <2>4. Within(Cardinality(Scope(j) \cap InState(entries', Holding)), MaxScopeTombstones)
    BY <1>8, <1>9, <1>10, <1>12, <2>2, <2>3, LimitAssumption
  <2>5. Cardinality(Scope(j) \cap InState(entries', Tombstone))
          + Cardinality(Scope(j) \cap InState(entries', {"InFlight"}))
          = Cardinality(Scope(j) \cap InState(entries', Holding))
    BY <1>9, ClaimsAddUp
  <2> QED BY <2>4, <2>5
<1> QED BY <1>17, <1>20 DEF QInv

\* A reservation that ends leaves at most the tombstone that it had claimed.
LEMMA EndKeepsQuotas ==
  ASSUME IInv, QInv, NEW h \in Handlers, complete(h) \/ tombstone(h) \/ release(h)
  PROVE  QInv'
<1>1. handlers[h].pc = "answered"
  BY DEF complete, tombstone, release
<1>2. PICK k \in Keys : k = handlers[h].key
  BY <1>1, AnsweredHolds
<1>3. Holds(h) /\ entries \in [Keys -> Entry] /\ entries[k].state = "InFlight"
  BY <1>1, <1>2, AnsweredHolds DEF IInv, Typed, OwnersAndReservations
<1>4. \E e : entries' = [entries EXCEPT ![k] = e]
  BY <1>2, <1>3 DEF complete, tombstone, release, finishLocked
<1>5. \A j \in Keys : j # k => entries'[j] = entries[j]
  BY <1>3, <1>4
<1>6. k \in Present(entries) /\ k \in InState(entries, Holding)
  BY <1>3 DEF Present, InState, Holding
<1>7. Present(entries') \subseteq Present(entries) /\ InState(entries', Holding) \subseteq InState(entries, Holding)
  BY <1>5, <1>6 DEF Present, InState
<1> QED BY <1>7, ShrinkKeepsQuotas

\* Every step keeps the quotas.
LEMMA NextKeepsQuotas == IInv /\ QInv /\ [Next]_vars => QInv'
<1> SUFFICES ASSUME IInv, QInv, [Next]_vars PROVE QInv'
  OBVIOUS
<1>1. Typed /\ entries \in [Keys -> Entry]
  BY DEF IInv, Typed
<1>2. ASSUME entries' = entries PROVE QInv'
  BY <1>2, ShrinkKeepsQuotas
<1>3. ASSUME NEW h \in Handlers, NEW k \in Keys, NEW q \in Hashes, begin(h, k, q) PROVE QInv'
  <2>1. CASE BeginKnown(k, q) \/ BeginCapacity(k, q)
    <3>1. Thinned(entries')
      BY <1>1, <2>1, BeginAnswers
    <3> QED BY <1>1, <3>1, ThinnedShrinks, ShrinkKeepsQuotas
  <2>2. CASE BeginStarted(h, k, q)
    BY <1>1, <2>2, StartKeepsQuotas
  <2> QED BY <1>3, <2>1, <2>2 DEF begin
<1>4. ASSUME NEW h \in Handlers, complete(h) \/ tombstone(h) \/ release(h) PROVE QInv'
  BY <1>4, EndKeepsQuotas
<1>5. ASSUME NEW h \in Handlers, Refuse(h) \/ Dispatch(h) \/ (\E body \in Bodies : UpstreamReply(h, body))
                                 \/ (\E o \in Outcomes : UpstreamOther(h, o))
      PROVE  QInv'
  BY <1>2, <1>5 DEF Refuse, Dispatch, UpstreamReply, UpstreamOther
<1>6. CASE Tick
  BY <1>2, <1>6 DEF Tick
<1>7. CASE UNCHANGED vars
  BY <1>2, <1>7 DEF vars
<1> QED BY <1>3, <1>4, <1>5, <1>6, <1>7 DEF Next
\* At the start there is nothing to count.
LEMMA InitQuotas == Init => QInv
<1> SUFFICES ASSUME Init PROVE QInv
  OBVIOUS
<1>1. Present(entries) = {} /\ InState(entries, Tombstone) = {} /\ InState(entries, {"InFlight"}) = {}
  BY DEF Init, Present, InState, Absent, Tombstone
<1>2. \A S : Cardinality(S \cap {}) = 0
  BY FS_EmptySet
<1>3. Cardinality({}) = 0
  BY FS_EmptySet
<1>4. TombstoneBudget
  BY <1>1, <1>2, LimitAssumption DEF TombstoneBudget, Within
<1>5. EntryQuotas
  BY <1>1, <1>2, <1>3, LimitAssumption DEF EntryQuotas, Within
<1> QED BY <1>4, <1>5 DEF QInv

\* The order of the default limits (defaultIdempotencyLimits: 8 tombstones,
\* 64 entries): a scope that is full holds replies, not only claims.
BudgetBelowQuota == MaxScopeEntries > 0 => MaxScopeTombstones > 0 /\ MaxScopeTombstones < MaxScopeEntries

\* A scope that is full and not saturated has two stored replies to choose from.
LEMMA FullScopeHasTwo ==
  ASSUME BudgetBelowQuota, NEW es \in [Keys -> Entry], NEW k \in Keys, ~ Saturated(es, k),
         atLimit(Cardinality(Scope(k) \cap Present(es)), MaxScopeEntries)
  PROVE  \A j : Evictable(es, Scope(k)) \ {j} # {}
<1> DEFINE P == Scope(k) \cap Present(es)
           C == Scope(k) \cap InState(es, Holding)
           D == Evictable(es, Scope(k))
<1>1. P = C \cup D /\ P \in SUBSET Keys /\ C \in SUBSET Keys /\ D \in SUBSET Keys
  BY DEF Scope, Present, InState, Holding, Tombstone, Evictable, Entry, Finished
<1>2. /\ Cardinality(Scope(k) \cap InState(es, Tombstone)) + Cardinality(Scope(k) \cap InState(es, {"InFlight"})) = Cardinality(C)
      /\ Cardinality(C) \in Nat
  <2>1. Scope(k) \in SUBSET Keys
    BY DEF Scope
  <2> QED BY <2>1, ClaimsAddUp
<1>3. ~ atLimit(Cardinality(C), MaxScopeTombstones)
  BY <1>2 DEF Saturated
<1>4. MaxScopeEntries > 0 /\ Cardinality(P) >= MaxScopeEntries
  BY DEF atLimit
<1>5. MaxScopeTombstones > 0 /\ MaxScopeTombstones < MaxScopeEntries /\ Cardinality(C) < MaxScopeTombstones
  BY <1>2, <1>3, <1>4, LimitAssumption DEF atLimit, BudgetBelowQuota
<1> HIDE DEF P, C, D
<1> SUFFICES ASSUME NEW j, D \ {j} = {} PROVE FALSE
  BY DEF D
<1>6. IsFiniteSet(C) /\ Cardinality(C) \in Nat
  BY <1>1, ScopeAssumption, FS_Subset, FS_CardinalityType
<1>7. P \subseteq C \cup {j}
  BY <1>1
<1>8. IsFiniteSet(C \cup {j}) /\ Cardinality(C \cup {j}) <= Cardinality(C) + 1 /\ Cardinality(C \cup {j}) \in Nat
  <2>1. IsFiniteSet(C \cup {j})
        /\ Cardinality(C \cup {j}) = IF j \in C THEN Cardinality(C) ELSE Cardinality(C) + 1
    BY <1>6, FS_AddElement, Zenon
  <2> QED BY <1>6, <2>1
<1>9. Cardinality(P) <= Cardinality(C \cup {j}) /\ Cardinality(P) \in Nat
  BY <1>7, <1>8, FS_Subset, FS_CardinalityType
<1> QED BY <1>4, <1>5, <1>6, <1>8, <1>9, LimitAssumption

\* begin does not evict and then give up.
LEMMA GivesUpClean ==
  ASSUME BudgetBelowQuota, NEW es \in [Keys -> Entry], NEW k \in Keys, Respects(es, k),
         ~ Saturated(es, k), ~ Reserve(es, k).ok
  PROVE  Reserve(es, k).es = es
<1> DEFINE full1 == atLimit(Cardinality(Scope(k) \cap Present(es)), MaxScopeEntries)
           full2 == atLimit(Cardinality(Principal(k) \cap Present(es)), MaxPrincipalEntries)
           r0 == [ok |-> TRUE, es |-> es]
           r1 == MakeRoom(r0, full1, Scope(k))
           r2 == MakeRoom(r1, full2, Principal(k))
           full3 == atLimit(Cardinality(Present(r2.es)), MaxEntries)
           r3 == MakeRoom(r2, full3, Keys)
<1>1. full1 \in BOOLEAN /\ full2 \in BOOLEAN /\ full3 \in BOOLEAN
  BY DEF atLimit
<1>2. Scope(k) \in SUBSET Keys /\ Principal(k) \in SUBSET Keys /\ Keys \in SUBSET Keys /\ Scope(k) \subseteq Principal(k)
  BY DEF Scope, Principal
<1>3. Outcome(r0, es) /\ r0.ok /\ r0.es = es
  BY DEF Outcome, Evicts
<1>4. Reserve(es, k) = r3
  BY DEF Reserve
<1>5. ~ r3.ok
  BY <1>4
<1>6. /\ full1 = atLimit(Cardinality(Scope(k) \cap Present(es)), MaxScopeEntries)
      /\ full3 = atLimit(Cardinality(Present(r2.es)), MaxEntries)
  OBVIOUS
<1> HIDE DEF full1, full2, r0
<1>7. Outcome(r1, es)
  BY <1>1, <1>2, <1>3, MakeRoomFacts
<1>8. r1 = MakeRoom(r0, full1, Scope(k))
  OBVIOUS
<1> HIDE DEF r1
<1>9. Outcome(r2, es)
  BY <1>1, <1>2, <1>7, MakeRoomFacts
<1>10. r2 = MakeRoom(r1, full2, Principal(k))
  OBVIOUS
<1> HIDE DEF r2, full3
<1>11. r3 = MakeRoom(r2, full3, Keys)
  OBVIOUS
<1> HIDE DEF r3
<1>12. Present(es) \in SUBSET Keys
  BY DEF Present
\* Once anything is evicted the map as a whole has room.
<1>13. ASSUME NEW j \in Present(es), j \notin Present(r2.es) PROVE ~ full3
  <2>1. Present(r2.es) \subseteq Present(es)
    BY <1>9, AbsentType DEF Outcome, Evicts, Present
  <2>2. /\ Cardinality(Present(r2.es)) \in Nat /\ Cardinality(Present(es)) \in Nat
        /\ Cardinality(Present(r2.es)) < Cardinality(Present(es))
    BY <1>12, <1>13, <2>1, CountLt
  <2>3. MaxEntries > 0 => Cardinality(Present(es)) <= MaxEntries
    BY DEF Respects, Within
  <2>4. ~ atLimit(Cardinality(Present(r2.es)), MaxEntries)
    BY <2>2, <2>3, LimitAssumption DEF atLimit
  <2> QED BY <1>6, <2>4
<1>14. ASSUME r2.ok, NEW j \in Present(es), j \notin Present(r2.es) PROVE FALSE
  <2>1. ~ full3
    BY <1>13, <1>14
  <2>2. r3 = r2
    BY <1>1, <1>2, <1>9, <1>11, <2>1, MakeRoomSteps
  <2> QED BY <1>5, <1>14, <2>2
<1>15. ~ r2.ok => r3 = r2
  BY <1>1, <1>2, <1>9, <1>11, MakeRoomSteps
<1>16. ~ r1.ok => r2 = r1
  BY <1>1, <1>2, <1>7, <1>10, MakeRoomSteps
<1>17. CASE full1 /\ Evictable(es, Scope(k)) = {}
  <2>1. ~ r1.ok /\ r1.es = es
    BY <1>1, <1>2, <1>3, <1>8, <1>17, MakeRoomSteps
  <2> QED BY <1>4, <1>15, <1>16, <2>1
<1>18. CASE full1 /\ Evictable(es, Scope(k)) # {}
  <2>0. Evicted(r1, r0, Scope(k))
    BY <1>1, <1>2, <1>3, <1>8, <1>18, MakeRoomEvicts
  <2>1. r1.ok /\ \E j \in Evictable(es, Scope(k)) : r1.es = Without(es, j)
    BY <1>3, <2>0, Zenon DEF Evicted
  <2>2. PICK j \in Evictable(es, Scope(k)) : r1.es = Without(es, j)
    BY <2>1
  <2>3. Present(r1.es) = Present(es) \ {j} /\ j \in Present(es) /\ InState(r1.es, {"Done"}) = InState(es, {"Done"}) \ {j}
    BY <1>2, <2>2, EvictionThins
  <2>4. Evictable(r1.es, Principal(k)) # {}
    <3>1. Evictable(es, Scope(k)) \ {j} # {}
      BY <1>6, <1>18, FullScopeHasTwo
    <3> QED BY <1>2, <2>3, <3>1 DEF Evictable
  <2>5. r1.es \in [Keys -> Entry]
    BY <1>7 DEF Outcome, Evicts
  <2>6. r2.ok /\ Present(r2.es) \subseteq Present(r1.es)
    <3>1. CASE ~ full2
      <4>1. r2 = r1
        BY <1>1, <1>2, <1>7, <1>10, <3>1, MakeRoomSteps
      <4> QED BY <2>1, <4>1
    <3>2. CASE full2
      <4>0. Evicted(r2, r1, Principal(k))
        BY <1>1, <1>2, <1>7, <1>10, <2>1, <2>4, <3>2, MakeRoomEvicts
      <4>1. r2.ok /\ \E i \in Evictable(r1.es, Principal(k)) : r2.es = Without(r1.es, i)
        BY <4>0, Zenon DEF Evicted
      <4>2. PICK i \in Evictable(r1.es, Principal(k)) : r2.es = Without(r1.es, i)
        BY <4>1
      <4>3. Present(r2.es) = Present(r1.es) \ {i}
        BY <1>2, <2>5, <4>2, EvictionThins
      <4> QED BY <4>1, <4>3
    <3> QED BY <3>1, <3>2
  <2> QED BY <1>14, <2>3, <2>6
<1>19. CASE ~ full1
  <2>1. r1 = r0
    BY <1>1, <1>2, <1>3, <1>8, <1>19, MakeRoomSteps
  <2>2. CASE full2 /\ Evictable(es, Principal(k)) = {}
    <3>1. ~ r2.ok /\ r2.es = es
      BY <1>1, <1>2, <1>3, <1>10, <2>1, <2>2, MakeRoomSteps
    <3> QED BY <1>4, <1>15, <3>1
  <2>3. CASE full2 /\ Evictable(es, Principal(k)) # {}
    <3>0. Evicted(r2, r0, Principal(k))
      BY <1>1, <1>2, <1>3, <1>10, <2>1, <2>3, MakeRoomEvicts
    <3>1. r2.ok /\ \E j \in Evictable(es, Principal(k)) : r2.es = Without(es, j)
      BY <1>3, <3>0, Zenon DEF Evicted
    <3>2. PICK j \in Evictable(es, Principal(k)) : r2.es = Without(es, j)
      BY <3>1
    <3>3. Present(r2.es) = Present(es) \ {j} /\ j \in Present(es)
      BY <1>2, <3>2, EvictionThins
    <3> QED BY <1>14, <3>1, <3>3
  <2>4. CASE ~ full2
    <3>1. r2 = r0
      BY <1>1, <1>2, <1>3, <1>10, <2>1, <2>4, MakeRoomSteps
    <3>2. CASE ~ full3
      <4>1. r3 = r2
        BY <1>1, <1>2, <1>9, <1>11, <3>2, MakeRoomSteps
      <4> QED BY <1>3, <1>5, <3>1, <4>1
    <3>3. CASE full3 /\ Evictable(es, Keys) = {}
      <4>1. r3.es = es
        BY <1>1, <1>2, <1>3, <1>11, <3>1, <3>3, MakeRoomSteps
      <4> QED BY <1>4, <4>1
    <3>4. CASE full3 /\ Evictable(es, Keys) # {}
      <4>1. r3.ok
        BY <1>1, <1>2, <1>3, <1>11, <3>1, <3>4, MakeRoomSteps
      <4> QED BY <1>5, <4>1
    <3> QED BY <3>2, <3>3, <3>4
  <2> QED BY <2>2, <2>3, <2>4
<1> QED BY <1>17, <1>18, <1>19
\* A refusal for capacity evicts nothing that could still be replayed.
LEMMA RefusalKeepsReplies ==
  ASSUME BudgetBelowQuota, Typed, QInv, NEW k \in Keys, NEW q \in Hashes, BeginCapacity(k, q)
  PROVE  \A j \in Keys : LiveReply(j) => entries'[j] = entries[j]
<1>1. PICK es \in [Keys -> Entry] : es = sweepLocked(entries)
  BY SweepFacts DEF Typed
<1>2. Thinned(es)
  <2>1. Evicts(es, es)
    BY DEF Evicts
  <2> QED BY <1>1, <2>1, SweptThins DEF Typed
<1>3. Respects(es, k)
  <2>1. /\ Present(es) \subseteq Present(entries)
        /\ Present(entries) \in SUBSET Keys
    BY <1>2, ThinnedShrinks DEF Typed, Present
  <2>2. ASSUME NEW S \in SUBSET Keys, NEW limit \in Nat, Within(Cardinality(S \cap Present(entries)), limit)
        PROVE  Within(Cardinality(S \cap Present(es)), limit)
    <3>1. S \cap Present(es) \subseteq S \cap Present(entries) /\ S \cap Present(entries) \in SUBSET Keys
      BY <2>1
    <3>2. /\ Cardinality(S \cap Present(es)) \in Nat /\ Cardinality(S \cap Present(entries)) \in Nat
          /\ Cardinality(S \cap Present(es)) <= Cardinality(S \cap Present(entries))
      BY <3>1, CountLe
    <3> QED BY <2>2, <3>2 DEF Within
  <2>3. Scope(k) \in SUBSET Keys /\ Principal(k) \in SUBSET Keys /\ Keys \in SUBSET Keys
        /\ \A e : Keys \cap Present(e) = Present(e)
    BY DEF Scope, Principal, Present
  <2>4. Within(Cardinality(Keys \cap Present(es)), MaxEntries)
    BY <2>2, <2>3, LimitAssumption DEF QInv, EntryQuotas
  <2>5. Within(Cardinality(Scope(k) \cap Present(es)), MaxScopeEntries)
        /\ Within(Cardinality(Principal(k) \cap Present(es)), MaxPrincipalEntries)
    BY <2>2, <2>3, LimitAssumption DEF QInv, EntryQuotas
  <2> QED BY <2>3, <2>4, <2>5 DEF Respects
<1>4. entries' = es
  <2>1. CASE Saturated(es, k) /\ entries' = es
    BY <2>1
  <2>2. CASE ~ Saturated(es, k) /\ ~ Reserve(es, k).ok /\ entries' = Reserve(es, k).es
    BY <1>3, <2>2, GivesUpClean
  <2> QED BY <1>1, <2>1, <2>2 DEF BeginCapacity
<1>5. ASSUME NEW j \in Keys, LiveReply(j) PROVE es[j] = entries[j]
  <2>1. now \in Nat /\ entries[j].expires \in Nat /\ now < entries[j].expires
    BY <1>5 DEF Typed, Entry, LiveReply
  <2> QED BY <1>1, <2>1, SweepFacts DEF Typed
<1> QED BY <1>4, <1>5

\* Only begin refuses for capacity.
LEMMA RefusedByBegin ==
  ASSUME IInv, Next, answer'.status = "Capacity"
  PROVE  \E k \in Keys, q \in Hashes : BeginCapacity(k, q)
<1>1. NoAnswer.status # "Capacity"
  BY DEF NoAnswer
<1>2. answer' # NoAnswer
  BY <1>1
<1>3. ASSUME NEW k \in Keys, NEW q \in Hashes, BeginKnown(k, q) PROVE FALSE
  <2>1. sweepLocked(entries)[k] \in Entry
    BY SweepFacts DEF IInv, Typed
  <2>2. answer'.status \in {"Conflict", "Replay"} \/ answer'.status = sweepLocked(entries)[k].state
    BY <1>3 DEF BeginKnown, Told
  <2> QED BY <2>1, <2>2 DEF Entry, Finished
<1>4. \A h \in Handlers : ~ (complete(h) \/ tombstone(h) \/ release(h))
  BY <1>2 DEF complete, tombstone, release, Return
<1>5. \A h \in Handlers : ~ (Refuse(h) \/ Dispatch(h) \/ (\E body \in Bodies : UpstreamReply(h, body))
                             \/ (\E o \in Outcomes : UpstreamOther(h, o)))
  BY <1>2 DEF Refuse, Dispatch, UpstreamReply, UpstreamOther
<1>6. ~ Tick
  BY <1>2 DEF Tick
<1>7. \A h \in Handlers, k \in Keys, q \in Hashes : ~ BeginStarted(h, k, q)
  BY <1>2 DEF BeginStarted
<1> QED BY <1>3, <1>4, <1>5, <1>6, <1>7 DEF Next, begin

\* However reservations, completions and refusals interleave, no budget or quota
\* is overrun, and a request refused for capacity has cost nobody a reply.  The
\* second half is what the order of the limits is for.
THEOREM QuotasAreHeld ==
  ASSUME BudgetBelowQuota
  PROVE  Spec => QuotasHold
<1>1. Init => IInv /\ QInv
  BY InitIInv, InitQuotas
<1>2. IInv /\ QInv /\ [Next]_vars => IInv' /\ QInv'
  BY NextIInv, NextKeepsQuotas
<1>3. QInv => TombstoneBudget /\ EntryQuotas
  BY DEF QInv
<1> DEFINE Clean == answer'.status = "Capacity" => \A k \in Keys : LiveReply(k) => entries'[k] = entries[k]
<1>4. IInv /\ QInv /\ [Next]_vars => [Clean]_vars
  <2> SUFFICES ASSUME IInv, QInv, [Next]_vars, answer'.status = "Capacity",
                      NEW j \in Keys, LiveReply(j), vars' # vars
               PROVE  entries'[j] = entries[j]
    OBVIOUS
  <2>1. PICK k \in Keys, q \in Hashes : BeginCapacity(k, q)
    BY RefusedByBegin
  <2> QED BY <2>1, RefusalKeepsReplies DEF IInv
<1> QED BY <1>1, <1>2, <1>3, <1>4, PTL DEF Spec, QuotasHold, RefusalLosesNoReply
=============================================================================
