------------------------- MODULE AnalyticsDispatcher -------------------------
(***************************************************************************)
(* The gateway's audit event queue: services/mcp-gateway/analytics.go.     *)
(* Request handlers offer events (emitIfEnabled), workers post them to the *)
(* ingest service (emit), shutdown closes the queue and waits for the      *)
(* workers (stopAnalyticsDispatcher).                                      *)
(*                                                                         *)
(* Each region under analyticsMu is one action.  Events are alike, so the  *)
(* channel is its length.                                                  *)
(***************************************************************************)
EXTENDS Integers, FiniteSets

CONSTANTS
    Handlers,    \* request handlers that emit
    Workers,     \* analyticsWorkerCount goroutines
    QueueSize,   \* analyticsQueueSize
    MaxOffered    \* bound: events ever offered

ASSUME DispatcherAssumption ==
    /\ IsFiniteSet(Handlers) /\ IsFiniteSet(Workers) /\ Workers # {}
    /\ QueueSize \in Nat \ {0}
    /\ MaxOffered \in Nat

VARIABLES
    chan,       \* the channel: "nil" before it is made, "open", "closed"
    queued,     \* its length
    started,    \* analyticsOnce has run
    closed,     \* analyticsClosed
    locked,     \* analyticsMu is held for ever by a handler that panicked
    handler,    \* where each handler is in emitIfEnabled
    worker,     \* "none" until started, "idle", "busy", "exited"
    stopper,    \* main in stopAnalyticsDispatcher
    offered,    \* history: events offered so far
    dropped,    \* analyticsDropped
    posted      \* history: events handed to the ingest service

dispatcherVars == <<chan, queued, started, closed, locked, handler, worker, stopper,
          offered, dropped, posted>>

-----------------------------------------------------------------------------
DispatcherInit ==
    /\ chan = "nil" /\ queued = 0
    /\ started = FALSE /\ closed = FALSE /\ locked = FALSE
    /\ handler = [h \in Handlers |-> "idle"]
    /\ worker = [w \in Workers |-> "none"]
    /\ stopper = "idle"
    /\ offered = 0 /\ dropped = 0 /\ posted = 0

HandlerAt(h, pc, next) == handler[h] = pc /\ handler' = [handler EXCEPT ![h] = next]

\* startAnalyticsDispatcher, under its sync.Once; the first event starts it.
Start ==
    /\ started' = TRUE
    /\ IF started \/ closed THEN UNCHANGED <<chan, worker>>
       ELSE /\ chan' = "open"
            /\ worker' = [w \in Workers |-> "idle"]

-----------------------------------------------------------------------------
\* emitIfEnabled.

EmitClosed(h) ==
    /\ ~ locked /\ closed
    /\ offered < MaxOffered
    /\ handler[h] = "idle"
    /\ offered' = offered + 1
    /\ dropped' = dropped + 1
    /\ UNCHANGED <<chan, queued, started, closed, locked, handler, worker,
                   stopper, posted>>

EmitOpen(h) ==
    /\ ~ locked /\ ~ closed
    /\ offered < MaxOffered
    /\ HandlerAt(h, "idle", "checked")
    /\ offered' = offered + 1
    /\ UNCHANGED <<chan, queued, started, closed, locked, worker, stopper,
                   dropped, posted>>

\* analyticsEventQueue: the field is nil before the start and after the stop.
GetQueue(h) ==
    /\ ~ locked
    /\ HandlerAt(h, "checked", IF chan = "open" THEN "send" ELSE "start")
    /\ UNCHANGED <<chan, queued, started, closed, locked, worker, stopper,
                   offered, dropped, posted>>

StartQueue(h) ==
    /\ ~ locked
    /\ HandlerAt(h, "start", "again")
    /\ Start
    /\ UNCHANGED <<queued, closed, locked, stopper, offered, dropped, posted>>

\* Closed meanwhile: no queue, and emitIfEnabled returns without a word.
GetQueueAgain(h) ==
    /\ ~ locked
    /\ HandlerAt(h, "again", IF closed THEN "idle" ELSE "send")
    /\ UNCHANGED <<chan, queued, started, closed, locked, worker, stopper,
                   offered, dropped, posted>>

Send(h) ==
    /\ ~ locked /\ chan = "open"
    /\ queued < QueueSize
    /\ HandlerAt(h, "send", "idle")
    /\ queued' = queued + 1
    /\ UNCHANGED <<chan, started, closed, locked, worker, stopper, offered,
                   dropped, posted>>

SendFull(h) ==
    /\ ~ locked /\ chan = "open"
    /\ queued = QueueSize
    /\ HandlerAt(h, "send", "idle")
    /\ dropped' = dropped + 1
    /\ UNCHANGED <<chan, queued, started, closed, locked, worker, stopper,
                   offered, posted>>

\* A send on a closed channel panics, with analyticsMu held; net/http recovers
\* the handler and nothing releases the lock.
SendPanics(h) ==
    /\ ~ locked /\ chan = "closed"
    /\ HandlerAt(h, "send", "idle")
    /\ locked' = TRUE
    /\ UNCHANGED <<chan, queued, started, closed, worker, stopper, offered,
                   dropped, posted>>

-----------------------------------------------------------------------------
\* Workers and shutdown.

Receive(w) ==
    /\ worker[w] = "idle" /\ queued > 0
    /\ worker' = [worker EXCEPT ![w] = "busy"]
    /\ queued' = queued - 1
    /\ UNCHANGED <<chan, started, closed, locked, handler, stopper, offered,
                   dropped, posted>>

\* emit returns, whether the post succeeded or not: there is no retry.
Emitted(w) ==
    /\ worker[w] = "busy"
    /\ worker' = [worker EXCEPT ![w] = "idle"]
    /\ posted' = posted + 1
    /\ UNCHANGED <<chan, queued, started, closed, locked, handler, stopper,
                   offered, dropped>>

\* Mutant: a worker leaves as soon as the channel is closed.
ExitAtOnce(w) ==
    /\ worker[w] = "idle" /\ chan = "closed"
    /\ worker' = [worker EXCEPT ![w] = "exited"]
    /\ UNCHANGED <<chan, queued, started, closed, locked, handler, stopper,
                   offered, dropped, posted>>

\* The range over the channel ends when it is closed and empty.
Exit(w) ==
    /\ worker[w] = "idle" /\ chan = "closed" /\ queued = 0
    /\ worker' = [worker EXCEPT ![w] = "exited"]
    /\ UNCHANGED <<chan, queued, started, closed, locked, handler, stopper,
                   offered, dropped, posted>>

Stop ==
    /\ ~ locked /\ stopper = "idle"
    /\ closed' = TRUE
    /\ chan' = IF chan = "open" THEN "closed" ELSE chan
    /\ stopper' = "waiting"
    /\ UNCHANGED <<queued, started, locked, handler, worker, offered, dropped,
                   posted>>

StopReturns ==
    /\ stopper = "waiting"
    /\ \A w \in Workers : worker[w] \in {"none", "exited"}
    /\ stopper' = "done"
    /\ UNCHANGED <<chan, queued, started, closed, locked, handler, worker,
                   offered, dropped, posted>>

WorkerStep(w) == Receive(w) \/ Emitted(w) \/ Exit(w)

DispatcherNext ==
    \/ \E h \in Handlers : \/ EmitClosed(h) \/ EmitOpen(h)
                           \/ GetQueue(h) \/ StartQueue(h) \/ GetQueueAgain(h)
                           \/ Send(h) \/ SendFull(h) \/ SendPanics(h)
    \/ \E w \in Workers : WorkerStep(w)
    \/ Stop
    \/ StopReturns

\* Workers run, and each post ends by its timeout.
DispatcherSpec ==
    /\ DispatcherInit /\ [][DispatcherNext]_dispatcherVars
    /\ \A w \in Workers : WF_dispatcherVars(WorkerStep(w))
    /\ WF_dispatcherVars(StopReturns)

-----------------------------------------------------------------------------
\* Properties.

DispatcherTypeOK ==
    /\ chan \in {"nil", "open", "closed"}
    /\ queued \in 0 .. QueueSize
    /\ {started, closed, locked} \subseteq BOOLEAN
    /\ handler \in [Handlers -> {"idle", "checked", "start", "again", "send"}]
    /\ worker \in [Workers -> {"none", "idle", "busy", "exited"}]
    /\ stopper \in {"idle", "waiting", "done"}
    /\ {offered, dropped, posted} \subseteq 0 .. MaxOffered

Busy == {w \in Workers : worker[w] = "busy"}
InEmit == {h \in Handlers : handler[h] # "idle"}

\* When stopAnalyticsDispatcher has returned, and main exits, every event that
\* was queued has been posted, whatever was emitted while it ran.
DrainedOnStop == stopper = "done" => queued = 0 /\ Busy = {}

\* Shutdown waits for the workers and they do end, even if a handler panicked
\* with the lock held.
StopEnds == stopper = "waiting" ~> stopper = "done"

\* Until the dispatcher is told to stop, every event is on its way, queued, with
\* a worker, posted, or counted as dropped: the race of the first events that
\* start it and a queue at its limit lose none silently.
AccountedBeforeStop ==
    ~ closed => offered = queued + Cardinality(Busy) + posted + dropped
                          + Cardinality(InEmit)
\* Every event is accounted for until the dispatcher is told to stop, and its stop drains what was queued.
EventsAccounted == DispatcherTypeOK /\ DrainedOnStop /\ AccountedBeforeStop
=============================================================================
