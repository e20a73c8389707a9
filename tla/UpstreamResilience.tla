-------------------------- MODULE UpstreamResilience --------------------------
(***************************************************************************)
(* The gateway's admission to its upstream server: circuit breaker,        *)
(* permits and the life of a response body                                 *)
(* (services/mcp-gateway/upstream_resilience.go).                          *)
(*                                                                         *)
(* A request takes a lease from the breaker, then a permit, is sent, gets  *)
(* a response whose body the proxy reads and closes.  Each lock region of  *)
(* the breaker and each operation on a permit channel is one action; a     *)
(* refused request changes nothing and is no step.  When the unary timer   *)
(* fires, and what the upstream does, is left open.                        *)
(***************************************************************************)
EXTENDS Integers, FiniteSets

CONSTANTS
    UpstreamRequests,    \* requests being handled at one time
    Threshold,   \* failures that open the breaker
    Cooldown,    \* ticks it stays open before a probe
    Limit,       \* capacity of the two permit channels
    MaxGen       \* bound: breaker generations

Classes == {"unary", "stream"}

ASSUME UpstreamAssumption ==
    /\ IsFiniteSet(UpstreamRequests)
    /\ Threshold \in Nat \ {0}
    /\ Cooldown \in Nat \ {0}
    /\ Limit \in [Classes -> Nat \ {0}]
    /\ MaxGen \in Nat

VARIABLES
    breaker,   \* upstreamBreaker; wait is what is left of the cooldown
    used,      \* lengths of the channels unary and streams
    req,       \* the RoundTrip and the body of each request
    period,    \* history: breaker transitions so far
    streak     \* history: failures in a row of requests of this period

upstreamVars == <<breaker, used, req, period, streak>>

-----------------------------------------------------------------------------
Breaker == [failures : Nat, open : BOOLEAN, wait : 0 .. Cooldown,
            probing : BOOLEAN, generation : Nat]
Lease == [generation : Nat, probe : BOOLEAN]

\* completed is the sync.Once of complete; stream says the body has no deadline;
\* since is history, the period the request was admitted in.
Request == [pc : {"idle", "leased", "sent", "body", "closing"}, class : Classes,
            lease : Lease, completed : BOOLEAN, stream : BOOLEAN, since : Nat]

NoRequest == [pc |-> "idle", class |-> "unary",
              lease |-> [generation |-> 0, probe |-> FALSE],
              completed |-> TRUE, stream |-> FALSE, since |-> 0]

UpstreamInit ==
    /\ breaker = [failures |-> 0, open |-> FALSE, wait |-> 0,
                  probing |-> FALSE, generation |-> 0]
    /\ used = [c \in Classes |-> 0]
    /\ req = [r \in UpstreamRequests |-> NoRequest]
    /\ period = 0
    /\ streak = 0

Failure == -1
Cancelled == 0
Success == 1

-----------------------------------------------------------------------------
\* The breaker.

\* The breaker opens, or stays open, for a whole cooldown.
Opened(b) == [b EXCEPT !.open = TRUE, !.wait = Cooldown,
                       !.generation = @ + 1]

completeProbe(b, outcome) ==
    IF outcome = Success
    THEN [b EXCEPT !.probing = FALSE, !.generation = @ + 1, !.open = FALSE,
                   !.wait = 0, !.failures = 0]
    ELSE Opened([b EXCEPT !.probing = FALSE])

completeOrdinary(b, outcome) ==
    IF b.open THEN b
    ELSE IF outcome = Success THEN [b EXCEPT !.failures = 0]
    ELSE IF outcome = Cancelled THEN b
    ELSE LET failed == [b EXCEPT !.failures = @ + 1]
         IN IF failed.failures >= Threshold THEN Opened(failed) ELSE failed

\* Mutant: a completion counts whenever its request was admitted.
completeAnyGeneration(b, lease, outcome) ==
    IF lease.probe THEN completeProbe(b, outcome)
    ELSE completeOrdinary(b, outcome)

\* upstreamBreaker.complete.
complete(b, lease, outcome) ==
    IF lease.generation # b.generation THEN b
    ELSE IF lease.probe THEN completeProbe(b, outcome)
    ELSE completeOrdinary(b, outcome)

\* The closure complete of RoundTrip: once.Do around the breaker's complete,
\* with what it does to the histories.
Complete(r, outcome) ==
    IF req[r].completed THEN UNCHANGED <<breaker, period, streak>>
    ELSE LET b == complete(breaker, req[r].lease, outcome)
             turned == b.open # breaker.open \/ b.probing # breaker.probing
         IN /\ breaker' = b
            /\ period' = IF turned THEN period + 1 ELSE period
            /\ streak' = IF turned \/ (outcome = Success /\ req[r].since = period)
                         THEN 0
                         ELSE IF outcome = Failure /\ req[r].since = period
                                 /\ ~ breaker.open
                         THEN streak + 1 ELSE streak

-----------------------------------------------------------------------------
\* RoundTrip.

\* acquire: a lease of a closed breaker, or the one probe of an open one.
Acquire(r, class) ==
    /\ breaker.generation <= MaxGen
    /\ req[r].pc = "idle"
    /\ breaker.open => breaker.wait = 0 /\ ~ breaker.probing
    /\ breaker' = [breaker EXCEPT !.probing = breaker.open]
    /\ req' = [req EXCEPT ![r] =
                 [pc |-> "leased", class |-> class,
                  lease |-> [generation |-> breaker.generation,
                             probe |-> breaker.open],
                  completed |-> FALSE, stream |-> FALSE, since |-> period]]
    /\ UNCHANGED <<used, period, streak>>

Reserve(r) ==
    /\ req[r].pc = "leased"
    /\ used[req[r].class] < Limit[req[r].class]
    /\ used' = [used EXCEPT ![req[r].class] = @ + 1]
    /\ req' = [req EXCEPT ![r].pc = "sent"]
    /\ UNCHANGED <<breaker, period, streak>>

\* Mutant: the lease of a request that finds no permit is forgotten.
BackpressureKeepsLease(r) ==
    /\ req[r].pc = "leased"
    /\ used[req[r].class] = Limit[req[r].class]
    /\ req' = [req EXCEPT ![r] = NoRequest]
    /\ UNCHANGED <<breaker, used, period, streak>>

\* No permit: 429, and the lease goes back as if the client had cancelled.
Backpressure(r) ==
    /\ req[r].pc = "leased"
    /\ used[req[r].class] = Limit[req[r].class]
    /\ Complete(r, Cancelled)
    /\ req' = [req EXCEPT ![r] = NoRequest]
    /\ UNCHANGED used

\* The base transport returns an error, the client's own cancellation or not.
RoundTripError(r, outcome) ==
    /\ req[r].pc = "sent"
    /\ Complete(r, outcome)
    /\ used' = [used EXCEPT ![req[r].class] = @ - 1]
    /\ req' = [req EXCEPT ![r] = NoRequest]

\* Headers arrive.  A 502, 503 or 504 is a failure at once, a stream a success;
\* any other response is judged by its body.
Response(r, stream, bad) ==
    /\ req[r].pc = "sent"
    /\ IF bad THEN Complete(r, Failure)
       ELSE IF stream THEN Complete(r, Success)
       ELSE UNCHANGED <<breaker, period, streak>>
    /\ req' = [req EXCEPT ![r].pc = "body", ![r].stream = stream,
                          ![r].completed = bad \/ stream]
    /\ UNCHANGED used

-----------------------------------------------------------------------------
\* The body.

\* Read fails: at the end of the body, after the client or the deadline
\* cancelled it, or because the upstream broke off.
ReadResult(r, outcome) ==
    /\ req[r].pc = "body"
    /\ ~ req[r].completed
    /\ Complete(r, outcome)
    /\ req' = [req EXCEPT ![r].completed = TRUE]
    /\ UNCHANGED used

\* Close, up to and including beforeClose.
BeforeClose(r) ==
    /\ req[r].pc = "body"
    /\ Complete(r, Cancelled)
    /\ req' = [req EXCEPT ![r].pc = "closing", ![r].completed = TRUE]
    /\ UNCHANGED used

AfterClose(r) ==
    /\ req[r].pc = "closing"
    /\ used' = [used EXCEPT ![req[r].class] = @ - 1]
    /\ req' = [req EXCEPT ![r] = NoRequest]
    /\ UNCHANGED <<breaker, period, streak>>

Tick ==
    /\ breaker' = [breaker EXCEPT !.wait = IF @ > 0 THEN @ - 1 ELSE 0]
    /\ UNCHANGED <<used, req, period, streak>>

\* The next step of request r; of a stream that is open, nothing is known.
Progress(r) ==
    \/ Reserve(r)
    \/ Backpressure(r)
    \/ \E outcome \in {Failure, Cancelled} : RoundTripError(r, outcome)
    \/ \E stream, bad \in BOOLEAN : Response(r, stream, bad)
    \/ ~ req[r].stream /\ BeforeClose(r)
    \/ AfterClose(r)

UpstreamNext ==
    \/ \E r \in UpstreamRequests :
         \/ \E class \in Classes : Acquire(r, class)
         \/ Progress(r)
         \/ \E outcome \in {Failure, Cancelled, Success} : ReadResult(r, outcome)
         \/ req[r].stream /\ BeforeClose(r)
    \/ Tick

UpstreamSpec == UpstreamInit /\ [][UpstreamNext]_upstreamVars

\* Time passes.  A call returns because the unary timer cancels it, and the
\* proxy closes every body; only a stream may stay open for ever.
UpstreamFairSpec == UpstreamSpec /\ WF_upstreamVars(Tick) /\ \A r \in UpstreamRequests : WF_upstreamVars(Progress(r))

-----------------------------------------------------------------------------
\* Properties.

UpstreamTypeOK ==
    /\ breaker \in Breaker
    /\ used \in [Classes -> Nat]
    /\ req \in [UpstreamRequests -> Request]
    /\ period \in Nat
    /\ streak \in Nat

Holding(class) == {r \in UpstreamRequests : req[r].pc \in {"sent", "body", "closing"}
                                    /\ req[r].class = class}

\* A permit is out exactly while a request is between its dispatch and the end
\* of its body's Close, so the budget is neither exceeded nor eaten up.
PermitsExact ==
    \A class \in Classes :
        used[class] = Cardinality(Holding(class)) /\ used[class] <= Limit[class]

Probes == {r \in UpstreamRequests : req[r].lease.probe /\ ~ req[r].completed}

\* An open breaker has let at most one request through, the probe; probing is
\* set exactly as long as that probe can still report, so the breaker is never
\* left waiting for a probe that is gone.
OneProbe ==
    /\ Cardinality(Probes) = IF breaker.probing THEN 1 ELSE 0
    /\ \A r \in Probes : breaker.open /\ req[r].since = period
    /\ breaker.open => \A r \in UpstreamRequests :
          req[r].pc # "idle" /\ req[r].since = period =>
              r \in Probes

\* A closed breaker counts the failures in a row of the requests it admitted
\* since it closed, and of no others: late answers to older requests neither
\* open it nor keep it closed.
CountsCurrentFailures ==
    ~ breaker.open => breaker.failures = streak /\ streak < Threshold

\* An open breaker closes only by the success of a probe that it admitted while
\* it was open.
OnlyProbeCloses ==
    [][breaker.open /\ ~ breaker'.open =>
          \E r \in Probes : req[r].since = period /\ req'[r].completed]_upstreamVars

CanAdmit == breaker.open => breaker.wait = 0 /\ ~ breaker.probing

\* The breaker always comes back to admitting a request: no cancellation,
\* refusal, error or body that nobody reads leaves it shut for good.
AdmitsAgain == []<>CanAdmit
\* Admission neither leaks nor guesses: permits are out exactly while requests hold them, an open breaker
\* has one probe and closes by its success alone, and late reports of earlier periods change nothing.
AdmissionSound == [](UpstreamTypeOK /\ PermitsExact /\ OneProbe /\ CountsCurrentFailures) /\ OnlyProbeCloses
=============================================================================
