---------------------------- MODULE GatewayProofs ----------------------------
(***************************************************************************)
(* Proofs about the gateway: the request path (GatewayPipeline) and what   *)
(* stands behind its handlers, namely admission to the upstream server     *)
(* (UpstreamResilience), the audit event queue (AnalyticsDispatcher) and   *)
(* the processor that stores the events (EventProcessor).  They share no   *)
(* variables, so each part is a theorem about one specification, in three  *)
(* steps: the inductive invariant holds at the start, each action keeps    *)
(* it, and it implies the property.                                        *)
(*                                                                         *)
(* Admission: that a late report changes nothing rests on the breaker's    *)
(* generation being the period its requests were admitted in.  Queue: the  *)
(* equation that counts the events holds until the stop and becomes an     *)
(* inequality after it.  Processor: the batch is a run of messages right   *)
(* before the next one the main loop takes, which bounds what committing   *)
(* an undecodable message can expose.                                      *)
(*                                                                         *)
(* Request path: CallsAuthorized speaks of what was forwarded; by then the *)
(* policy file, the served document, the sessions and the OAuth providers  *)
(* may all have changed.  The inductive invariant says instead what the    *)
(* exchange itself carries at each filter (Snapshot, Passed) and how what  *)
(* left the gateway follows from it (Outcome), so nothing that changes     *)
(* around the exchange matters any more.  Of the shared state it keeps     *)
(* only that the served document is valid and that a cached provider       *)
(* verifies the audience it is cached under (CacheInv).                    *)
(***************************************************************************)
EXTENDS GatewayPipeline, UpstreamResilience, AnalyticsDispatcher, EventProcessor,
        TLAPS, FiniteSetTheorems, SequenceTheorems

-----------------------------------------------------------------------------
\* Counting.

\* One element more.
LEMMA OneMore ==
  ASSUME NEW S, NEW T, NEW x, IsFiniteSet(S), x \notin S, T = S \cup {x}
  PROVE  IsFiniteSet(T) /\ Cardinality(T) = Cardinality(S) + 1 /\ Cardinality(S) \in Nat
BY FS_AddElement, FS_CardinalityType

\* One element less.
LEMMA OneLess ==
  ASSUME NEW S, NEW T, NEW x, IsFiniteSet(S), x \in S, T = S \ {x}
  PROVE  IsFiniteSet(T) /\ Cardinality(T) = Cardinality(S) - 1 /\ Cardinality(S) \in Nat
BY FS_RemoveElement, FS_CardinalityType

-----------------------------------------------------------------------------
\* Admission to the upstream.

\* Every turn of the breaker is a new generation, so a lease is of the period
\* its request was admitted in; only an open breaker probes.
GenerationsArePeriods ==
    /\ breaker.generation = period
    /\ breaker.probing => breaker.open
    /\ \A r \in UpstreamRequests :
          /\ req[r].since = req[r].lease.generation
          /\ req[r].since <= period

\* A request owes the breaker a report until the body is judged or closed.
ReportOwed ==
    \A r \in UpstreamRequests :
        /\ req[r].pc \in {"idle", "closing"} => req[r].completed
        /\ req[r].pc \in {"leased", "sent"} => ~ req[r].completed

UpstreamInv ==
    /\ UpstreamTypeOK /\ PermitsExact /\ OneProbe /\ CountsCurrentFailures
    /\ GenerationsArePeriods /\ ReportOwed

\* Request r, being handled, has reported for the last time.
Reported(r) ==
    /\ req[r].pc # "idle" /\ req' \in [UpstreamRequests -> Request]
    /\ \A q \in UpstreamRequests \ {r} : req'[q] = req[q]
    /\ req'[r].completed /\ req'[r].pc \in {"idle", "body", "closing"}
    /\ req'[r].pc = "idle" => req'[r] = NoRequest
    /\ req'[r].pc # "idle" => req'[r].since = req[r].since /\ req'[r].lease = req[r].lease

\* The breaker half of the invariant.
BreakerInv == OneProbe /\ CountsCurrentFailures /\ GenerationsArePeriods /\ ReportOwed
BreakerTyped == breaker \in Breaker /\ period \in Nat /\ streak \in Nat

\* What complete does for one report, whoever reports and whatever.
LEMMA CompleteKeeps ==
  ASSUME UpstreamAssumption, UpstreamTypeOK, BreakerInv, NEW r \in UpstreamRequests,
         NEW outcome \in {Failure, Cancelled, Success}, Complete(r, outcome), Reported(r)
  PROVE  /\ BreakerTyped' /\ BreakerInv'
         /\ breaker.open /\ ~ breaker'.open => r \in Probes /\ req[r].since = period
<1> USE DEF BreakerInv, BreakerTyped
<1>t. /\ breaker \in Breaker /\ period \in Nat /\ streak \in Nat
      /\ req[r] \in Request /\ req'[r] \in Request
      /\ Threshold \in Nat \ {0} /\ Cooldown \in Nat \ {0}
  BY DEF UpstreamTypeOK, UpstreamAssumption, Reported
<1>f. IsFiniteSet(Probes) /\ Cardinality(Probes) \in Nat /\ IsFiniteSet(Probes') /\ Cardinality(Probes') \in Nat
  <2>1. Probes \subseteq UpstreamRequests /\ Probes' \subseteq UpstreamRequests
    BY DEF Probes
  <2> HIDE DEF Probes
  <2> QED BY <2>1, FS_Subset, FS_CardinalityType DEF UpstreamAssumption
<1>p. Probes' = Probes \ {r}
  BY DEF Probes, Reported
<1>n. NoRequest.since = 0 /\ NoRequest.lease.generation = 0 /\ NoRequest.pc = "idle" /\ NoRequest.completed
  BY DEF NoRequest
<1>g. ASSUME period' \in Nat, period' >= period
      PROVE  \A q \in UpstreamRequests : /\ req'[q].since = req'[q].lease.generation
                                         /\ req'[q].since <= period'
  <2> SUFFICES ASSUME NEW q \in UpstreamRequests
               PROVE  /\ req'[q].since = req'[q].lease.generation
                      /\ req'[q].since <= period'
    OBVIOUS
  <2>1. /\ req[q] \in Request /\ req[q].since \in Nat /\ req[q].since = req[q].lease.generation
        /\ req[q].since <= period
    BY DEF UpstreamTypeOK, Request, GenerationsArePeriods
  <2> QED BY <2>1, <1>g, <1>n, <1>t DEF Reported, GenerationsArePeriods
<1>w. ReportOwed'
  BY DEF ReportOwed, Reported
<1>o. ASSUME breaker'.open = breaker.open, period' = period, r \notin Probes, breaker'.probing = breaker.probing,
             breaker.open => req[r].since # period
      PROVE  OneProbe'
  <2>1. Probes' = Probes
    BY <1>o, <1>p
  <2>2. \A q \in Probes : q # r /\ req'[q] = req[q]
    BY <1>o DEF Reported, Probes
  <2> QED BY <1>o, <2>1, <2>2 DEF OneProbe, Reported
<1>1. CASE req[r].completed
  <2>1. UNCHANGED <<breaker, period, streak>> /\ r \notin Probes
    BY <1>1 DEF Complete, Probes
  <2>2. breaker.open => req[r].since # period
    BY <2>1 DEF OneProbe, Reported
  <2> QED BY <1>g, <1>w, <1>o, <1>t, <2>1, <2>2 DEF CountsCurrentFailures, GenerationsArePeriods
<1>2. CASE ~ req[r].completed /\ req[r].lease.generation # breaker.generation
  <2>1. req[r].since # period
    BY <1>2 DEF GenerationsArePeriods
  <2>2. r \notin Probes
    BY <2>1 DEF OneProbe
  <2>3. UNCHANGED <<breaker, period, streak>>
    BY <1>2, <2>1 DEF Complete, complete, Failure, Success
  <2> QED BY <1>g, <1>w, <1>o, <1>t, <2>1, <2>2, <2>3 DEF CountsCurrentFailures, GenerationsArePeriods
<1>3. CASE ~ req[r].completed /\ req[r].lease.generation = breaker.generation /\ req[r].lease.probe
  <2>1. r \in Probes /\ req[r].since = period /\ breaker.open /\ breaker.probing
    <3>1. r \in Probes /\ req[r].since = period /\ breaker.open
      BY <1>3 DEF Probes, OneProbe
    <3>2. Cardinality(Probes) # 0
      BY <3>1, <1>f, FS_EmptySet
    <3> QED BY <3>1, <3>2 DEF OneProbe
  <2>2. Cardinality(Probes') = 0 /\ Probes' = {}
    <3>1. Cardinality(Probes') = Cardinality(Probes) - 1
      BY <1>f, <1>p, <2>1, FS_RemoveElement
    <3>2. Cardinality(Probes) = 1
      BY <2>1 DEF OneProbe
    <3> QED BY <1>f, <3>1, <3>2, FS_EmptySet
  <2>3. /\ breaker' \in Breaker /\ ~ breaker'.probing /\ breaker'.generation = period + 1
        /\ outcome = Success => ~ breaker'.open /\ breaker'.failures = 0
        /\ outcome # Success => breaker'.open
    <3>1. breaker' = completeProbe(breaker, outcome)
      BY <1>3 DEF Complete, complete
    <3>2. CASE outcome = Success
      <4>1. breaker' = [failures |-> 0, open |-> FALSE, wait |-> 0, probing |-> FALSE,
                        generation |-> breaker.generation + 1]
        BY <1>t, <3>1, <3>2 DEF completeProbe, Breaker
      <4> QED BY <1>t, <3>2, <4>1 DEF Breaker, GenerationsArePeriods
    <3>3. CASE outcome # Success
      <4>1. breaker' = [failures |-> breaker.failures, open |-> TRUE, wait |-> Cooldown, probing |-> FALSE,
                        generation |-> breaker.generation + 1]
        BY <1>t, <3>1, <3>3 DEF completeProbe, Opened, Breaker
      <4> QED BY <1>t, <3>3, <4>1 DEF Breaker, GenerationsArePeriods
    <3> QED BY <3>2, <3>3
  <2>4. period' = period + 1 /\ streak' = 0
    BY <1>3, <2>1, <2>3 DEF Complete
  <2>5. \A q \in UpstreamRequests : req'[q].pc # "idle" => req'[q].since <= period
    <3> SUFFICES ASSUME NEW q \in UpstreamRequests, req'[q].pc # "idle" PROVE req'[q].since <= period
      OBVIOUS
    <3> QED BY <1>n DEF Reported, GenerationsArePeriods
  <2>6. OneProbe'
    <3>1. \A q \in UpstreamRequests : req'[q].pc # "idle" => req'[q].since # period'
      <4> SUFFICES ASSUME NEW q \in UpstreamRequests, req'[q].pc # "idle" PROVE req'[q].since # period'
        OBVIOUS
      <4>1. req'[q] \in Request /\ req'[q].since \in Nat
        BY DEF Reported, Request
      <4> QED BY <1>t, <2>4, <2>5, <4>1
    <3> QED BY <2>2, <2>3, <3>1 DEF OneProbe
  <2>7. CountsCurrentFailures'
    BY <1>t, <2>3, <2>4 DEF CountsCurrentFailures
  <2>8. GenerationsArePeriods'
    BY <1>g, <1>w, <1>t, <2>3, <2>4 DEF GenerationsArePeriods
  <2> QED BY <1>t, <1>w, <2>1, <2>3, <2>4, <2>6, <2>7, <2>8
<1>4. CASE ~ req[r].completed /\ req[r].lease.generation = breaker.generation /\ ~ req[r].lease.probe
  <2>1. req[r].since = period /\ r \notin Probes
    BY <1>4 DEF GenerationsArePeriods, Probes
  <2>2. ~ breaker.open /\ ~ breaker.probing /\ breaker.failures = streak /\ streak < Threshold /\ Probes = {}
    <3>1. ~ breaker.open
      BY <2>1 DEF OneProbe, Reported
    <3> QED BY <3>1 DEF OneProbe, CountsCurrentFailures, GenerationsArePeriods
  <2>3. breaker' = completeOrdinary(breaker, outcome)
    BY <1>4 DEF Complete, complete
  <2>4. CASE outcome # Failure \/ streak + 1 < Threshold
    <3>1. /\ breaker' \in Breaker /\ ~ breaker'.open /\ ~ breaker'.probing
          /\ breaker'.generation = breaker.generation
          /\ breaker'.failures = IF outcome = Failure THEN streak + 1 ELSE IF outcome = Success THEN 0 ELSE streak
      BY <1>t, <2>2, <2>3, <2>4 DEF completeOrdinary, Breaker, Failure, Cancelled, Success
    <3>2. period' = period /\ streak' = breaker'.failures
      BY <1>4, <1>t, <2>1, <2>2, <3>1 DEF Complete, Failure, Cancelled, Success, Breaker
    <3>3. OneProbe'
      <4>1. breaker'.open = breaker.open /\ breaker'.probing = breaker.probing
        BY <1>t, <2>2, <3>1 DEF Breaker
      <4> QED BY <1>o, <2>1, <2>2, <3>2, <4>1
    <3>4. CountsCurrentFailures' /\ streak' \in Nat
      BY <1>t, <2>2, <2>4, <3>1, <3>2 DEF CountsCurrentFailures, Failure, Cancelled, Success
    <3> QED BY <1>g, <1>w, <1>t, <2>2, <3>1, <3>2, <3>3, <3>4 DEF GenerationsArePeriods
  <2>5. CASE outcome = Failure /\ ~ (streak + 1 < Threshold)
    <3>1. /\ breaker' \in Breaker /\ breaker'.open /\ ~ breaker'.probing
          /\ breaker'.generation = breaker.generation + 1
      <4>1. breaker' = [failures |-> breaker.failures + 1, open |-> TRUE, wait |-> Cooldown,
                        probing |-> breaker.probing, generation |-> breaker.generation + 1]
        <5> DEFINE failed == [breaker EXCEPT !.failures = @ + 1]
        <5>1. failed.failures >= Threshold
          BY <1>t, <2>2, <2>5 DEF Breaker
        <5>2. breaker' = Opened(failed)
          BY <2>2, <2>3, <2>5, <5>1 DEF completeOrdinary, Failure, Cancelled, Success
        <5> QED BY <1>t, <5>2 DEF Opened, Breaker
      <4> QED BY <1>t, <2>2, <4>1 DEF Breaker
    <3>2. period' = period + 1 /\ streak' = 0
      BY <1>4, <1>t, <2>2, <3>1 DEF Complete
    <3>3. OneProbe'
      <4>1. Probes' = {} /\ Cardinality(Probes') = 0
        BY <1>p, <2>2, FS_EmptySet
      <4>2. \A q \in UpstreamRequests : req'[q].pc # "idle" => req'[q].since # period'
        <5> SUFFICES ASSUME NEW q \in UpstreamRequests, req'[q].pc # "idle" PROVE req'[q].since # period'
          OBVIOUS
        <5>1. req[q].since \in Nat /\ req[q].since <= period
          BY DEF UpstreamTypeOK, Request, GenerationsArePeriods
        <5> QED BY <1>t, <3>2, <5>1 DEF Reported
      <4> QED BY <3>1, <4>1, <4>2 DEF OneProbe
    <3>4. GenerationsArePeriods'
      BY <1>g, <1>w, <1>t, <3>1, <3>2 DEF GenerationsArePeriods
    <3> QED BY <1>t, <1>w, <2>2, <3>1, <3>2, <3>3, <3>4 DEF CountsCurrentFailures
  <2> QED BY <2>4, <2>5
<1> QED BY <1>1, <1>2, <1>3, <1>4

\* What a step of request r does to the permit channels: it takes a place when r
\* begins to hold one, if there is one, and gives it back when r ends to.
PermitsFollow(r) ==
    /\ \A c \in Classes :
          used'[c] = IF r \in Holding(c) /\ r \notin Holding(c)' THEN used[c] - 1
                     ELSE IF r \notin Holding(c) /\ r \in Holding(c)' THEN used[c] + 1 ELSE used[c]
    /\ \A c \in Classes : r \notin Holding(c) /\ r \in Holding(c)' => used[c] < Limit[c]
    /\ used' = [c \in Classes |-> used'[c]]
    /\ \A q \in UpstreamRequests \ {r} : req'[q] = req[q]

\* A step that follows this rule keeps the permits exact.
LEMMA PermitsKept ==
  ASSUME UpstreamAssumption, UpstreamTypeOK, PermitsExact, NEW r \in UpstreamRequests, PermitsFollow(r)
  PROVE  PermitsExact' /\ used' \in [Classes -> Nat]
<1>1. \A c \in Classes : \A q \in UpstreamRequests \ {r} : q \in Holding(c) <=> q \in Holding(c)'
  BY DEF Holding, PermitsFollow
<1>2. \A c \in Classes : Holding(c) \subseteq UpstreamRequests /\ Holding(c)' \subseteq UpstreamRequests
  BY DEF Holding
<1>3. ASSUME NEW c \in Classes PROVE used'[c] = Cardinality(Holding(c)') /\ used'[c] <= Limit[c] /\ used'[c] \in Nat
  <2>1. used[c] = Cardinality(Holding(c)) /\ used[c] <= Limit[c] /\ used[c] \in Nat /\ Limit[c] \in Nat
    BY DEF PermitsExact, UpstreamTypeOK, UpstreamAssumption
  <2> HIDE DEF Holding
  <2>2. IsFiniteSet(Holding(c))
    BY <1>2, FS_Subset DEF UpstreamAssumption
  <2>3. CASE r \in Holding(c) <=> r \in Holding(c)'
    <3>1. Holding(c)' = Holding(c)
      BY <1>1, <1>2, <2>3
    <3> QED BY <2>1, <2>3, <3>1 DEF PermitsFollow
  <2>4. CASE r \notin Holding(c) /\ r \in Holding(c)'
    <3>1. Holding(c)' = Holding(c) \cup {r}
      BY <1>1, <1>2, <2>4
    <3>2. Cardinality(Holding(c)') = Cardinality(Holding(c)) + 1
      BY <2>2, <2>4, <3>1, OneMore
    <3> QED BY <2>1, <2>4, <3>2 DEF PermitsFollow
  <2>5. CASE r \in Holding(c) /\ r \notin Holding(c)'
    <3>1. Holding(c)' = Holding(c) \ {r}
      BY <1>1, <1>2, <2>5
    <3>2. Cardinality(Holding(c)') = Cardinality(Holding(c)) - 1 /\ IsFiniteSet(Holding(c)')
      BY <2>2, <2>5, <3>1, OneLess
    <3>3. Cardinality(Holding(c)') \in Nat
      BY <3>2, FS_CardinalityType
    <3> QED BY <2>1, <2>5, <3>2, <3>3 DEF PermitsFollow
  <2> QED BY <2>3, <2>4, <2>5
<1>4. used' \in [Classes -> Nat]
  BY <1>3 DEF PermitsFollow
<1> QED BY <1>3, <1>4 DEF PermitsExact

\* A request that moves on without a report.
LEMMA MoveKeeps ==
  ASSUME UpstreamTypeOK, BreakerInv, NEW r \in UpstreamRequests, UNCHANGED <<breaker, period, streak>>,
         req' \in [UpstreamRequests -> Request],
         \A q \in UpstreamRequests \ {r} : req'[q] = req[q],
         req[r].pc \in {"leased", "sent"}, req'[r].pc \in {"sent", "body"},
         ~ req'[r].completed, req'[r].lease = req[r].lease, req'[r].since = req[r].since
  PROVE  BreakerInv'
<1>1. ~ req[r].completed
  BY DEF BreakerInv, ReportOwed
<1>2. Probes' = Probes
  BY <1>1 DEF Probes
<1>3. OneProbe'
  <2>1. \A q \in UpstreamRequests : req'[q].since = req[q].since /\ (req'[q].pc # "idle" => req[q].pc # "idle")
    OBVIOUS
  <2>2. \A q \in Probes : q \in UpstreamRequests
    BY DEF Probes
  <2> QED BY <1>2, <2>1, <2>2 DEF OneProbe, BreakerInv
<1>4. GenerationsArePeriods' /\ ReportOwed'
  BY DEF GenerationsArePeriods, ReportOwed, BreakerInv
<1> QED BY <1>3, <1>4 DEF CountsCurrentFailures, BreakerInv

\* acquire: at most one request goes through an open breaker, as its probe.
LEMMA AcquireKeeps ==
  ASSUME UpstreamAssumption, UpstreamTypeOK, BreakerInv, NEW r \in UpstreamRequests, NEW class \in Classes,
         Acquire(r, class)
  PROVE  /\ BreakerInv' /\ BreakerTyped' /\ req' \in [UpstreamRequests -> Request]
         /\ breaker'.open = breaker.open
<1> DEFINE new == [pc |-> "leased", class |-> class,
                   lease |-> [generation |-> breaker.generation, probe |-> breaker.open],
                   completed |-> FALSE, stream |-> FALSE, since |-> period]
<1>1. /\ breaker \in Breaker /\ period \in Nat /\ streak \in Nat /\ new \in Request
      /\ req' = [req EXCEPT ![r] = new] /\ req[r].pc = "idle" /\ req[r].completed
  BY DEF UpstreamTypeOK, Acquire, Request, Lease, Breaker, BreakerInv, ReportOwed
<1>2. req'[r] = new /\ req' \in [UpstreamRequests -> Request] /\ \A q \in UpstreamRequests \ {r} : req'[q] = req[q]
  <2> HIDE DEF new
  <2> QED BY <1>1 DEF UpstreamTypeOK
<1>3. /\ breaker' \in Breaker /\ breaker'.open = breaker.open /\ breaker'.generation = breaker.generation
      /\ breaker'.failures = breaker.failures /\ breaker'.probing = breaker.open
      /\ period' = period /\ streak' = streak
      /\ breaker.open => ~ breaker.probing
  BY <1>1 DEF Acquire, Breaker
<1>4. Probes = {} /\ r \notin Probes
  <2>1. ~ breaker.probing
    BY <1>3 DEF BreakerInv, GenerationsArePeriods
  <2>2. Cardinality(Probes) = 0
    BY <2>1 DEF BreakerInv, OneProbe
  <2>3. Probes \subseteq UpstreamRequests
    BY DEF Probes
  <2> HIDE DEF Probes
  <2>4. IsFiniteSet(Probes)
    BY <2>3, FS_Subset DEF UpstreamAssumption
  <2> QED BY <2>2, <2>4, FS_EmptySet
<1>5. Probes' = IF breaker.open THEN {r} ELSE {}
  BY <1>1, <1>2, <1>4 DEF Probes, Breaker
<1>6. OneProbe'
  <2>1. Cardinality({r}) = 1 /\ Cardinality({}) = 0
    BY FS_Singleton, FS_EmptySet
  <2>2. \A q \in UpstreamRequests \ {r} : req'[q].pc # "idle" /\ req'[q].since = period' => ~ breaker.open
    BY <1>2, <1>3, <1>4 DEF OneProbe, BreakerInv
  <2> QED BY <1>2, <1>3, <1>5, <2>1, <2>2 DEF OneProbe
<1>7. GenerationsArePeriods' /\ ReportOwed'
  BY <1>1, <1>2, <1>3 DEF GenerationsArePeriods, ReportOwed, BreakerInv
<1>8. CountsCurrentFailures'
  BY <1>3 DEF CountsCurrentFailures, BreakerInv
<1> QED BY <1>1, <1>2, <1>3, <1>6, <1>7, <1>8 DEF BreakerInv, BreakerTyped

\* An open breaker closes only by the success of a probe admitted while it was.
ProbeCloses ==
    breaker.open /\ ~ breaker'.open => \E r \in Probes : req[r].since = period /\ req'[r].completed

\* Every step of a request, and the clock, keep the invariant.
LEMMA UpstreamStep ==
  ASSUME UpstreamAssumption, UpstreamInv, [UpstreamNext]_upstreamVars
  PROVE  UpstreamInv' /\ ProbeCloses
<1> USE DEF UpstreamInv
<1>b. BreakerInv /\ UpstreamTypeOK /\ PermitsExact /\ ReportOwed
  BY DEF BreakerInv
<1>t. \A r \in UpstreamRequests : req[r] \in Request /\ req[r].class \in Classes
  BY DEF UpstreamTypeOK, Request
<1>n. NoRequest \in Request /\ NoRequest.pc = "idle" /\ NoRequest.completed
  BY DEF NoRequest, Request, Lease, Classes
<1> DEFINE Goal == UpstreamInv' /\ ProbeCloses
<1>g. ASSUME BreakerInv', BreakerTyped', req' \in [UpstreamRequests -> Request],
             PermitsExact', used' \in [Classes -> Nat], ProbeCloses
      PROVE  Goal
  BY <1>g DEF BreakerInv, BreakerTyped, UpstreamTypeOK
<1>c. ASSUME NEW r \in UpstreamRequests, NEW outcome \in {Failure, Cancelled, Success},
             Complete(r, outcome), Reported(r), PermitsFollow(r)
      PROVE  Goal
  <2>1. /\ BreakerTyped' /\ BreakerInv'
        /\ breaker.open /\ ~ breaker'.open => r \in Probes /\ req[r].since = period
    BY <1>b, <1>c, CompleteKeeps
  <2>2. ProbeCloses
    BY <1>c, <2>1 DEF ProbeCloses, Reported
  <2>3. PermitsExact' /\ used' \in [Classes -> Nat]
    BY <1>b, <1>c, PermitsKept
  <2>4. req' \in [UpstreamRequests -> Request]
    BY <1>c DEF Reported
  <2> QED BY <1>g, <2>1, <2>2, <2>3, <2>4
<1>u. ASSUME NEW r \in UpstreamRequests, used' = used, \A q \in UpstreamRequests \ {r} : req'[q] = req[q],
             \A c \in Classes : r \in Holding(c) <=> r \in Holding(c)'
      PROVE  PermitsFollow(r)
  BY <1>b, <1>u DEF PermitsFollow, UpstreamTypeOK
<1>d. ASSUME NEW r \in UpstreamRequests, req[r].pc \in {"sent", "closing"}, req'[r].pc = "idle",
             used' = [used EXCEPT ![req[r].class] = @ - 1],
             \A q \in UpstreamRequests \ {r} : req'[q] = req[q]
      PROVE  PermitsFollow(r)
  <2>1. \A c \in Classes : (r \in Holding(c) <=> c = req[r].class) /\ r \notin Holding(c)'
    BY <1>d, <1>t DEF Holding
  <2>2. used \in [Classes -> Nat] /\ req[r].class \in Classes
    BY <1>b, <1>t DEF UpstreamTypeOK
  <2> HIDE DEF Holding
  <2> QED BY <1>d, <2>1, <2>2 DEF PermitsFollow
<1> HIDE DEF Goal, UpstreamInv
<1>1. ASSUME NEW r \in UpstreamRequests, NEW class \in Classes, Acquire(r, class) PROVE Goal
  <2>1. /\ BreakerInv' /\ BreakerTyped' /\ req' \in [UpstreamRequests -> Request] /\ breaker'.open = breaker.open
    BY <1>1, <1>b, AcquireKeeps
  <2>2. \A q \in UpstreamRequests \ {r} : req'[q] = req[q]
    BY <1>1 DEF Acquire
  <2>3. req'[r].pc = "leased" /\ req[r].pc = "idle"
    BY <1>1, <1>b DEF Acquire, UpstreamTypeOK
  <2>4. \A c \in Classes : r \notin Holding(c) /\ r \notin Holding(c)'
    BY <2>3 DEF Holding
  <2>5. used' = used
    BY <1>1 DEF Acquire
  <2>6. PermitsExact' /\ used' \in [Classes -> Nat]
    BY <1>b, <1>u, <2>2, <2>4, <2>5, PermitsKept
  <2> QED BY <1>g, <2>1, <2>6 DEF ProbeCloses
<1>2. ASSUME NEW r \in UpstreamRequests, Reserve(r) PROVE Goal
  <2>1. /\ req[r].pc = "leased" /\ req' = [req EXCEPT ![r].pc = "sent"] /\ UNCHANGED <<breaker, period, streak>>
        /\ used[req[r].class] < Limit[req[r].class] /\ used' = [used EXCEPT ![req[r].class] = @ + 1]
    BY <1>2 DEF Reserve
  <2>2. /\ req' \in [UpstreamRequests -> Request] /\ \A q \in UpstreamRequests \ {r} : req'[q] = req[q]
        /\ req'[r].pc = "sent" /\ req'[r].completed = req[r].completed /\ req'[r].class = req[r].class
        /\ req'[r].lease = req[r].lease /\ req'[r].since = req[r].since
    BY <1>b, <2>1 DEF UpstreamTypeOK, Request
  <2>3. BreakerInv'
    BY <1>b, <2>1, <2>2, MoveKeeps DEF ReportOwed
  <2>4. PermitsExact' /\ used' \in [Classes -> Nat]
    <3>1. \A c \in Classes : r \notin Holding(c) /\ (r \in Holding(c)' <=> c = req[r].class)
      BY <1>t, <2>1, <2>2 DEF Holding
    <3>2. used \in [Classes -> Nat] /\ req[r].class \in Classes
      BY <1>b, <1>t DEF UpstreamTypeOK
    <3>3. PermitsFollow(r)
      <4> HIDE DEF Holding
      <4> QED BY <2>1, <2>2, <3>1, <3>2 DEF PermitsFollow
    <3> QED BY <1>b, <3>3, PermitsKept
  <2>5. BreakerTyped' /\ ProbeCloses
    BY <1>b, <2>1 DEF UpstreamTypeOK, BreakerTyped, ProbeCloses
  <2> QED BY <1>g, <2>2, <2>3, <2>4, <2>5
<1>3. ASSUME NEW r \in UpstreamRequests, Backpressure(r) PROVE Goal
  <2>1. req' = [req EXCEPT ![r] = NoRequest] /\ req[r].pc = "leased" /\ Complete(r, Cancelled)
    BY <1>3 DEF Backpressure
  <2>2. Reported(r) /\ req'[r].pc = "idle"
    BY <1>b, <1>n, <2>1 DEF Reported, UpstreamTypeOK
  <2>3. PermitsFollow(r)
    <3>1. \A c \in Classes : r \notin Holding(c) /\ r \notin Holding(c)'
      BY <2>1, <2>2 DEF Holding
    <3> QED BY <1>3, <1>u, <2>2, <3>1 DEF Backpressure, Reported
  <2> QED BY <1>c, <2>1, <2>2, <2>3
<1>4. ASSUME NEW r \in UpstreamRequests, NEW outcome \in {Failure, Cancelled}, RoundTripError(r, outcome) PROVE Goal
  <2>1. /\ req' = [req EXCEPT ![r] = NoRequest] /\ req[r].pc = "sent" /\ Complete(r, outcome)
        /\ used' = [used EXCEPT ![req[r].class] = @ - 1]
    BY <1>4 DEF RoundTripError
  <2>2. Reported(r) /\ req'[r].pc = "idle"
    BY <1>b, <1>n, <2>1 DEF Reported, UpstreamTypeOK
  <2>3. PermitsFollow(r)
    BY <1>d, <2>1, <2>2 DEF Reported
  <2> QED BY <1>c, <2>1, <2>2, <2>3
<1>5. ASSUME NEW r \in UpstreamRequests, NEW stream \in BOOLEAN, NEW bad \in BOOLEAN, Response(r, stream, bad)
      PROVE  Goal
  <2>1. /\ req[r].pc = "sent" /\ used' = used
        /\ req' = [req EXCEPT ![r].pc = "body", ![r].stream = stream, ![r].completed = bad \/ stream]
    BY <1>5 DEF Response
  <2>2. /\ req' \in [UpstreamRequests -> Request] /\ \A q \in UpstreamRequests \ {r} : req'[q] = req[q]
        /\ req'[r].pc = "body" /\ (req'[r].completed <=> bad \/ stream) /\ req'[r].class = req[r].class
        /\ req'[r].lease = req[r].lease /\ req'[r].since = req[r].since
    <3> DEFINE done == bad \/ stream
               body == [req[r] EXCEPT !.pc = "body", !.stream = stream, !.completed = done]
    <3>1. done \in BOOLEAN
      OBVIOUS
    <3> HIDE DEF done
    <3>2. /\ body \in Request /\ body.pc = "body" /\ body.completed = done /\ body.class = req[r].class
          /\ body.lease = req[r].lease /\ body.since = req[r].since
      BY <1>t, <3>1 DEF Request
    <3>3. req' = [req EXCEPT ![r] = body]
      BY <2>1 DEF done
    <3> HIDE DEF body
    <3>4. req' \in [UpstreamRequests -> Request] /\ req'[r] = body /\ \A q \in UpstreamRequests \ {r} : req'[q] = req[q]
      BY <1>b, <3>2, <3>3 DEF UpstreamTypeOK
    <3> QED BY <3>2, <3>4 DEF done
  <2>3. PermitsFollow(r)
    <3>1. \A c \in Classes : r \in Holding(c) <=> r \in Holding(c)'
      BY <2>1, <2>2 DEF Holding
    <3> QED BY <1>u, <2>1, <2>2, <3>1
  <2>4. CASE bad \/ stream
    <3>1. PICK outcome \in {Failure, Cancelled, Success} : Complete(r, outcome)
      BY <1>5, <2>4 DEF Response
    <3>2. Reported(r)
      BY <2>1, <2>2, <2>4 DEF Reported
    <3> QED BY <1>c, <2>1, <2>2, <2>3, <3>1, <3>2
  <2>5. CASE ~ bad /\ ~ stream
    <3>1. UNCHANGED <<breaker, period, streak>>
      BY <1>5, <2>5 DEF Response
    <3>2. BreakerInv'
      BY <1>b, <2>1, <2>2, <2>5, <3>1, MoveKeeps
    <3>3. PermitsExact' /\ used' \in [Classes -> Nat]
      BY <1>b, <2>3, PermitsKept
    <3>4. BreakerTyped' /\ ProbeCloses
      BY <1>b, <3>1 DEF UpstreamTypeOK, BreakerTyped, ProbeCloses
    <3> QED BY <1>g, <2>2, <3>2, <3>3, <3>4
  <2> QED BY <2>4, <2>5
<1>6. ASSUME NEW r \in UpstreamRequests, NEW outcome \in {Failure, Cancelled, Success}, ReadResult(r, outcome)
      PROVE  Goal
  <2>1. /\ req[r].pc = "body" /\ used' = used /\ Complete(r, outcome)
        /\ req' = [req EXCEPT ![r].completed = TRUE]
    BY <1>6 DEF ReadResult
  <2>2. /\ req' \in [UpstreamRequests -> Request] /\ \A q \in UpstreamRequests \ {r} : req'[q] = req[q]
        /\ req'[r].pc = "body" /\ req'[r].completed /\ req'[r].class = req[r].class
        /\ req'[r].lease = req[r].lease /\ req'[r].since = req[r].since
    BY <1>b, <2>1 DEF UpstreamTypeOK, Request
  <2>3. PermitsFollow(r)
    <3>1. \A c \in Classes : r \in Holding(c) <=> r \in Holding(c)'
      BY <2>1, <2>2 DEF Holding
    <3> QED BY <1>u, <2>1, <2>2, <3>1
  <2>4. Reported(r)
    BY <2>1, <2>2 DEF Reported
  <2> QED BY <1>c, <2>1, <2>2, <2>3, <2>4
<1>7. ASSUME NEW r \in UpstreamRequests, BeforeClose(r) PROVE Goal
  <2>1. /\ req[r].pc = "body" /\ used' = used /\ Complete(r, Cancelled)
        /\ req' = [req EXCEPT ![r].pc = "closing", ![r].completed = TRUE]
    BY <1>7 DEF BeforeClose
  <2>2. /\ req' \in [UpstreamRequests -> Request] /\ \A q \in UpstreamRequests \ {r} : req'[q] = req[q]
        /\ req'[r].pc = "closing" /\ req'[r].completed /\ req'[r].class = req[r].class
        /\ req'[r].lease = req[r].lease /\ req'[r].since = req[r].since
    BY <1>b, <2>1 DEF UpstreamTypeOK, Request
  <2>3. PermitsFollow(r)
    <3>1. \A c \in Classes : r \in Holding(c) <=> r \in Holding(c)'
      BY <2>1, <2>2 DEF Holding
    <3> QED BY <1>u, <2>1, <2>2, <3>1
  <2>4. Reported(r)
    BY <2>1, <2>2 DEF Reported
  <2> QED BY <1>c, <2>1, <2>2, <2>3, <2>4
<1>8. ASSUME NEW r \in UpstreamRequests, AfterClose(r) PROVE Goal
  <2>1. /\ req' = [req EXCEPT ![r] = NoRequest] /\ req[r].pc = "closing" /\ UNCHANGED <<breaker, period, streak>>
        /\ used' = [used EXCEPT ![req[r].class] = @ - 1]
    BY <1>8 DEF AfterClose
  <2>2. Reported(r) /\ req'[r].pc = "idle" /\ Complete(r, Cancelled)
    BY <1>b, <1>n, <2>1 DEF Reported, UpstreamTypeOK, ReportOwed, Complete
  <2>3. PermitsFollow(r)
    BY <1>d, <2>1, <2>2 DEF Reported
  <2> QED BY <1>c, <2>1, <2>2, <2>3
<1>9. ASSUME Tick \/ UNCHANGED upstreamVars PROVE Goal
  <2>1. /\ breaker' \in Breaker /\ breaker'.open = breaker.open /\ breaker'.probing = breaker.probing
        /\ breaker'.failures = breaker.failures /\ breaker'.generation = breaker.generation
        /\ UNCHANGED <<used, req, period, streak>>
    BY <1>9, <1>b DEF Tick, upstreamVars, UpstreamTypeOK, Breaker
  <2>2. BreakerInv'
    <3>1. Probes' = Probes
      BY <2>1 DEF Probes
    <3>2. OneProbe'
      BY <1>b, <2>1, <3>1 DEF OneProbe, BreakerInv
    <3> QED BY <1>b, <2>1, <3>2 DEF BreakerInv, CountsCurrentFailures, GenerationsArePeriods, ReportOwed
  <2>3. PermitsExact' /\ used' \in [Classes -> Nat]
    BY <1>b, <2>1 DEF PermitsExact, Holding, UpstreamTypeOK
  <2>4. BreakerTyped' /\ ProbeCloses /\ req' \in [UpstreamRequests -> Request]
    BY <1>b, <2>1 DEF UpstreamTypeOK, BreakerTyped, ProbeCloses
  <2> QED BY <1>g, <2>2, <2>3, <2>4
<1>10. Goal
  BY <1>1, <1>2, <1>3, <1>4, <1>5, <1>6, <1>7, <1>8, <1>9 DEF UpstreamNext, Progress
<1> QED BY <1>10 DEF Goal

\* An upstream nobody called yet.
LEMMA UpstreamStart == UpstreamAssumption /\ UpstreamInit => UpstreamInv
<1> SUFFICES ASSUME UpstreamAssumption, UpstreamInit PROVE UpstreamInv
  OBVIOUS
<1>1. UpstreamTypeOK
  BY DEF UpstreamAssumption, UpstreamInit, UpstreamTypeOK, Breaker, Request, NoRequest, Lease, Classes
<1>2. Probes = {} /\ \A c \in Classes : Holding(c) = {}
  BY DEF UpstreamInit, Probes, Holding, NoRequest
<1>3. PermitsExact
  BY <1>2, FS_EmptySet DEF UpstreamInit, PermitsExact, UpstreamAssumption
<1>4. OneProbe
  BY <1>2, FS_EmptySet DEF UpstreamInit, OneProbe
<1>5. CountsCurrentFailures /\ GenerationsArePeriods /\ ReportOwed
  BY DEF UpstreamInit, CountsCurrentFailures, GenerationsArePeriods, ReportOwed, NoRequest, UpstreamAssumption
<1> QED BY <1>1, <1>3, <1>4, <1>5 DEF UpstreamInv

\* Admission neither leaks nor guesses, for any numbers of requests, any limits,
\* threshold and cooldown: permits are out exactly while requests hold them, an
\* open breaker has one probe and closes by its success alone, and what requests
\* of earlier periods report changes nothing.
THEOREM AdmissionIsSound == UpstreamSpec => AdmissionSound
<1>1. UpstreamInv /\ [UpstreamNext]_upstreamVars => UpstreamInv' /\ ProbeCloses
  BY UpstreamAssumption, UpstreamStep
<1>2. UpstreamInit => UpstreamInv
  BY UpstreamAssumption, UpstreamStart
<1>3. UpstreamInv => UpstreamTypeOK /\ PermitsExact /\ OneProbe /\ CountsCurrentFailures
  BY DEF UpstreamInv
<1>4. ProbeCloses => (breaker.open /\ ~ breaker'.open =>
                        \E r \in Probes : req[r].since = period /\ req'[r].completed)
  BY DEF ProbeCloses
<1> QED BY <1>1, <1>2, <1>3, <1>4, PTL DEF UpstreamSpec, AdmissionSound, OnlyProbeCloses


-----------------------------------------------------------------------------
\* The audit event queue.

\* The channel, its workers and the flags around them stay in step.
QueueInStep ==
    /\ closed <=> stopper # "idle"
    /\ chan = "open" => ~ closed
    /\ chan = "closed" => closed
    /\ chan # "nil" => started /\ \A w \in Workers : worker[w] # "none"
    /\ chan = "nil" => queued = 0 /\ \A w \in Workers : worker[w] = "none"
    /\ (\E w \in Workers : worker[w] = "exited") => chan = "closed" /\ queued = 0
    /\ stopper = "done" => \A w \in Workers : worker[w] \in {"none", "exited"}

\* Where an event can be.  After the stop some are in no place: emitIfEnabled
\* returns without a word when it finds the queue gone, or panics on it.
Accounted == queued + Cardinality(Busy) + posted + dropped + Cardinality(InEmit)

DispatcherInv ==
    /\ DispatcherTypeOK /\ QueueInStep
    /\ Accounted <= offered
    /\ ~ closed => Accounted = offered

\* Handlers and workers are finitely many.
LEMMA CountsAreNumbers ==
  ASSUME DispatcherAssumption
  PROVE  IsFiniteSet(Busy) /\ Cardinality(Busy) \in Nat /\ IsFiniteSet(InEmit) /\ Cardinality(InEmit) \in Nat
<1>1. Busy \subseteq Workers /\ InEmit \subseteq Handlers
  BY DEF Busy, InEmit
<1> HIDE DEF Busy, InEmit
<1> QED BY <1>1, FS_Subset, FS_CardinalityType DEF DispatcherAssumption

\* A handler enters, goes on in, or leaves emitIfEnabled.
LEMMA HandlerCounted ==
  ASSUME DispatcherAssumption, DispatcherTypeOK, NEW h \in Handlers, NEW here, NEW next, HandlerAt(h, here, next)
  PROVE  Cardinality(InEmit') = Cardinality(InEmit) + (IF next # "idle" THEN 1 ELSE 0)
                                                    - (IF here # "idle" THEN 1 ELSE 0)
<1>1. handler[h] = here /\ handler' = [handler EXCEPT ![h] = next] /\ handler \in [Handlers -> {"idle", "checked", "start", "again", "send"}]
  BY DEF HandlerAt, DispatcherTypeOK
<1>2. InEmit' = IF next # "idle" THEN InEmit \cup {h} ELSE InEmit \ {h}
  BY <1>1 DEF InEmit
<1>3. h \in InEmit <=> here # "idle"
  BY <1>1 DEF InEmit
<1> HIDE DEF InEmit
<1>4. IsFiniteSet(InEmit) /\ Cardinality(InEmit) \in Nat
  BY CountsAreNumbers
<1>5. /\ Cardinality(InEmit \cup {h}) = IF h \in InEmit THEN Cardinality(InEmit) ELSE Cardinality(InEmit) + 1
      /\ Cardinality(InEmit \ {h}) = IF h \in InEmit THEN Cardinality(InEmit) - 1 ELSE Cardinality(InEmit)
  BY <1>4, FS_AddElement, FS_RemoveElement
<1> QED BY <1>2, <1>3, <1>4, <1>5

\* A worker takes an event, or is done with it.
WorkerAt(w, here, next) == worker[w] = here /\ worker' = [worker EXCEPT ![w] = next]

\* The number of busy workers follows.
LEMMA WorkerCounted ==
  ASSUME DispatcherAssumption, DispatcherTypeOK, NEW w \in Workers, NEW here, NEW next, WorkerAt(w, here, next)
  PROVE  Cardinality(Busy') = Cardinality(Busy) + (IF next = "busy" THEN 1 ELSE 0)
                                                - (IF here = "busy" THEN 1 ELSE 0)
<1>1. worker \in [Workers -> {"none", "idle", "busy", "exited"}]
  BY DEF DispatcherTypeOK
<1>2. Busy' = IF next = "busy" THEN Busy \cup {w} ELSE Busy \ {w}
  BY <1>1 DEF Busy, WorkerAt
<1>3. w \in Busy <=> here = "busy"
  BY DEF Busy, WorkerAt
<1> HIDE DEF Busy
<1>4. IsFiniteSet(Busy) /\ Cardinality(Busy) \in Nat
  BY CountsAreNumbers
<1>5. /\ Cardinality(Busy \cup {w}) = IF w \in Busy THEN Cardinality(Busy) ELSE Cardinality(Busy) + 1
      /\ Cardinality(Busy \ {w}) = IF w \in Busy THEN Cardinality(Busy) - 1 ELSE Cardinality(Busy)
  BY <1>4, FS_AddElement, FS_RemoveElement
<1> QED BY <1>2, <1>3, <1>4, <1>5

\* Before the first event nothing is counted.
LEMMA DispatcherStart == DispatcherAssumption /\ DispatcherInit => DispatcherInv
<1> SUFFICES ASSUME DispatcherAssumption, DispatcherInit PROVE DispatcherInv
  OBVIOUS
<1>1. Busy = {} /\ InEmit = {}
  BY DEF DispatcherInit, Busy, InEmit
<1>2. DispatcherTypeOK
  <2>1. {started, closed, locked} \subseteq BOOLEAN
    BY DEF DispatcherInit
  <2>2. {offered, dropped, posted} \subseteq 0 .. MaxOffered /\ queued \in 0 .. QueueSize
    BY DEF DispatcherInit, DispatcherAssumption
  <2> QED BY <2>1, <2>2 DEF DispatcherInit, DispatcherTypeOK
<1>3. QueueInStep
  BY DEF DispatcherInit, QueueInStep, DispatcherAssumption
<1> QED BY <1>1, <1>3, <1>2, FS_EmptySet DEF DispatcherInit, DispatcherInv, Accounted

\* Every step of a handler, a worker and of the stop keeps the count.
LEMMA DispatcherStep ==
  ASSUME DispatcherAssumption, DispatcherInv, [DispatcherNext]_dispatcherVars
  PROVE  DispatcherInv'
<1>i. DispatcherTypeOK /\ QueueInStep /\ Accounted <= offered /\ (~ closed => Accounted = offered)
  BY DEF DispatcherInv
<1>t. /\ queued \in Nat /\ posted \in Nat /\ dropped \in Nat /\ offered \in Nat /\ offered <= MaxOffered
      /\ MaxOffered \in Nat /\ QueueSize \in Nat \ {0} /\ queued <= QueueSize
      /\ Cardinality(Busy) \in Nat /\ Cardinality(InEmit) \in Nat
      /\ Cardinality(Busy') \in Nat /\ Cardinality(InEmit') \in Nat
      /\ closed \in BOOLEAN /\ locked \in BOOLEAN /\ started \in BOOLEAN
      /\ handler \in [Handlers -> {"idle", "checked", "start", "again", "send"}]
      /\ worker \in [Workers -> {"none", "idle", "busy", "exited"}]
  <2>1. Cardinality(Busy) \in Nat /\ Cardinality(InEmit) \in Nat
    BY CountsAreNumbers
  <2>2. Cardinality(Busy') \in Nat /\ Cardinality(InEmit') \in Nat
    <3>1. Busy' \subseteq Workers /\ InEmit' \subseteq Handlers
      BY DEF Busy, InEmit
    <3> HIDE DEF Busy, InEmit
    <3> QED BY <3>1, FS_Subset, FS_CardinalityType DEF DispatcherAssumption
  <2> QED BY <1>i, <2>1, <2>2 DEF DispatcherTypeOK, DispatcherAssumption
<1>b. ASSUME UNCHANGED worker PROVE Busy' = Busy
  BY <1>b DEF Busy
<1>e. ASSUME UNCHANGED handler PROVE InEmit' = InEmit
  BY <1>e DEF InEmit
<1>c. ASSUME DispatcherTypeOK', QueueInStep', Accounted' <= offered', ~ closed' => Accounted' = offered'
      PROVE  DispatcherInv'
  BY <1>c DEF DispatcherInv
<1>1. ASSUME NEW h \in Handlers, EmitClosed(h) PROVE DispatcherInv'
  <2>1. /\ UNCHANGED <<chan, queued, started, closed, locked, handler, worker, stopper, posted>>
        /\ offered' = offered + 1 /\ dropped' = dropped + 1 /\ closed /\ offered < MaxOffered
    BY <1>1 DEF EmitClosed
  <2>2. Accounted' = Accounted + 1
    BY <1>b, <1>e, <1>t, <2>1 DEF Accounted
  <2>3. dropped' \in 0 .. MaxOffered /\ offered' \in 0 .. MaxOffered
    BY <1>i, <1>t, <2>1 DEF Accounted
  <2> QED BY <1>c, <1>i, <1>t, <2>1, <2>2, <2>3 DEF DispatcherTypeOK, QueueInStep, Accounted
<1>2. ASSUME NEW h \in Handlers, EmitOpen(h) PROVE DispatcherInv'
  <2>1. /\ UNCHANGED <<chan, queued, started, closed, locked, worker, stopper, dropped, posted>>
        /\ offered' = offered + 1 /\ offered < MaxOffered /\ HandlerAt(h, "idle", "checked")
    BY <1>2 DEF EmitOpen
  <2>2. Accounted' = Accounted + 1
    BY <1>b, <1>i, <1>t, <2>1, HandlerCounted DEF Accounted
  <2>3. handler' \in [Handlers -> {"idle", "checked", "start", "again", "send"}] /\ offered' \in 0 .. MaxOffered
    BY <1>t, <2>1 DEF HandlerAt
  <2> QED BY <1>c, <1>i, <1>t, <2>1, <2>2, <2>3 DEF DispatcherTypeOK, QueueInStep, Accounted
<1>3. ASSUME NEW h \in Handlers, GetQueue(h) PROVE DispatcherInv'
  <2>1. /\ UNCHANGED <<chan, queued, started, closed, locked, worker, stopper, offered, dropped, posted>>
        /\ HandlerAt(h, "checked", IF chan = "open" THEN "send" ELSE "start")
    BY <1>3 DEF GetQueue
  <2>2. Accounted' = Accounted
    BY <1>b, <1>i, <1>t, <2>1, HandlerCounted DEF Accounted
  <2>3. handler' \in [Handlers -> {"idle", "checked", "start", "again", "send"}]
    BY <1>t, <2>1 DEF HandlerAt
  <2> QED BY <1>c, <1>i, <1>t, <2>1, <2>2, <2>3 DEF DispatcherTypeOK, QueueInStep, Accounted
<1>4. ASSUME NEW h \in Handlers, StartQueue(h) PROVE DispatcherInv'
  <2>1. /\ UNCHANGED <<queued, closed, locked, stopper, offered, dropped, posted>>
        /\ HandlerAt(h, "start", "again") /\ started' = TRUE
        /\ \/ UNCHANGED <<chan, worker>> /\ (started \/ closed)
           \/ ~ started /\ ~ closed /\ chan' = "open" /\ worker' = [w \in Workers |-> "idle"]
    BY <1>4 DEF StartQueue, Start
  <2>2. Busy' = Busy
    BY <1>i, <2>1 DEF Busy, QueueInStep, DispatcherTypeOK
  <2>3. Accounted' = Accounted
    BY <1>i, <1>t, <2>1, <2>2, HandlerCounted DEF Accounted
  <2>4. handler' \in [Handlers -> {"idle", "checked", "start", "again", "send"}]
        /\ worker' \in [Workers -> {"none", "idle", "busy", "exited"}]
    BY <1>t, <2>1 DEF HandlerAt
  <2>5. DispatcherTypeOK'
    BY <1>i, <2>1, <2>4 DEF DispatcherTypeOK
  <2>6. QueueInStep'
    BY <1>i, <1>t, <2>1 DEF QueueInStep, DispatcherTypeOK
  <2> QED BY <1>c, <1>i, <1>t, <2>1, <2>3, <2>5, <2>6
<1>5. ASSUME NEW h \in Handlers, GetQueueAgain(h) PROVE DispatcherInv'
  <2>1. /\ UNCHANGED <<chan, queued, started, closed, locked, worker, stopper, offered, dropped, posted>>
        /\ HandlerAt(h, "again", IF closed THEN "idle" ELSE "send")
    BY <1>5 DEF GetQueueAgain
  <2>2. Accounted' = IF closed THEN Accounted - 1 ELSE Accounted
    BY <1>b, <1>i, <1>t, <2>1, HandlerCounted DEF Accounted
  <2>3. handler' \in [Handlers -> {"idle", "checked", "start", "again", "send"}]
    BY <1>t, <2>1 DEF HandlerAt
  <2>4. Accounted \in Nat /\ Accounted' \in Int
    BY <1>t, <2>2 DEF Accounted
  <2> QED BY <1>c, <1>i, <1>t, <2>1, <2>2, <2>3, <2>4 DEF DispatcherTypeOK, QueueInStep
<1>6. ASSUME NEW h \in Handlers, Send(h) \/ SendFull(h) PROVE DispatcherInv'
  <2>1. /\ UNCHANGED <<chan, started, closed, locked, worker, stopper, offered, posted>>
        /\ HandlerAt(h, "send", "idle") /\ chan = "open"
        /\ \/ queued' = queued + 1 /\ dropped' = dropped /\ queued < QueueSize
           \/ queued' = queued /\ dropped' = dropped + 1
    BY <1>6 DEF Send, SendFull
  <2>2. Accounted' = Accounted
    BY <1>b, <1>i, <1>t, <2>1, HandlerCounted DEF Accounted
  <2>3. handler' \in [Handlers -> {"idle", "checked", "start", "again", "send"}]
    BY <1>t, <2>1 DEF HandlerAt
  <2>4. queued' \in 0 .. QueueSize /\ dropped' \in 0 .. MaxOffered
    BY <1>b, <1>i, <1>t, <2>1, <2>2 DEF Accounted
  <2> QED BY <1>c, <1>i, <1>t, <2>1, <2>2, <2>3, <2>4 DEF DispatcherTypeOK, QueueInStep, Accounted
<1>7. ASSUME NEW h \in Handlers, SendPanics(h) PROVE DispatcherInv'
  <2>1. /\ UNCHANGED <<chan, queued, started, closed, worker, stopper, offered, dropped, posted>>
        /\ HandlerAt(h, "send", "idle") /\ locked' = TRUE /\ chan = "closed"
    BY <1>7 DEF SendPanics
  <2>2. Accounted' = Accounted - 1
    BY <1>b, <1>i, <1>t, <2>1, HandlerCounted DEF Accounted
  <2>3. handler' \in [Handlers -> {"idle", "checked", "start", "again", "send"}]
    BY <1>t, <2>1 DEF HandlerAt
  <2>4. closed /\ Accounted \in Nat /\ Accounted' \in Int
    BY <1>i, <1>t, <2>1, <2>2 DEF Accounted, QueueInStep
  <2> QED BY <1>c, <1>i, <1>t, <2>1, <2>2, <2>3, <2>4 DEF DispatcherTypeOK, QueueInStep
<1>8. ASSUME NEW w \in Workers, Receive(w) PROVE DispatcherInv'
  <2>1. /\ UNCHANGED <<chan, started, closed, locked, handler, stopper, offered, dropped, posted>>
        /\ worker[w] = "idle" /\ queued > 0 /\ queued' = queued - 1 /\ worker' = [worker EXCEPT ![w] = "busy"] /\ WorkerAt(w, "idle", "busy")
    BY <1>8 DEF Receive, WorkerAt
  <2>2. Cardinality(Busy') = Cardinality(Busy) + 1
    BY <1>i, <1>t, <2>1, WorkerCounted
  <2>3. Accounted' = Accounted
    BY <1>e, <1>t, <2>1, <2>2 DEF Accounted
  <2>4. queued' \in 0 .. QueueSize /\ worker' \in [Workers -> {"none", "idle", "busy", "exited"}]
    BY <1>t, <2>1
  <2>5. QueueInStep'
    BY <1>i, <1>t, <2>1 DEF QueueInStep
  <2> QED BY <1>c, <1>i, <1>t, <2>1, <2>3, <2>4, <2>5 DEF DispatcherTypeOK
<1>9. ASSUME NEW w \in Workers, Emitted(w) PROVE DispatcherInv'
  <2>1. /\ UNCHANGED <<chan, queued, started, closed, locked, handler, stopper, offered, dropped>>
        /\ worker[w] = "busy" /\ posted' = posted + 1 /\ worker' = [worker EXCEPT ![w] = "idle"] /\ WorkerAt(w, "busy", "idle")
    BY <1>9 DEF Emitted, WorkerAt
  <2>2. Cardinality(Busy') = Cardinality(Busy) - 1
    BY <1>i, <1>t, <2>1, WorkerCounted
  <2>3. Accounted' = Accounted
    BY <1>e, <1>t, <2>1, <2>2 DEF Accounted
  <2>4. posted' \in 0 .. MaxOffered /\ worker' \in [Workers -> {"none", "idle", "busy", "exited"}]
    BY <1>e, <1>i, <1>t, <2>1, <2>3 DEF Accounted
  <2>5. QueueInStep'
    BY <1>i, <1>t, <2>1 DEF QueueInStep
  <2> QED BY <1>c, <1>i, <1>t, <2>1, <2>3, <2>4, <2>5 DEF DispatcherTypeOK
<1>10. ASSUME NEW w \in Workers, Exit(w) PROVE DispatcherInv'
  <2>1. /\ UNCHANGED <<chan, queued, started, closed, locked, handler, stopper, offered, dropped, posted>>
        /\ worker[w] = "idle" /\ chan = "closed" /\ queued = 0 /\ worker' = [worker EXCEPT ![w] = "exited"] /\ WorkerAt(w, "idle", "exited")
    BY <1>10 DEF Exit, WorkerAt
  <2>2. Cardinality(Busy') = Cardinality(Busy)
    BY <1>i, <1>t, <2>1, WorkerCounted
  <2>3. Accounted' = Accounted
    BY <1>e, <1>t, <2>1, <2>2 DEF Accounted
  <2>4. worker' \in [Workers -> {"none", "idle", "busy", "exited"}]
    BY <1>t, <2>1
  <2>5. QueueInStep'
    BY <1>i, <1>t, <2>1 DEF QueueInStep
  <2> QED BY <1>c, <1>i, <1>t, <2>1, <2>3, <2>4, <2>5 DEF DispatcherTypeOK
<1>11. ASSUME Stop \/ StopReturns \/ UNCHANGED dispatcherVars PROVE DispatcherInv'
  <2>1. /\ UNCHANGED <<queued, started, locked, handler, worker, offered, dropped, posted>>
    BY <1>11 DEF Stop, StopReturns, dispatcherVars
  <2>2. Accounted' = Accounted
    BY <1>b, <1>e, <2>1 DEF Accounted
  <2>3. closed \in BOOLEAN /\ closed' \in BOOLEAN /\ (~ closed' => ~ closed)
    BY <1>t, <1>11 DEF Stop, StopReturns, dispatcherVars
  <2>4. QueueInStep'
    BY <1>i, <1>11 DEF QueueInStep, Stop, StopReturns, dispatcherVars, DispatcherTypeOK
  <2>5. DispatcherTypeOK'
    BY <1>i, <1>11, <2>1, <2>3 DEF DispatcherTypeOK, Stop, StopReturns, dispatcherVars
  <2> QED BY <1>c, <1>i, <2>1, <2>2, <2>3, <2>4, <2>5
<1> QED BY <1>1, <1>2, <1>3, <1>4, <1>5, <1>6, <1>7, <1>8, <1>9, <1>10, <1>11 DEF DispatcherNext, WorkerStep

\* Every event is accounted for until the dispatcher is told to stop, and its
\* stop drains what was queued, for any numbers of handlers and workers and any
\* length of the queue.
THEOREM EventsStayAccounted == DispatcherSpec => []EventsAccounted
<1>1. DispatcherInit => DispatcherInv
  BY DispatcherAssumption, DispatcherStart
<1>2. DispatcherInv /\ [DispatcherNext]_dispatcherVars => DispatcherInv'
  BY DispatcherAssumption, DispatcherStep
<1>3. DispatcherInv => EventsAccounted
  <2> SUFFICES ASSUME DispatcherInv PROVE EventsAccounted
    OBVIOUS
  <2>1. DrainedOnStop
    <3> SUFFICES ASSUME stopper = "done" PROVE queued = 0 /\ Busy = {}
      BY DEF DrainedOnStop
    <3>1. \A w \in Workers : worker[w] \in {"none", "exited"}
      BY DEF DispatcherInv, QueueInStep
    <3>2. PICK w \in Workers : TRUE
      BY DispatcherAssumption DEF DispatcherAssumption
    <3>3. queued = 0
      BY <3>1, <3>2 DEF DispatcherInv, QueueInStep
    <3> QED BY <3>1, <3>3 DEF Busy
  <2>2. AccountedBeforeStop
    BY DEF DispatcherInv, Accounted, AccountedBeforeStop
  <2> QED BY <2>1, <2>2 DEF EventsAccounted, DispatcherInv
<1> QED BY <1>1, <1>2, <1>3, PTL DEF DispatcherSpec


-----------------------------------------------------------------------------
\* The event processor.

\* What appending does to the elements of a sequence.
LEMMA AppendedSet ==
  ASSUME NEW S, NEW s \in Seq(S), NEW e \in S
  PROVE  /\ Append(s, e) \in Seq(S) /\ Len(Append(s, e)) = Len(s) + 1 /\ Append(s, e) # << >>
         /\ ToSet(Append(s, e)) = ToSet(s) \cup {e}
<1>1. /\ Append(s, e) \in Seq(S) /\ Len(Append(s, e)) = Len(s) + 1 /\ Append(s, e) # << >> /\ Len(s) \in Nat
      /\ \A i \in 1 .. Len(s) : Append(s, e)[i] = s[i]
      /\ Append(s, e)[Len(s) + 1] = e
      /\ DOMAIN s = 1 .. Len(s) /\ DOMAIN Append(s, e) = 1 .. Len(s) + 1
  BY AppendProperties, LenProperties
<1> DEFINE t == Append(s, e)
<1>2. 1 .. Len(s) + 1 = (1 .. Len(s)) \cup {Len(s) + 1}
  BY <1>1
<1> HIDE DEF t
<1>3. ToSet(t) = ToSet(s) \cup {e}
  BY <1>1, <1>2 DEF ToSet, t
<1> QED BY <1>1, <1>3 DEF t

\* A sequence has no more elements than places, the last one among them.
LEMMA SetOfSeq ==
  ASSUME NEW S, NEW s \in Seq(S)
  PROVE  /\ ToSet(s) \subseteq S /\ IsFiniteSet(ToSet(s)) /\ Cardinality(ToSet(s)) <= Len(s)
         /\ s # << >> => Last(s) \in ToSet(s)
<1>1. Len(s) \in Nat /\ DOMAIN s = 1 .. Len(s) /\ s \in [1 .. Len(s) -> S]
  BY LenProperties
<1>2. s \in Surjection(1 .. Len(s), ToSet(s))
  BY <1>1 DEF ToSet, Surjection
<1>3. IsFiniteSet(1 .. Len(s)) /\ Cardinality(1 .. Len(s)) = Len(s)
  BY <1>1, FS_Interval
<1>4. IsFiniteSet(ToSet(s)) /\ Cardinality(ToSet(s)) <= Len(s)
  BY <1>2, <1>3, FS_Surjection
<1>5. ToSet(s) \subseteq S
  BY <1>1 DEF ToSet
<1>6. s # << >> => Last(s) \in ToSet(s)
  BY <1>1, EmptySeq DEF ToSet, Last
<1> QED BY <1>4, <1>5, <1>6

\* The next message the main loop takes.
NextTaken == position - Len(msgChan)
Decodable(S) == S \ Undecodable

\* The channel holds the messages in front, one after the other.
InOrder == \A i \in 1 .. Len(msgChan) : msgChan[i] = NextTaken + i - 1

\* The batch is a run of decodable messages that ends right before the front.
BatchIsRun ==
    /\ ToSet(batch) \subseteq Decodable(1 .. NextTaken - 1)
    /\ \A m \in ToSet(batch) : Decodable(m .. NextTaken - 1) \subseteq ToSet(batch)
    /\ pc # "select" => batch # << >>
    /\ pc = "commit" => ToSet(batch) \subseteq stored

\* What was taken is stored, exposed or in the batch; what was committed is not
\* even there, whatever order batches and undecodable messages commit in.
TakenKept == Decodable(1 .. NextTaken - 1) \subseteq stored \cup Exposed \cup ToSet(batch)
CommittedKept == committed <= NextTaken /\ Decodable(1 .. committed - 1) \subseteq stored \cup Exposed

ProcessorInv == ProcessorTypeOK /\ InOrder /\ BatchIsRun /\ TakenKept /\ CommittedKept

\* A reader that starts at the first message.
LEMMA ProcessorStart == ProcessorAssumption /\ ProcessorInit => ProcessorInv
<1> SUFFICES ASSUME ProcessorAssumption, ProcessorInit PROVE ProcessorInv
  OBVIOUS
<1>1. msgChan = << >> /\ batch = << >> /\ Len(msgChan) = 0 /\ ToSet(batch) = {} /\ Len(batch) = 0
      /\ msgChan \in Seq(1 .. published) /\ batch \in Seq(1 .. published)
  BY EmptySeq DEF ProcessorInit, ToSet
<1>2. ProcessorTypeOK
  BY <1>1 DEF ProcessorInit, ProcessorTypeOK, ProcessorAssumption
<1> QED BY <1>1, <1>2 DEF ProcessorInit, ProcessorInv, InOrder, NextTaken, Decodable, BatchIsRun, TakenKept, CommittedKept

\* Committing an undecodable message exposes no more than the batch before it.
LEMMA RunExposed ==
  ASSUME ProcessorAssumption, ProcessorInv, NextTaken \in Undecodable, Len(batch) < BatchSize
  PROVE  ToSet(batch) \subseteq Exposed
<1> SUFFICES ASSUME NEW m \in ToSet(batch) PROVE m \in Exposed
  OBVIOUS
<1>t. position \in Nat /\ batch \in Seq(1 .. published) /\ Messages \in Nat /\ published \in 0 .. Messages
      /\ Len(msgChan) \in Nat /\ NextTaken \in Int /\ BatchSize \in Nat /\ Len(batch) \in Nat
  <2>1. msgChan \in Seq(1 .. published) /\ batch \in Seq(1 .. published)
    BY DEF ProcessorInv, ProcessorTypeOK
  <2>2. Len(msgChan) \in Nat /\ Len(batch) \in Nat
    BY <2>1, LenProperties
  <2> QED BY <2>1, <2>2 DEF ProcessorInv, ProcessorTypeOK, ProcessorAssumption, NextTaken
<1>1. /\ m \in 1 .. published /\ m \in Decodable(1 .. NextTaken - 1) /\ Decodable(m .. NextTaken - 1) \subseteq ToSet(batch)
      /\ IsFiniteSet(ToSet(batch)) /\ Cardinality(ToSet(batch)) < BatchSize
  <2>1. ToSet(batch) \subseteq 1 .. published /\ IsFiniteSet(ToSet(batch)) /\ Cardinality(ToSet(batch)) <= Len(batch)
    BY <1>t, SetOfSeq
  <2>2. Cardinality(ToSet(batch)) \in Nat
    BY <2>1, FS_CardinalityType
  <2> QED BY <1>t, <2>1, <2>2 DEF ProcessorInv, BatchIsRun
<1> DEFINE run == (m .. NextTaken) \ Undecodable
<1>2. run \subseteq ToSet(batch)
  BY <1>1, <1>t DEF Decodable
<1> HIDE DEF run
<1>3. Cardinality(run) <= Cardinality(ToSet(batch)) /\ Cardinality(run) \in Nat /\ Cardinality(ToSet(batch)) \in Nat
  BY <1>1, <1>2, FS_Subset, FS_CardinalityType
<1>4. m < NextTaken /\ m \in (1 .. Messages) \ Undecodable
  BY <1>1, <1>t DEF Decodable
<1>5. Cardinality(run) < BatchSize
  BY <1>1, <1>3, <1>t
<1> QED BY <1>4, <1>5 DEF Exposed, run

\* Every step of the two goroutines, of ingest and of the two external services
\* keeps the invariant.
LEMMA ProcessorStep ==
  ASSUME ProcessorAssumption, ProcessorInv, [ProcessorNext]_processorVars
  PROVE  ProcessorInv'
<1>i. ProcessorTypeOK /\ InOrder /\ BatchIsRun /\ TakenKept /\ CommittedKept
  BY DEF ProcessorInv
<1>t. /\ published \in Nat /\ committed \in Nat \ {0} /\ position \in Nat \ {0} /\ Messages \in Nat
      /\ published <= Messages /\ position <= published + 1 /\ committed <= published + 1
      /\ msgChan \in Seq(1 .. published) /\ batch \in Seq(1 .. published)
      /\ Len(msgChan) \in Nat /\ Len(batch) \in Nat /\ NextTaken \in Nat \ {0} /\ NextTaken + Len(msgChan) = position
      /\ BatchSize \in Nat \ {0} /\ ChanSize \in Nat \ {0} /\ Undecodable \subseteq 1 .. Messages
      /\ ToSet(batch) \subseteq 1 .. published /\ committed <= NextTaken
  <2>1. msgChan \in Seq(1 .. published) /\ batch \in Seq(1 .. published)
    BY <1>i DEF ProcessorTypeOK
  <2>2. Len(msgChan) \in Nat /\ Len(batch) \in Nat /\ ToSet(batch) \subseteq 1 .. published
    BY <2>1, LenProperties, SetOfSeq
  <2> QED BY <1>i, <2>1, <2>2 DEF ProcessorTypeOK, ProcessorAssumption, NextTaken, CommittedKept
<1>e. Exposed' = Exposed
  BY DEF Exposed
<1>z. << >> \in Seq(1 .. published) /\ Len(<< >>) = 0 /\ ToSet(<< >>) = {}
  BY EmptySeq DEF ToSet
<1>h. ASSUME msgChan # << >>
      PROVE  /\ Head(msgChan) = NextTaken /\ Tail(msgChan) \in Seq(1 .. published) /\ Len(Tail(msgChan)) = Len(msgChan) - 1
             /\ \A i \in 1 .. Len(Tail(msgChan)) : Tail(msgChan)[i] = NextTaken + i
             /\ NextTaken \in 1 .. published
  <2>1. /\ Head(msgChan) = msgChan[1] /\ Tail(msgChan) \in Seq(1 .. published) /\ Len(Tail(msgChan)) = Len(msgChan) - 1
        /\ \A i \in 1 .. Len(Tail(msgChan)) : Tail(msgChan)[i] = msgChan[i + 1]
        /\ Len(msgChan) # 0
    BY <1>h, <1>t, HeadTailProperties, EmptySeq
  <2> QED BY <1>i, <1>t, <2>1 DEF InOrder
<1>1. CASE Publish
  <2>1. published' = published + 1 /\ published < Messages
        /\ UNCHANGED <<committed, position, msgChan, batch, pc, stored, crashes>>
    BY <1>1 DEF Publish
  <2>2. msgChan \in Seq(1 .. published') /\ batch \in Seq(1 .. published')
    BY <1>t, <2>1, SeqMonotonic
  <2>3. ProcessorTypeOK'
    BY <1>i, <1>t, <2>1, <2>2 DEF ProcessorTypeOK
  <2>4. InOrder' /\ BatchIsRun' /\ TakenKept' /\ CommittedKept'
    BY <1>e, <1>i, <2>1 DEF InOrder, BatchIsRun, TakenKept, CommittedKept, NextTaken
  <2> QED BY <2>3, <2>4 DEF ProcessorInv
<1>2. CASE Fetch
  <2>1. /\ position <= published /\ Len(msgChan) < ChanSize
        /\ msgChan' = Append(msgChan, position) /\ position' = position + 1
        /\ UNCHANGED <<published, committed, batch, pc, stored, crashes>>
    BY <1>2 DEF Fetch
  <2>2. /\ msgChan' \in Seq(1 .. published) /\ Len(msgChan') = Len(msgChan) + 1
        /\ \A i \in 1 .. Len(msgChan) : msgChan'[i] = msgChan[i]
        /\ msgChan'[Len(msgChan) + 1] = position
    BY <1>t, <2>1, AppendProperties
  <2>3. NextTaken' = NextTaken
    BY <1>t, <2>1, <2>2 DEF NextTaken
  <2>4. InOrder'
    <3> SUFFICES ASSUME NEW i \in 1 .. Len(msgChan) + 1 PROVE msgChan'[i] = NextTaken + i - 1
      BY <2>2, <2>3 DEF InOrder
    <3>1. CASE i \in 1 .. Len(msgChan)
      BY <1>i, <2>2, <3>1 DEF InOrder
    <3>2. CASE i = Len(msgChan) + 1
      BY <1>t, <2>2, <3>2
    <3> QED BY <1>t, <3>1, <3>2
  <2>5. ProcessorTypeOK'
    BY <1>i, <1>t, <2>1, <2>2 DEF ProcessorTypeOK
  <2>6. BatchIsRun' /\ TakenKept' /\ CommittedKept'
    BY <1>e, <1>i, <2>1, <2>3 DEF BatchIsRun, TakenKept, CommittedKept
  <2> QED BY <2>4, <2>5, <2>6 DEF ProcessorInv
<1>3. CASE Take
  <2>1. /\ pc = "select" /\ Len(batch) < BatchSize /\ msgChan # << >> /\ NextTaken \notin Undecodable
        /\ msgChan' = Tail(msgChan) /\ batch' = Append(batch, NextTaken)
        /\ pc' \in {"select", "insert"}
        /\ UNCHANGED <<published, committed, position, stored, crashes>>
    BY <1>3, <1>h DEF Take, Input
  <2>2. NextTaken' = NextTaken + 1 /\ NextTaken \in 1 .. published
    BY <1>h, <1>t, <2>1 DEF NextTaken
  <2>3. batch' \in Seq(1 .. published) /\ Len(batch') = Len(batch) + 1 /\ batch' # << >> /\ ToSet(batch') = ToSet(batch) \cup {NextTaken}
    BY ZenonT(30), <1>t, <2>1, <2>2, AppendedSet
  <2>4. InOrder'
    <3> SUFFICES ASSUME NEW i \in 1 .. Len(Tail(msgChan)) PROVE Tail(msgChan)[i] = NextTaken' + i - 1
      BY <2>1 DEF InOrder
    <3>1. Tail(msgChan)[i] = NextTaken + i /\ i \in Nat
      BY <1>h, <1>t, <2>1
    <3> QED BY <1>t, <2>2, <3>1
  <2>5. ProcessorTypeOK'
    BY SMTT(20), <1>h, <1>i, <1>t, <2>1, <2>3 DEF ProcessorTypeOK
  <2>6. Decodable(1 .. NextTaken' - 1) = Decodable(1 .. NextTaken - 1) \cup {NextTaken}
    BY <1>t, <2>1, <2>2 DEF Decodable
  <2>7. BatchIsRun'
    <3>1. ToSet(batch') \subseteq Decodable(1 .. NextTaken' - 1)
      BY <1>i, <2>3, <2>6 DEF BatchIsRun
    <3>2. ASSUME NEW m \in ToSet(batch'), NEW k \in Decodable(m .. NextTaken' - 1) PROVE k \in ToSet(batch')
      <4>1. k = NextTaken \/ (k < NextTaken /\ k \in m .. NextTaken - 1 /\ m \in ToSet(batch))
        BY <1>t, <2>2, <2>3, <3>2 DEF Decodable
      <4> QED BY <1>i, <2>3, <3>2, <4>1 DEF BatchIsRun, Decodable
    <3> QED BY <2>1, <2>3, <3>1, <3>2 DEF BatchIsRun
  <2>8. TakenKept' /\ CommittedKept'
    BY <1>e, <1>i, <1>t, <2>1, <2>2, <2>3, <2>6 DEF TakenKept, CommittedKept
  <2> QED BY <2>4, <2>5, <2>7, <2>8 DEF ProcessorInv
<1>4. CASE Skip
  <2>1. /\ pc = "select" /\ Len(batch) < BatchSize /\ msgChan # << >> /\ NextTaken \in Undecodable
        /\ msgChan' = Tail(msgChan) /\ committed' \in {committed, NextTaken + 1}
        /\ UNCHANGED <<published, position, batch, pc, stored, crashes>>
    BY <1>4, <1>h DEF Skip, Input
  <2>2. NextTaken' = NextTaken + 1 /\ NextTaken \in 1 .. published
    BY <1>h, <1>t, <2>1 DEF NextTaken
  <2>3. InOrder'
    <3> SUFFICES ASSUME NEW i \in 1 .. Len(Tail(msgChan)) PROVE Tail(msgChan)[i] = NextTaken' + i - 1
      BY <2>1 DEF InOrder
    <3>1. Tail(msgChan)[i] = NextTaken + i /\ i \in Nat
      BY <1>h, <1>t, <2>1
    <3> QED BY <1>t, <2>2, <3>1
  <2>4. ProcessorTypeOK'
    BY SMTT(20), <1>h, <1>i, <1>t, <2>1, <2>2 DEF ProcessorTypeOK
  <2>5. Decodable(1 .. NextTaken' - 1) = Decodable(1 .. NextTaken - 1)
    BY <1>t, <2>1, <2>2 DEF Decodable
  <2>6. BatchIsRun'
    <3>1. \A m \in ToSet(batch) : Decodable(m .. NextTaken' - 1) = Decodable(m .. NextTaken - 1)
      BY <1>t, <2>1, <2>2 DEF Decodable
    <3> QED BY <1>i, <2>1, <2>5, <3>1 DEF BatchIsRun
  <2>7. TakenKept'
    BY <1>e, <1>i, <2>1, <2>5 DEF TakenKept
  <2>8. CommittedKept'
    <3>1. ToSet(batch) \subseteq Exposed
      BY <2>1, RunExposed
    <3>2. Decodable(1 .. (NextTaken + 1) - 1) \subseteq stored \cup Exposed
      BY <1>i, <2>2, <2>5, <3>1 DEF TakenKept
    <3>3. PICK n : n = NextTaken /\ NextTaken' = n + 1 /\ n \in Nat
      BY <1>t, <2>2
    <3>4. CASE committed' = committed
      <4>1. committed' <= NextTaken'
        BY <1>e, <1>i, <1>t, <3>3, <3>4 DEF CommittedKept
      <4>2. Decodable(1 .. committed' - 1) \subseteq stored \cup Exposed
        BY <1>i, <3>4 DEF CommittedKept
      <4> QED BY <1>e, <2>1, <4>1, <4>2 DEF CommittedKept
    <3>5. CASE committed' = n + 1
      <4>1. Decodable(1 .. committed' - 1) \subseteq stored \cup Exposed
        BY <3>2, <3>3, <3>5
      <4> QED BY <1>e, <2>1, <3>3, <3>5, <4>1 DEF CommittedKept
    <3> QED BY <2>1, <3>3, <3>4, <3>5
  <2> QED BY <2>3, <2>4, <2>6, <2>7, <2>8 DEF ProcessorInv
<1>5. CASE FlushTick \/ Insert \/ InsertFails \/ UNCHANGED processorVars
  <2>1. /\ UNCHANGED <<published, committed, position, msgChan, batch, crashes>>
        /\ stored' \in {stored, stored \cup ToSet(batch)} /\ pc' \in {"select", "insert", "commit"}
        /\ pc' # "select" => batch # << >>
        /\ pc' = "commit" => ToSet(batch) \subseteq stored'
    BY <1>5, <1>i DEF FlushTick, Insert, InsertFails, processorVars, BatchIsRun, ProcessorTypeOK
  <2>2. stored \subseteq stored' /\ stored' \subseteq 1 .. published /\ NextTaken' = NextTaken
    BY <1>i, <1>t, <2>1 DEF ProcessorTypeOK, NextTaken
  <2>3. ProcessorTypeOK' /\ InOrder'
    BY <1>i, <2>1, <2>2 DEF ProcessorTypeOK, InOrder
  <2>4. BatchIsRun' /\ TakenKept' /\ CommittedKept'
    BY <1>e, <1>i, <2>1, <2>2 DEF BatchIsRun, TakenKept, CommittedKept
  <2> QED BY <2>3, <2>4 DEF ProcessorInv
<1>6. CASE Commit
  <2>1. /\ pc = "commit" /\ committed' \in {committed, Last(batch) + 1} /\ batch' = << >> /\ pc' = "select"
        /\ UNCHANGED <<published, position, msgChan, stored, crashes>>
    BY <1>6 DEF Commit
  <2>2. Last(batch) \in ToSet(batch) /\ ToSet(batch) \subseteq stored
    BY <1>i, <1>t, <2>1, SetOfSeq DEF BatchIsRun
  <2>3. Last(batch) \in 1 .. published /\ Last(batch) \in 1 .. NextTaken - 1 /\ NextTaken' = NextTaken
    BY <1>i, <1>t, <2>1, <2>2 DEF BatchIsRun, Decodable, NextTaken
  <2>4. ProcessorTypeOK' /\ InOrder'
    BY <1>i, <1>t, <1>z, <2>1, <2>3 DEF ProcessorTypeOK, InOrder
  <2>5. BatchIsRun' /\ TakenKept'
    BY <1>e, <1>i, <1>z, <2>1, <2>2, <2>3 DEF BatchIsRun, TakenKept
  <2>6. CommittedKept'
    <3>1. Decodable(1 .. (Last(batch) + 1) - 1) \subseteq Decodable(1 .. NextTaken - 1)
      BY <1>t, <2>3 DEF Decodable
    <3>2. Decodable(1 .. NextTaken - 1) \subseteq stored \cup Exposed
      BY <1>i, <2>2 DEF TakenKept
    <3> QED BY <1>e, <1>i, <1>t, <2>1, <2>3, <3>1, <3>2 DEF CommittedKept
  <2> QED BY <2>4, <2>5, <2>6 DEF ProcessorInv
<1>7. CASE Crash
  <2>1. /\ crashes < MaxCrashes /\ crashes' = crashes + 1 /\ position' = committed /\ msgChan' = << >> /\ batch' = << >>
        /\ pc' = "select" /\ UNCHANGED <<published, committed, stored>>
    BY <1>7 DEF Crash
  <2>2. NextTaken' = committed /\ Len(msgChan') = 0
    BY <1>t, <1>z, <2>1 DEF NextTaken
  <2>3. ProcessorTypeOK' /\ InOrder'
    BY <1>i, <1>t, <1>z, <2>1, <2>2 DEF ProcessorTypeOK, InOrder, ProcessorAssumption
  <2>4. BatchIsRun' /\ TakenKept' /\ CommittedKept'
    BY <1>e, <1>i, <1>t, <1>z, <2>1, <2>2 DEF BatchIsRun, TakenKept, CommittedKept
  <2> QED BY <2>3, <2>4 DEF ProcessorInv
<1> QED BY <1>1, <1>2, <1>3, <1>4, <1>5, <1>6, <1>7 DEF ProcessorNext

\* An accepted event that no undecodable message exposes is never lost: whatever
\* the reader is past is stored or in hand, through any number of crashes and of
\* failing inserts and commits, for any size of batch and channel.
THEOREM NothingIsLost == ProcessorSpec => []NoLoss
<1>1. ProcessorInit => ProcessorInv
  BY ProcessorAssumption, ProcessorStart
<1>2. ProcessorInv /\ [ProcessorNext]_processorVars => ProcessorInv'
  BY ProcessorAssumption, ProcessorStep
<1>3. ProcessorInv => NoLoss
  <2> SUFFICES ASSUME ProcessorInv PROVE LostOnlyExposed
    BY DEF ProcessorInv, NoLoss
  <2> SUFFICES ASSUME NEW m \in Lost PROVE m \in Exposed
    BY DEF LostOnlyExposed
  <2>1. msgChan \in Seq(1 .. published) /\ position \in Nat
    BY DEF ProcessorInv, ProcessorTypeOK
  <2>2. Len(msgChan) \in Nat /\ DOMAIN msgChan = 1 .. Len(msgChan)
    BY <2>1, LenProperties
  <2>3. m \in 1 .. position - 1 /\ m \notin Undecodable /\ m \notin stored /\ m \notin ToSet(batch) /\ m \notin ToSet(msgChan)
    BY DEF Lost
  <2>4. m < NextTaken
    <3> SUFFICES ASSUME m >= NextTaken PROVE FALSE
      BY <2>1, <2>2, <2>3 DEF NextTaken
    <3>1. m - NextTaken + 1 \in 1 .. Len(msgChan)
      BY <2>1, <2>2, <2>3 DEF NextTaken
    <3>2. msgChan[m - NextTaken + 1] = m
      BY <2>1, <2>2, <2>3, <3>1 DEF ProcessorInv, InOrder, NextTaken
    <3> QED BY <2>2, <2>3, <3>1, <3>2 DEF ToSet
  <2>5. m \in Decodable(1 .. NextTaken - 1)
    BY <2>1, <2>2, <2>3, <2>4 DEF Decodable, NextTaken
  <2> QED BY <2>3, <2>5 DEF ProcessorInv, TakenKept
<1> QED BY <1>1, <1>2, <1>3, PTL DEF ProcessorSpec
-----------------------------------------------------------------------------
\* An exchange has its fields and no others.
IsExchange(e) ==
    e = [stage |-> e.stage, shape |-> e.shape, policy |-> e.policy, provider |-> e.provider,
         identity |-> e.identity, allowed |-> e.allowed, reason |-> e.reason, status |-> e.status,
         skipAudit |-> e.skipAudit]

\* What authentication leaves behind: the identity is the one the document asks for, and its session, if
\* it is bound to one, is a session of that human.
Authenticated(e) ==
    /\ UsesOAuth(e.policy) =>
         /\ e.shape.token # NoToken /\ e.shape.token.genuine /\ e.shape.token.audience = e.policy.audience
         /\ e.identity.human = e.shape.token.human
    /\ UsesDelegatedHeaders(e.policy) => e.shape.header
    /\ e.shape.spiffe # None /\ e.identity.session = e.shape.spiffe /\ ~UsesOAuth(e.policy) => e.shape.ingress
    /\ e.identity.bound # None => Sessions[e.identity.bound] = e.identity.human

\* What authorization adds to it.
Authorized(e) ==
    /\ Authenticated(e) /\ e.allowed
    /\ e.shape.kind = "tool" => grantsTool(e.policy, e.identity)

\* What an exchange of request r has established, by the filter that has it.
Snapshot(r, e) ==
    /\ e.stage \in Stages /\ IsExchange(e) /\ e.allowed \in BOOLEAN /\ e.skipAudit \in BOOLEAN
    /\ e.stage # "absent" => e.shape \in Shapes[r]
    /\ e.stage \notin {"absent", "policy"} => e.policy \in Documents /\ e.policy.valid
    /\ e.stage \in {"absent", "policy", "auth", "provider", "fetched", "verify"} => e.identity = NoIdentity
    /\ e.skipAudit => e.shape.kind = "metadata" /\ e.stage \in {"audit", "done"}
Passed(e) ==
    /\ e.stage \in {"provider", "fetched", "verify"} => UsesOAuth(e.policy) /\ e.shape.token # NoToken
    /\ e.stage \in {"provider", "fetched", "verify"} /\ HasCertificate(e) => e.shape.ingress
    /\ e.stage = "verify" => e.provider = e.policy.audience
    /\ e.stage = "authz" => Authenticated(e)
    /\ e.stage \in {"upstream", "proxy", "reply"} => Authorized(e)
    /\ e.identity.agent = LiveInventory => ProvenProbe(e)

\* What has left the gateway for an exchange e, against what e says.
IsSent(s) == s = [forwarded |-> s.forwarded, audits |-> s.audits, broker |-> s.broker]
Outcome(e, s) ==
    /\ IsSent(s) /\ s.forwarded \in {0, 1}
    /\ s.forwarded = 1 => e.stage \in {"reply", "audit", "done"} /\ Authorized(e)
    /\ e.stage = "reply" => s.forwarded = 1
    /\ e.stage \in {"audit", "done"} /\ s.forwarded = 0 => ~e.allowed \/ e.skipAudit
    /\ s.broker # None =>
         /\ e.stage \in {"proxy", "reply", "audit", "done"} /\ e.shape.kind = "tool" /\ e.policy.broker
         /\ Sessions[s.broker] = e.identity.human
    /\ e.stage # "done" => s.audits = {}
    /\ e.stage = "done" /\ e.shape.kind \in {"tool", "list", "unparsable"} =>
         s.audits = IF e.identity.agent = LiveInventory THEN {} ELSE {<<0, e.allowed>>}

\* The state the requests share: the served document and the cached providers are good ones.
CacheInv ==
    /\ policyFile \in Documents /\ policyState.policy \in Documents /\ policyState.policy.valid
    /\ policyState = [policy |-> policyState.policy, err |-> policyState.err] /\ policyState.err \in BOOLEAN
    /\ sessionView = [revoked |-> sessionView.revoked, fresh |-> sessionView.fresh]
    /\ sessionView.revoked \subseteq DOMAIN Sessions
    /\ \A a \in DOMAIN providers : a # None /\ providers[a] = a
\* Every exchange, and what left the gateway for it.
ServedInv ==
    /\ DOMAIN exchange = Requests /\ exchange = [r \in Requests |-> exchange[r]]
    /\ sent = [r \in Requests |-> sent[r]]
    /\ \A r \in Requests : Snapshot(r, exchange[r]) /\ Passed(exchange[r]) /\ Outcome(exchange[r], sent[r])
GatewayInv == CacheInv /\ ServedInv


-----------------------------------------------------------------------------
\* Somebody who has not authenticated is not the platform's probe.
LEMMA NobodyProbes == NoIdentity.agent # LiveInventory
BY GatewayAssumption DEF NoIdentity, None

\* One exchange moves, the others and what was sent for them stay.
LEMMA ServedStep ==
  ASSUME NEW r \in Requests, NEW e, NEW s, ServedInv,
         exchange' = [exchange EXCEPT ![r] = e], sent' = [sent EXCEPT ![r] = s],
         Snapshot(r, e), Passed(e), Outcome(e, s)
  PROVE  ServedInv'
<1>1. DOMAIN exchange = Requests /\ DOMAIN sent = Requests
  BY DEF ServedInv
<1>2. /\ exchange' = [q \in Requests |-> IF q = r THEN e ELSE exchange[q]]
      /\ sent' = [q \in Requests |-> IF q = r THEN s ELSE sent[q]]
  BY <1>1
<1>3. \A q \in Requests : /\ exchange'[q] = (IF q = r THEN e ELSE exchange[q])
                          /\ sent'[q] = (IF q = r THEN s ELSE sent[q])
  BY <1>2
<1>4. \A q \in Requests : Snapshot(q, exchange'[q]) /\ Passed(exchange'[q]) /\ Outcome(exchange'[q], sent'[q])
  BY <1>3 DEF ServedInv
<1>5. /\ DOMAIN exchange' = Requests /\ exchange' = [q \in Requests |-> exchange'[q]]
      /\ sent' = [q \in Requests |-> sent'[q]]
  BY <1>2, <1>3
<1> QED
  BY <1>4, <1>5 DEF ServedInv

\* An exchange that moves on and sends nothing.
LEMMA SentNothing ==
  ASSUME NEW r \in Requests, NEW e, ServedInv, Update(r, e), UNCHANGED sent,
         Snapshot(r, e), Passed(e), Outcome(e, sent[r])
  PROVE  ServedInv'
<1>1. PICK s : s = sent[r]
  OBVIOUS
<1>2. sent' = [sent EXCEPT ![r] = s]
  BY <1>1 DEF ServedInv
<1> QED
  BY <1>1, <1>2, ServedStep DEF Update

\* A denial ends the exchange before anything was forwarded.
LEMMA DenialSound ==
  ASSUME NEW r \in Requests, NEW reason, NEW status, NEW e, ServedInv,
         exchange[r].stage \in {"auth", "provider", "verify", "authz", "upstream", "proxy"},
         e = Deny(r, reason, status)
  PROVE  Snapshot(r, e) /\ Passed(e) /\ Outcome(e, sent[r])
<1>1. PICK f : f = exchange[r]
  OBVIOUS
<1>2. PICK s : s = sent[r]
  OBVIOUS
<1>3. Snapshot(r, f) /\ Passed(f) /\ Outcome(f, s)
  BY <1>1, <1>2 DEF ServedInv
<1>4. /\ e.stage = "audit" /\ e.shape = f.shape /\ e.policy = f.policy /\ e.identity = f.identity
      /\ e.allowed = FALSE /\ e.skipAudit = f.skipAudit /\ IsExchange(e)
  BY <1>1, <1>3 DEF Deny, IsExchange, Snapshot
<1>5. f.stage \in {"auth", "provider", "verify", "authz", "upstream", "proxy"}
  BY <1>1
<1>6. Snapshot(r, e) /\ Passed(e)
  BY <1>3, <1>4, <1>5 DEF Snapshot, Passed, HasCertificate, ProvenProbe, Stages
<1>7. Outcome(e, s)
  BY <1>3, <1>4, <1>5 DEF Outcome
<1> QED
  BY <1>2, <1>6, <1>7

\* The same of a denial during authentication that says who is denied.
LEMMA NamedDenialSound ==
  ASSUME NEW r \in Requests, NEW reason, NEW status, NEW i, NEW e, ServedInv,
         exchange[r].stage \in {"auth", "verify"},
         e = [Deny(r, reason, status) EXCEPT !.identity = i],
         i.agent = LiveInventory => ProvenProbe([exchange[r] EXCEPT !.identity = i])
  PROVE  Snapshot(r, e) /\ Passed(e) /\ Outcome(e, sent[r])
<1>1. PICK f : f = exchange[r]
  OBVIOUS
<1>2. PICK s : s = sent[r]
  OBVIOUS
<1>3. Snapshot(r, f) /\ Passed(f) /\ Outcome(f, s) /\ IsExchange(f)
  BY <1>1, <1>2 DEF ServedInv, Snapshot
<1>4. /\ e.stage = "audit" /\ e.shape = f.shape /\ e.policy = f.policy /\ e.identity = i
      /\ e.allowed = FALSE /\ e.skipAudit = f.skipAudit /\ IsExchange(e)
  BY <1>1, <1>3 DEF Deny, IsExchange
<1>5. f.stage = "auth" \/ f.stage = "verify"
  BY <1>1
<1>6. i.agent = LiveInventory => ProvenProbe(e)
  <2>1. PICK g : g = [f EXCEPT !.identity = i]
    OBVIOUS
  <2>2. g.shape = f.shape /\ g.policy = f.policy
    BY <1>3, <2>1 DEF IsExchange
  <2> QED
    BY <1>1, <1>4, <2>1, <2>2 DEF ProvenProbe
<1>7. Snapshot(r, e)
  BY <1>3, <1>4, <1>5 DEF Snapshot, Stages
<1>8. Passed(e)
  BY <1>4, <1>6 DEF Passed, HasCertificate
<1>9. Outcome(e, s)
  BY <1>3, <1>4, <1>5 DEF Outcome
<1> QED
  BY <1>2, <1>7, <1>8, <1>9

\* A request that arrives starts from a denial, with nothing sent.
LEMMA InspectStep ==
  ASSUME NEW r \in Requests, NEW shape \in Shapes[r], ServedInv, inspectFilter(r, shape)
  PROVE  ServedInv'
<1>1. PICK e : e = newExchange(shape)
  OBVIOUS
<1>2. PICK s : s = sent[r]
  OBVIOUS
<1>3. Outcome(exchange[r], s) /\ exchange[r].stage = "absent"
  BY <1>2 DEF ServedInv, inspectFilter, At
<1>4. /\ e.stage = "policy" /\ e.shape = shape /\ e.identity = NoIdentity
      /\ e.allowed = FALSE /\ e.skipAudit = FALSE /\ IsExchange(e)
  BY <1>1 DEF newExchange, NoExchange, IsExchange
<1>5. Snapshot(r, e) /\ Passed(e) /\ Outcome(e, s)
  BY <1>3, <1>4, NobodyProbes DEF Snapshot, Passed, HasCertificate, Outcome, Stages
<1> QED
  BY <1>1, <1>2, <1>5, SentNothing DEF inspectFilter, unchangedBesidesExchange

\* The document is fixed here, and it is the served one, which is valid.
LEMMA PolicyStep ==
  ASSUME NEW r \in Requests, CacheInv, ServedInv, policyFilter(r)
  PROVE  ServedInv'
<1>1. PICK f : f = exchange[r]
  OBVIOUS
<1>2. PICK s : s = sent[r]
  OBVIOUS
<1>3. Snapshot(r, f) /\ Passed(f) /\ Outcome(f, s) /\ f.stage = "policy"
  BY <1>1, <1>2 DEF ServedInv, policyFilter, At
<1>4. PICK e : e = [f EXCEPT !.policy = currentPolicy]
  OBVIOUS
<1>5. /\ e.stage = "policy" /\ e.shape = f.shape /\ e.policy = currentPolicy /\ e.identity = f.identity
      /\ e.allowed = f.allowed /\ e.skipAudit = f.skipAudit /\ IsExchange(e)
  BY <1>3, <1>4 DEF IsExchange, Snapshot
<1>6. currentPolicy \in Documents /\ currentPolicy.valid
  BY DEF CacheInv, currentPolicy
<1>7. CASE f.shape.kind = "metadata"
  <2>1. PICK g : g = handleOAuthProtectedResource(e)
    OBVIOUS
  <2>2. /\ g.stage = "audit" /\ g.shape = f.shape /\ g.policy = currentPolicy /\ g.identity = f.identity
        /\ g.allowed = TRUE /\ g.skipAudit = TRUE /\ IsExchange(g)
    BY <1>5, <2>1 DEF handleOAuthProtectedResource, IsExchange
  <2>3. Snapshot(r, g) /\ Passed(g) /\ Outcome(g, s)
    BY <1>3, <1>6, <1>7, <2>2, NobodyProbes DEF Snapshot, Passed, HasCertificate, Outcome, Stages
  <2>4. Update(r, g) /\ UNCHANGED sent
    BY <1>1, <1>4, <1>5, <1>7, <2>1 DEF policyFilter, unchangedBesidesExchange
  <2> QED
    BY <1>2, <2>3, <2>4, SentNothing
<1>8. CASE f.shape.kind # "metadata"
  <2>1. PICK g : g = [e EXCEPT !.stage = "auth"]
    OBVIOUS
  <2>2. /\ g.stage = "auth" /\ g.shape = f.shape /\ g.policy = currentPolicy /\ g.identity = f.identity
        /\ g.allowed = f.allowed /\ g.skipAudit = f.skipAudit /\ IsExchange(g)
    BY <1>5, <2>1 DEF IsExchange
  <2>3. Snapshot(r, g) /\ Passed(g) /\ Outcome(g, s)
    BY <1>3, <1>6, <2>2, NobodyProbes DEF Snapshot, Passed, HasCertificate, Outcome, Stages
  <2>4. Update(r, g) /\ UNCHANGED sent
    BY <1>1, <1>4, <1>5, <1>8, <2>1 DEF policyFilter, unchangedBesidesExchange
  <2> QED
    BY <1>2, <2>3, <2>4, SentNothing
<1> QED
  BY <1>7, <1>8

\* An exchange that moves on to another stage.
LEMMA StageMoved ==
  ASSUME NEW f, NEW stage, NEW e, IsExchange(f), e = [f EXCEPT !.stage = stage]
  PROVE  /\ e.stage = stage /\ e.shape = f.shape /\ e.policy = f.policy /\ e.identity = f.identity
         /\ e.allowed = f.allowed /\ e.skipAudit = f.skipAudit /\ e.provider = f.provider /\ IsExchange(e)
BY DEF IsExchange

\* Header mode passes with the header, a certificate with the hop that asserts it, OAuth with a token.
LEMMA AuthStep ==
  ASSUME NEW r \in Requests, CacheInv, ServedInv, authFilterLocal(r)
  PROVE  ServedInv'
<1>1. PICK f : f = exchange[r]
  OBVIOUS
<1>2. PICK s : s = sent[r]
  OBVIOUS
<1>3. Snapshot(r, f) /\ Passed(f) /\ Outcome(f, s) /\ f.stage = "auth" /\ exchange[r].stage = "auth"
  BY <1>1, <1>2 DEF ServedInv, authFilterLocal, At
<1>4. UNCHANGED sent
  BY DEF authFilterLocal, unchangedBesidesExchange
<1>5. f.identity = NoIdentity /\ IsExchange(f) /\ f.shape \in Shapes[r]
  BY <1>3 DEF Snapshot
<1>6. ASSUME NEW reason, NEW status, Update(r, Deny(r, reason, status))
      PROVE  ServedInv'
  <2>1. PICK e : e = Deny(r, reason, status)
    OBVIOUS
  <2>2. Snapshot(r, e) /\ Passed(e) /\ Outcome(e, sent[r])
    BY <1>3, <2>1, DenialSound
  <2> QED
    BY <1>4, <1>6, <2>1, <2>2, SentNothing
<1>7. ASSUME Update(r, [f EXCEPT !.stage = "authz"]), UsesDelegatedHeaders(f.policy) => f.shape.header,
             ~UsesOAuth(f.policy)
      PROVE  ServedInv'
  <2>1. PICK e : e = [f EXCEPT !.stage = "authz"]
    OBVIOUS
  <2>2. /\ e.stage = "authz" /\ e.shape = f.shape /\ e.policy = f.policy /\ e.identity = f.identity
        /\ e.allowed = f.allowed /\ e.skipAudit = f.skipAudit /\ IsExchange(e)
    BY <1>5, <2>1, StageMoved
  <2>3. Authenticated(e)
    BY <1>5, <1>7, <2>2 DEF Authenticated, NoIdentity
  <2>4. Snapshot(r, e) /\ Passed(e) /\ Outcome(e, s)
    BY <1>3, <2>2, <2>3 DEF Snapshot, Passed, HasCertificate, ProvenProbe, Outcome, Stages
  <2> QED
    BY <1>2, <1>4, <1>7, <2>1, <2>4, SentNothing
<1>8. CASE UsesDelegatedHeaders(f.policy) /\ Update(r, IF f.shape.header THEN [f EXCEPT !.stage = "authz"]
                                                                   ELSE Deny(r, "missing_credential", 401))
  BY <1>6, <1>7, <1>8 DEF UsesDelegatedHeaders, UsesOAuth
<1>9. CASE LET reason == authenticateAdapterCertificate(f) IN
             /\ ~UsesDelegatedHeaders(f.policy) /\ HasCertificate(f) /\ reason # ""
             /\ Update(r, [Deny(r, reason, AuthStatus(reason)) EXCEPT !.identity = DeniedIdentity(f, reason)])
  <2>1. PICK reason : reason = authenticateAdapterCertificate(f)
    OBVIOUS
  <2>2. PICK i : i = DeniedIdentity(f, reason)
    OBVIOUS
  <2>3. PICK e : e = [Deny(r, reason, AuthStatus(reason)) EXCEPT !.identity = i]
    OBVIOUS
  <2>4. PICK g : g = [f EXCEPT !.identity = i]
    OBVIOUS
  <2>5. g.shape = f.shape /\ g.policy = f.policy
    BY <1>5, <2>4 DEF IsExchange
  <2>6. i.agent = LiveInventory => ProvenProbe(g)
    <3>1. CASE reason = "session_revoked"
      <4>1. f.shape.ingress
        BY <2>1, <3>1 DEF authenticateAdapterCertificate
      <4>2. i.agent = SessionAgent[f.shape.spiffe]
        BY <2>2, <3>1 DEF DeniedIdentity, CertificateIdentity
      <4> QED
        BY <1>9, <2>5, <4>1, <4>2 DEF ProvenProbe, HasCertificate
    <3>2. CASE reason # "session_revoked"
      BY <2>2, <3>2, NobodyProbes DEF DeniedIdentity
    <3> QED
      BY <3>1, <3>2
  <2>7. Snapshot(r, e) /\ Passed(e) /\ Outcome(e, sent[r])
    BY <1>1, <1>3, <2>3, <2>4, <2>6, NamedDenialSound
  <2> QED
    BY <1>4, <1>9, <2>1, <2>2, <2>3, <2>7, SentNothing
<1>10. CASE /\ f.policy.auth = "adapter" /\ HasCertificate(f) /\ authenticateAdapterCertificate(f) = ""
            /\ Update(r, [f EXCEPT !.stage = "authz", !.identity = CertificateIdentity(f)])
  <2>1. PICK i : i = CertificateIdentity(f)
    OBVIOUS
  <2>2. PICK e : e = [f EXCEPT !.stage = "authz", !.identity = i]
    OBVIOUS
  <2>3. /\ e.stage = "authz" /\ e.shape = f.shape /\ e.policy = f.policy /\ e.identity = i
        /\ e.allowed = f.allowed /\ e.skipAudit = f.skipAudit /\ IsExchange(e)
    BY <1>5, <2>2 DEF IsExchange
  <2>4. /\ i.human = Sessions[f.shape.spiffe] /\ i.session = f.shape.spiffe /\ i.bound = f.shape.spiffe
        /\ i.agent = SessionAgent[f.shape.spiffe]
    BY <2>1 DEF CertificateIdentity
  <2>5. f.shape.ingress
    <3>1. f.shape.ingress \in BOOLEAN
      BY <1>5, GatewayAssumption
    <3>2. ~f.shape.ingress => authenticateAdapterCertificate(f) = "missing_client_certificate"
      BY DEF authenticateAdapterCertificate
    <3> QED
      BY <1>10, <3>1, <3>2
  <2>6. Authenticated(e)
    BY <1>10, <2>3, <2>4, <2>5 DEF Authenticated, UsesOAuth, UsesDelegatedHeaders
  <2>7. ProvenProbe(e) \/ i.agent # LiveInventory
    BY <1>10, <2>3, <2>4, <2>5 DEF ProvenProbe, HasCertificate
  <2>8. Snapshot(r, e) /\ Passed(e) /\ Outcome(e, s)
    BY <1>3, <2>3, <2>6, <2>7 DEF Snapshot, Passed, HasCertificate, Outcome, Stages
  <2> QED
    BY <1>2, <1>4, <1>10, <2>1, <2>2, <2>8, SentNothing
<1>11. CASE f.policy.auth \in {"adapter", "default"} /\ Update(r, [f EXCEPT !.stage = "authz"])
  BY <1>7, <1>11 DEF UsesDelegatedHeaders, UsesOAuth
<1>12. CASE UsesOAuth(f.policy) /\ (HasCertificate(f) => authenticateAdapterCertificate(f) = "")
            /\ Update(r, IF f.shape.token = NoToken THEN Deny(r, "missing_bearer_token", 401)
                                                                  ELSE [f EXCEPT !.stage = "provider"])
  <2>1. CASE f.shape.token = NoToken
    BY <1>6, <1>12, <2>1
  <2>2. CASE f.shape.token # NoToken
    <3>1. PICK e : e = [f EXCEPT !.stage = "provider"]
      OBVIOUS
    <3>2. /\ e.stage = "provider" /\ e.shape = f.shape /\ e.policy = f.policy /\ e.identity = f.identity
          /\ e.allowed = f.allowed /\ e.skipAudit = f.skipAudit /\ IsExchange(e)
      BY <1>5, <3>1, StageMoved
    <3>c. HasCertificate(f) => f.shape.ingress
      <4>1. f.shape.ingress \in BOOLEAN
        BY <1>5, GatewayAssumption
      <4>2. ~f.shape.ingress => authenticateAdapterCertificate(f) = "missing_client_certificate"
        BY DEF authenticateAdapterCertificate
      <4> QED
        BY <1>12, <4>1, <4>2
    <3>3. Snapshot(r, e) /\ Passed(e) /\ Outcome(e, s)
      BY <1>3, <1>12, <2>2, <3>2, <3>c DEF Snapshot, Passed, HasCertificate, ProvenProbe, Outcome, Stages
    <3> QED
      BY <1>2, <1>4, <1>12, <2>2, <3>1, <3>3, SentNothing
  <2> QED
    BY <2>1, <2>2
<1> QED
  BY <1>1, <1>8, <1>9, <1>10, <1>11, <1>12 DEF authFilterLocal

\* A provider found in the cache verifies the audience of the document, not of another one.
LEMMA ProviderStep ==
  ASSUME NEW r \in Requests, CacheInv, ServedInv, oauthProviderForIssuer(r)
  PROVE  ServedInv'
<1>1. PICK f : f = exchange[r]
  OBVIOUS
<1>2. PICK s : s = sent[r]
  OBVIOUS
<1>3. /\ Snapshot(r, f) /\ Passed(f) /\ Outcome(f, s) /\ f.stage = "provider" /\ exchange[r].stage = "provider"
      /\ IsExchange(f)
  BY <1>1, <1>2 DEF ServedInv, oauthProviderForIssuer, At, Snapshot
<1>4. UNCHANGED sent
  BY DEF oauthProviderForIssuer, unchangedBesidesExchange
<1>5. CASE f.policy.audience \in DOMAIN providers
           /\ Update(r, [f EXCEPT !.stage = "verify", !.provider = providers[f.policy.audience]])
  <2>1. PICK p : p = providers[f.policy.audience]
    OBVIOUS
  <2>2. p = f.policy.audience
    BY <1>5, <2>1 DEF CacheInv
  <2>3. PICK e : e = [f EXCEPT !.stage = "verify", !.provider = p]
    OBVIOUS
  <2>4. /\ e.stage = "verify" /\ e.shape = f.shape /\ e.policy = f.policy /\ e.identity = f.identity
        /\ e.allowed = f.allowed /\ e.skipAudit = f.skipAudit /\ e.provider = p /\ IsExchange(e)
    BY <1>3, <2>3 DEF IsExchange
  <2>5. Snapshot(r, e) /\ Passed(e) /\ Outcome(e, s)
    BY <1>3, <2>2, <2>4 DEF Snapshot, Passed, HasCertificate, ProvenProbe, Outcome, Stages
  <2> QED
    BY <1>2, <1>4, <1>5, <2>1, <2>3, <2>5, SentNothing
<1>6. CASE Update(r, [f EXCEPT !.stage = "fetched"])
  <2>1. PICK e : e = [f EXCEPT !.stage = "fetched"]
    OBVIOUS
  <2>2. /\ e.stage = "fetched" /\ e.shape = f.shape /\ e.policy = f.policy /\ e.identity = f.identity
        /\ e.allowed = f.allowed /\ e.skipAudit = f.skipAudit /\ IsExchange(e)
    BY <1>3, <2>1, StageMoved
  <2>3. Snapshot(r, e) /\ Passed(e) /\ Outcome(e, s)
    BY <1>3, <2>2 DEF Snapshot, Passed, HasCertificate, ProvenProbe, Outcome, Stages
  <2> QED
    BY <1>2, <1>4, <1>6, <2>1, <2>3, SentNothing
<1>7. CASE Update(r, Deny(r, "oauth_provider_unavailable", 503))
  <2>1. PICK e : e = Deny(r, "oauth_provider_unavailable", 503)
    OBVIOUS
  <2>2. Snapshot(r, e) /\ Passed(e) /\ Outcome(e, sent[r])
    BY <1>3, <2>1, DenialSound
  <2> QED
    BY <1>4, <1>7, <2>1, <2>2, SentNothing
<1> QED
  BY <1>1, <1>5, <1>6, <1>7 DEF oauthProviderForIssuer

\* The same of a provider fetched without the lock, whoever stores it first.
LEMMA StoreStep ==
  ASSUME NEW r \in Requests, CacheInv, ServedInv, storeProvider(r)
  PROVE  CacheInv' /\ ServedInv'
<1>1. PICK f : f = exchange[r]
  OBVIOUS
<1>2. PICK s : s = sent[r]
  OBVIOUS
<1>3. /\ Snapshot(r, f) /\ Passed(f) /\ Outcome(f, s) /\ f.stage = "fetched" /\ IsExchange(f)
      /\ f.policy \in Documents /\ f.policy.valid /\ UsesOAuth(f.policy)
  BY <1>1, <1>2 DEF ServedInv, storeProvider, At, Snapshot, Passed, HasCertificate, ProvenProbe
<1>4. PICK key : key = f.policy.audience
  OBVIOUS
<1>5. key # None
  BY <1>3, <1>4, GatewayAssumption DEF UsesOAuth, None
<1>6. UNCHANGED <<sent, policyFile, policyState, sessionView>>
  BY DEF storeProvider
<1>7. ASSUME NEW p, p = key, Update(r, [f EXCEPT !.stage = "verify", !.provider = p])
      PROVE  ServedInv'
  <2>1. PICK e : e = [f EXCEPT !.stage = "verify", !.provider = p]
    OBVIOUS
  <2>2. /\ e.stage = "verify" /\ e.shape = f.shape /\ e.policy = f.policy /\ e.identity = f.identity
        /\ e.allowed = f.allowed /\ e.skipAudit = f.skipAudit /\ e.provider = p /\ IsExchange(e)
    BY <1>3, <2>1 DEF IsExchange
  <2>3. Snapshot(r, e) /\ Passed(e) /\ Outcome(e, s)
    BY <1>3, <1>4, <1>7, <2>2 DEF Snapshot, Passed, HasCertificate, ProvenProbe, Outcome, Stages
  <2> QED
    BY <1>2, <1>6, <1>7, <2>1, <2>3, SentNothing
<1>8. CASE key \in DOMAIN providers
  <2>1. PICK p : p = providers[key]
    OBVIOUS
  <2>2. p = key
    BY <1>8, <2>1 DEF CacheInv
  <2>3. Update(r, [f EXCEPT !.stage = "verify", !.provider = p]) /\ UNCHANGED providers
    BY <1>1, <1>4, <1>8, <2>1 DEF storeProvider
  <2>4. CacheInv'
    BY <1>6, <2>3 DEF CacheInv
  <2> QED
    BY <1>7, <2>2, <2>3, <2>4
<1>9. CASE key \notin DOMAIN providers
  <2>1. Update(r, [f EXCEPT !.stage = "verify", !.provider = key])
    BY <1>1, <1>4, <1>9 DEF storeProvider
  <2>2. providers' = [k \in DOMAIN providers \cup {key} |-> IF k = key THEN key ELSE providers[k]]
    BY <1>1, <1>4, <1>9 DEF storeProvider
  <2>3. \A a \in DOMAIN providers' : a # None /\ providers'[a] = a
    BY <1>5, <2>2 DEF CacheInv
  <2>4. CacheInv'
    BY <1>6, <2>3 DEF CacheInv
  <2> QED
    BY <1>7, <2>1, <2>4
<1> QED
  BY <1>8, <1>9

\* OAuth: whom the token is of, and the session it or the certificate is bound to.
LEMMA VerifyStep ==
  ASSUME NEW r \in Requests, CacheInv, ServedInv, authenticateOAuth(r)
  PROVE  ServedInv'
<1>1. PICK f : f = exchange[r]
  OBVIOUS
<1>2. PICK s : s = sent[r]
  OBVIOUS
<1>3. /\ Snapshot(r, f) /\ Passed(f) /\ Outcome(f, s) /\ f.stage = "verify" /\ exchange[r].stage = "verify"
      /\ IsExchange(f) /\ f.shape \in Shapes[r] /\ UsesOAuth(f.policy) /\ f.shape.token # NoToken
      /\ f.provider = f.policy.audience /\ (HasCertificate(f) => f.shape.ingress)
  BY <1>1, <1>2 DEF ServedInv, authenticateOAuth, At, Snapshot, Passed, HasCertificate, ProvenProbe
<1>4. UNCHANGED sent
  BY DEF authenticateOAuth, unchangedBesidesExchange
<1>5. ASSUME NEW reason, NEW status, Update(r, Deny(r, reason, status))
      PROVE  ServedInv'
  <2>1. PICK e : e = Deny(r, reason, status)
    OBVIOUS
  <2>2. Snapshot(r, e) /\ Passed(e) /\ Outcome(e, sent[r])
    BY <1>3, <2>1, DenialSound
  <2> QED
    BY <1>4, <1>5, <2>1, <2>2, SentNothing
<1>6. ASSUME NEW i, NEW e, Update(r, e), IsExchange(e), e.stage = "authz", e.shape = f.shape,
             e.policy = f.policy, e.identity = i, e.allowed = f.allowed, e.skipAudit = f.skipAudit,
             f.shape.token.genuine, f.shape.token.audience = f.provider,
             i.human = f.shape.token.human, i.bound # None => Sessions[i.bound] = i.human,
             i.agent = LiveInventory => ProvenProbe(f)
      PROVE  ServedInv'
  <2>1. Authenticated(e)
    BY <1>3, <1>6 DEF Authenticated, UsesOAuth, UsesDelegatedHeaders
  <2>2. Snapshot(r, e) /\ Passed(e) /\ Outcome(e, s)
    BY <1>3, <1>6, <2>1 DEF Snapshot, Passed, HasCertificate, ProvenProbe, Outcome, Stages
  <2> QED
    BY <1>2, <1>4, <1>6, <2>2, SentNothing
<1>7. PICK t : t = TokenIdentity(f)
  OBVIOUS
<1>8. t = [human |-> f.shape.token.human, agent |-> f.shape.token.agent, session |-> f.shape.token.sid,
           bound |-> None]
  BY <1>7 DEF TokenIdentity
<1>9. PICK ok : ok = [f EXCEPT !.stage = "authz", !.identity = t]
  OBVIOUS
<1>10. /\ ok.stage = "authz" /\ ok.shape = f.shape /\ ok.policy = f.policy /\ ok.identity = t
       /\ ok.allowed = f.allowed /\ ok.skipAudit = f.skipAudit /\ IsExchange(ok)
  BY <1>3, <1>9 DEF IsExchange
<1>11. CASE ~f.shape.token.genuine \/ f.shape.token.audience # f.provider
  <2>1. Update(r, Deny(r, "invalid_token", 401))
    BY <1>1, <1>11 DEF authenticateOAuth
  <2> QED
    BY <1>5, <2>1
<1>12. ASSUME f.shape.token.genuine, f.shape.token.audience = f.provider
       PROVE  ServedInv'
  <2>p. t.agent = LiveInventory => ProvenProbe(f)
    BY <1>3, <1>8, <1>12 DEF ProvenProbe
  <2>d. ASSUME NEW reason, Update(r, [Deny(r, reason, AuthStatus(reason)) EXCEPT !.identity = t])
        PROVE  ServedInv'
    <3>1. PICK e : e = [Deny(r, reason, AuthStatus(reason)) EXCEPT !.identity = t]
      OBVIOUS
    <3>2. PICK g : g = [f EXCEPT !.identity = t]
      OBVIOUS
    <3>3. g.shape = f.shape /\ g.policy = f.policy
      BY <1>3, <3>2 DEF IsExchange
    <3>4. t.agent = LiveInventory => ProvenProbe(g)
      BY <2>p, <3>3 DEF ProvenProbe
    <3>5. Snapshot(r, e) /\ Passed(e) /\ Outcome(e, sent[r])
      BY <1>1, <1>3, <3>1, <3>2, <3>4, NamedDenialSound
    <3> QED
      BY <1>4, <2>d, <3>1, <3>5, SentNothing
  <2>1. CASE HasCertificate(f) /\ certificateOAuthMismatch(f)
    <3>1. PICK reason : reason = "certificate_oauth_subject_mismatch"
      OBVIOUS
    <3>2. Update(r, [Deny(r, reason, AuthStatus(reason)) EXCEPT !.identity = t])
      BY <1>1, <1>7, <1>12, <2>1, <3>1 DEF authenticateOAuth
    <3> QED
      BY <2>d, <3>2
  <2>2. CASE HasCertificate(f) /\ ~certificateOAuthMismatch(f)
    <3>1. PICK i : i = CertificateIdentity(f)
      OBVIOUS
    <3>2. PICK e : e = [ok EXCEPT !.identity = i]
      OBVIOUS
    <3>3. Update(r, e)
      BY <1>1, <1>7, <1>9, <1>12, <2>2, <3>1, <3>2 DEF authenticateOAuth
    <3>4. /\ e.stage = "authz" /\ e.shape = f.shape /\ e.policy = f.policy /\ e.identity = i
          /\ e.allowed = f.allowed /\ e.skipAudit = f.skipAudit /\ IsExchange(e)
      BY <1>10, <3>2 DEF IsExchange
    <3>5. /\ i.human = f.shape.token.human
          /\ i.bound # None => Sessions[i.bound] = i.human
      BY <2>2, <3>1 DEF CertificateIdentity, certificateOAuthMismatch
    <3>6. i.agent = LiveInventory => ProvenProbe(f)
      BY <1>3, <2>2, <3>1 DEF CertificateIdentity, ProvenProbe, HasCertificate
    <3> QED
      BY <1>6, <1>12, <3>3, <3>4, <3>5, <3>6
  <2>3. CASE ~HasCertificate(f) /\ ChecksSession(f) /\ SessionProblem(f) # ""
    <3>1. CASE f.policy.session = "optional" /\ SessionProblem(f) # "policy_unavailable"
      <4>1. Update(r, ok)
        BY <1>1, <1>7, <1>9, <1>12, <2>3, <3>1 DEF authenticateOAuth
      <4> QED
        BY <1>6, <1>8, <1>10, <1>12, <2>p, <4>1
    <3>2. CASE ~(f.policy.session = "optional" /\ SessionProblem(f) # "policy_unavailable")
      <4>1. PICK reason : reason = SessionProblem(f)
        OBVIOUS
      <4>2. Update(r, [Deny(r, reason, AuthStatus(reason)) EXCEPT !.identity = t])
        BY <1>1, <1>7, <1>12, <2>3, <3>2, <4>1 DEF authenticateOAuth
      <4> QED
        BY <2>d, <4>2
    <3> QED
      BY <3>1, <3>2
  <2>4. CASE ~HasCertificate(f) /\ ~(ChecksSession(f) /\ SessionProblem(f) # "")
    <3>1. PICK b : b = IF ChecksSession(f) THEN f.shape.token.sid ELSE None
      OBVIOUS
    <3>2. PICK i : i = [t EXCEPT !.bound = b]
      OBVIOUS
    <3>3. PICK e : e = [ok EXCEPT !.identity = i]
      OBVIOUS
    <3>4. Update(r, [ok EXCEPT !.identity.bound = b])
      BY <1>1, <1>7, <1>9, <1>12, <2>4, <3>1 DEF authenticateOAuth
    <3>5. [ok EXCEPT !.identity.bound = b] = e
      BY <1>10, <3>2, <3>3 DEF IsExchange
    <3>6. /\ e.stage = "authz" /\ e.shape = f.shape /\ e.policy = f.policy /\ e.identity = i
          /\ e.allowed = f.allowed /\ e.skipAudit = f.skipAudit /\ IsExchange(e)
      BY <1>10, <3>3 DEF IsExchange
    <3>7. i.human = f.shape.token.human /\ i.bound = b /\ i.agent = t.agent
      BY <1>8, <3>2
    <3>8. b # None => Sessions[b] = f.shape.token.human
      BY <2>4, <3>1 DEF SessionProblem
    <3> QED
      BY <1>6, <1>12, <2>p, <3>4, <3>5, <3>6, <3>7, <3>8
  <2> QED
    BY <2>1, <2>2, <2>3, <2>4
<1> QED
  BY <1>11, <1>12

\* Past authorization a tool call is granted by the document that authenticated it.
LEMMA AuthzStep ==
  ASSUME NEW r \in Requests, CacheInv, ServedInv, authzFilter(r)
  PROVE  ServedInv'
<1>1. PICK f : f = exchange[r]
  OBVIOUS
<1>2. PICK s : s = sent[r]
  OBVIOUS
<1>3. /\ Snapshot(r, f) /\ Passed(f) /\ Outcome(f, s) /\ f.stage = "authz" /\ exchange[r].stage = "authz"
      /\ IsExchange(f) /\ Authenticated(f)
  BY <1>1, <1>2 DEF ServedInv, authzFilter, At, Snapshot, Passed, HasCertificate, ProvenProbe
<1>4. UNCHANGED sent
  BY DEF authzFilter, unchangedBesidesExchange
<1>5. ASSUME NEW reason, NEW status, Update(r, Deny(r, reason, status))
      PROVE  ServedInv'
  <2>1. PICK e : e = Deny(r, reason, status)
    OBVIOUS
  <2>2. Snapshot(r, e) /\ Passed(e) /\ Outcome(e, sent[r])
    BY <1>3, <2>1, DenialSound
  <2> QED
    BY <1>4, <1>5, <2>1, <2>2, SentNothing
<1>6. ASSUME Update(r, [f EXCEPT !.stage = "upstream", !.allowed = TRUE, !.reason = "allowed"]),
             f.shape.kind = "tool" => grantsTool(f.policy, f.identity)
      PROVE  ServedInv'
  <2>1. PICK e : e = [f EXCEPT !.stage = "upstream", !.allowed = TRUE, !.reason = "allowed"]
    OBVIOUS
  <2>2. /\ e.stage = "upstream" /\ e.shape = f.shape /\ e.policy = f.policy /\ e.identity = f.identity
        /\ e.allowed = TRUE /\ e.skipAudit = f.skipAudit /\ IsExchange(e)
    BY <1>3, <2>1 DEF IsExchange
  <2>3. Authorized(e)
    <3>1. Authenticated(e)
      BY <1>3, <2>2 DEF Authenticated
    <3>2. e.shape.kind = "tool" => grantsTool(e.policy, e.identity)
      BY <1>6, <2>2
    <3> QED
      BY <2>2, <3>1, <3>2 DEF Authorized
  <2>4. Snapshot(r, e) /\ Passed(e) /\ Outcome(e, s)
    BY <1>3, <2>2, <2>3 DEF Snapshot, Passed, HasCertificate, ProvenProbe, Outcome, Stages
  <2> QED
    BY <1>2, <1>4, <1>6, <2>1, <2>4, SentNothing
<1>7. \/ \E reason, status : Update(r, Deny(r, reason, status))
      \/ /\ Update(r, [f EXCEPT !.stage = "upstream", !.allowed = TRUE, !.reason = "allowed"])
         /\ f.shape.kind = "tool" => grantsTool(f.policy, f.identity)
  <2>1. CASE ~ToolCall(r) /\ ~Indeterminate(r)
    BY <1>1, <2>1 DEF authzFilter, ToolCall
  <2>2. CASE ToolCall(r) \/ Indeterminate(r)
    <3>1. CASE f.policy.session # "none" /\ ~f.policy.observe /\ ~sessionView.fresh
      BY <1>1, <2>2, <3>1 DEF authzFilter
    <3>2. CASE ~(f.policy.session # "none" /\ ~f.policy.observe /\ ~sessionView.fresh) /\ Indeterminate(r)
      BY <1>1, <2>2, <3>2 DEF authzFilter
    <3>3. CASE ~(f.policy.session # "none" /\ ~f.policy.observe /\ ~sessionView.fresh) /\ ~Indeterminate(r)
      BY <1>1, <2>2, <3>3 DEF authzFilter
    <3> QED
      BY <3>1, <3>2, <3>3
  <2> QED
    BY <2>1, <2>2
<1> QED
  BY <1>5, <1>6, <1>7

\* Credentials are asked for the bound session, which is the caller's own.
LEMMA InjectStep ==
  ASSUME NEW r \in Requests, CacheInv, ServedInv, injectCredentials(r)
  PROVE  ServedInv'
<1>1. PICK f : f = exchange[r]
  OBVIOUS
<1>2. PICK s : s = sent[r]
  OBVIOUS
<1>3. /\ Snapshot(r, f) /\ Passed(f) /\ Outcome(f, s) /\ f.stage = "upstream" /\ exchange[r].stage = "upstream"
      /\ IsExchange(f) /\ Authorized(f) /\ IsSent(s) /\ f.policy \in Documents
  BY <1>1, <1>2 DEF ServedInv, injectCredentials, At, Snapshot, Passed, HasCertificate, ProvenProbe, Outcome
<1>4. CASE /\ f.policy.broker /\ f.shape.kind = "tool" => f.identity.bound # None
           /\ Update(r, [f EXCEPT !.stage = "proxy"])
           /\ sent' = [sent EXCEPT ![r].broker = IF f.policy.broker /\ f.shape.kind = "tool" THEN f.identity.bound
                                                                                           ELSE None]
  <2>1. PICK e : e = [f EXCEPT !.stage = "proxy"]
    OBVIOUS
  <2>2. /\ e.stage = "proxy" /\ e.shape = f.shape /\ e.policy = f.policy /\ e.identity = f.identity
        /\ e.allowed = f.allowed /\ e.skipAudit = f.skipAudit /\ IsExchange(e)
    BY <1>3, <2>1, StageMoved
  <2>3. PICK b : b = IF f.policy.broker /\ f.shape.kind = "tool" THEN f.identity.bound ELSE None
    OBVIOUS
  <2>4. PICK t : t = [s EXCEPT !.broker = b]
    OBVIOUS
  <2>5. t.forwarded = s.forwarded /\ t.audits = s.audits /\ t.broker = b /\ IsSent(t)
    BY <1>3, <2>4 DEF IsSent
  <2>6. sent' = [sent EXCEPT ![r] = t]
    BY <1>2, <1>4, <2>3, <2>4
  <2>7. b # None => f.shape.kind = "tool" /\ f.policy.broker /\ Sessions[b] = f.identity.human
    BY <1>3, <2>3 DEF Authorized, Authenticated
  <2>8. Authorized(e)
    BY <1>3, <2>2 DEF Authorized, Authenticated
  <2>9. Snapshot(r, e) /\ Passed(e)
    BY <1>3, <2>2, <2>8 DEF Snapshot, Passed, HasCertificate, ProvenProbe, Stages
  <2>10. Outcome(e, t)
    BY <1>3, <2>2, <2>5, <2>7 DEF Outcome
  <2> QED
    BY <1>4, <2>1, <2>6, <2>9, <2>10, ServedStep DEF Update
<1>5. CASE Update(r, Deny(r, "credential_unavailable", 503)) /\ UNCHANGED sent
  <2>1. PICK e : e = Deny(r, "credential_unavailable", 503)
    OBVIOUS
  <2>2. Snapshot(r, e) /\ Passed(e) /\ Outcome(e, sent[r])
    BY <1>3, <2>1, DenialSound
  <2> QED
    BY <1>5, <2>1, <2>2, SentNothing
<1> QED
  BY <1>1, <1>4, <1>5 DEF injectCredentials, ToolCall

\* A request leaves at most once: only the proxy stage sends it, and it leaves that stage.
LEMMA ForwardStep ==
  ASSUME NEW r \in Requests, CacheInv, ServedInv, forwardUpstream(r)
  PROVE  ServedInv'
<1>1. PICK f : f = exchange[r]
  OBVIOUS
<1>2. PICK s : s = sent[r]
  OBVIOUS
<1>3. /\ Snapshot(r, f) /\ Passed(f) /\ Outcome(f, s) /\ f.stage = "proxy" /\ exchange[r].stage = "proxy"
      /\ IsExchange(f) /\ Authorized(f) /\ IsSent(s) /\ s.forwarded = 0
  BY <1>1, <1>2 DEF ServedInv, forwardUpstream, At, Snapshot, Passed, HasCertificate, ProvenProbe, Outcome
<1>4. CASE /\ Update(r, [f EXCEPT !.stage = "reply"])
           /\ sent' = [sent EXCEPT ![r].forwarded = @ + 1]
  <2>1. PICK e : e = [f EXCEPT !.stage = "reply"]
    OBVIOUS
  <2>2. /\ e.stage = "reply" /\ e.shape = f.shape /\ e.policy = f.policy /\ e.identity = f.identity
        /\ e.allowed = f.allowed /\ e.skipAudit = f.skipAudit /\ IsExchange(e)
    BY <1>3, <2>1, StageMoved
  <2>3. PICK t : t = [s EXCEPT !.forwarded = @ + 1]
    OBVIOUS
  <2>4. t.forwarded = 1 /\ t.audits = s.audits /\ t.broker = s.broker /\ IsSent(t)
    BY <1>3, <2>3 DEF IsSent
  <2>5. sent' = [sent EXCEPT ![r] = t]
    BY <1>2, <1>4, <2>3
  <2>6. Authorized(e)
    BY <1>3, <2>2 DEF Authorized, Authenticated
  <2>7. Snapshot(r, e) /\ Passed(e)
    BY <1>3, <2>2, <2>6 DEF Snapshot, Passed, HasCertificate, ProvenProbe, Stages
  <2>8. Outcome(e, t)
    BY <1>3, <2>2, <2>4, <2>6 DEF Outcome
  <2> QED
    BY <1>4, <2>1, <2>5, <2>7, <2>8, ServedStep DEF Update
<1>5. CASE Update(r, Deny(r, "upstream_unavailable", 503)) /\ UNCHANGED sent
  <2>1. PICK e : e = Deny(r, "upstream_unavailable", 503)
    OBVIOUS
  <2>2. Snapshot(r, e) /\ Passed(e) /\ Outcome(e, sent[r])
    BY <1>3, <2>1, DenialSound
  <2> QED
    BY <1>5, <2>1, <2>2, SentNothing
<1> QED
  BY <1>1, <1>4, <1>5 DEF forwardUpstream

\* Whatever the server answers, the exchange was allowed and forwarded.
LEMMA ReplyStep ==
  ASSUME NEW r \in Requests, CacheInv, ServedInv, upstreamReply(r)
  PROVE  ServedInv'
<1>1. PICK f : f = exchange[r]
  OBVIOUS
<1>2. PICK s : s = sent[r]
  OBVIOUS
<1>3. /\ Snapshot(r, f) /\ Passed(f) /\ Outcome(f, s) /\ f.stage = "reply" /\ IsExchange(f) /\ Authorized(f)
  BY <1>1, <1>2 DEF ServedInv, upstreamReply, At, Snapshot, Passed, HasCertificate, ProvenProbe
<1>4. PICK status : Update(r, [f EXCEPT !.stage = "audit", !.status = status])
  BY <1>1 DEF upstreamReply
<1>5. PICK e : e = [f EXCEPT !.stage = "audit", !.status = status]
  OBVIOUS
<1>6. /\ e.stage = "audit" /\ e.shape = f.shape /\ e.policy = f.policy /\ e.identity = f.identity
      /\ e.allowed = f.allowed /\ e.skipAudit = f.skipAudit /\ IsExchange(e)
  BY <1>3, <1>5 DEF IsExchange
<1>7. Authorized(e)
  BY <1>3, <1>6 DEF Authorized, Authenticated
<1>8. Snapshot(r, e) /\ Passed(e)
  BY <1>3, <1>6 DEF Snapshot, Passed, HasCertificate, ProvenProbe, Stages
<1>9. Outcome(e, s)
  BY <1>3, <1>6, <1>7 DEF Outcome
<1> QED
  BY <1>2, <1>4, <1>5, <1>8, <1>9, SentNothing DEF upstreamReply, unchangedBesidesExchange

\* The one audit of an exchange: nothing was audited before, so it is event 0.
LEMMA AuditStep ==
  ASSUME NEW r \in Requests, CacheInv, ServedInv, emitAuditFromExchange(r)
  PROVE  ServedInv'
<1>1. PICK f : f = exchange[r]
  OBVIOUS
<1>2. PICK s : s = sent[r]
  OBVIOUS
<1>3. /\ Snapshot(r, f) /\ Passed(f) /\ Outcome(f, s) /\ f.stage = "audit" /\ IsExchange(f) /\ IsSent(s)
      /\ s.audits = {}
  BY <1>1, <1>2 DEF ServedInv, emitAuditFromExchange, At, Snapshot, Passed, HasCertificate, ProvenProbe, Outcome
<1>4. PICK e : e = [f EXCEPT !.stage = "done"]
  OBVIOUS
<1>5. /\ e.stage = "done" /\ e.shape = f.shape /\ e.policy = f.policy /\ e.identity = f.identity
      /\ e.allowed = f.allowed /\ e.skipAudit = f.skipAudit /\ IsExchange(e)
  BY <1>3, <1>4, StageMoved
<1>6. exchange' = [exchange EXCEPT ![r] = e]
  BY <1>1, <1>4 DEF emitAuditFromExchange, Update
<1>7. Snapshot(r, e) /\ Passed(e)
  BY <1>3, <1>5 DEF Snapshot, Passed, HasCertificate, ProvenProbe, Stages
<1>8. Authorized(f) => Authorized(e)
  BY <1>5 DEF Authorized, Authenticated
<1>9. CASE f.skipAudit \/ f.identity.agent = LiveInventory \/ f.shape.kind \in {"get", "foreign"}
  <2>1. sent' = [sent EXCEPT ![r] = s]
    BY <1>1, <1>2, <1>9 DEF emitAuditFromExchange, ServedInv
  <2>2. f.identity.agent = LiveInventory \/ f.shape.kind \notin {"tool", "list", "unparsable"}
    BY <1>3, <1>9 DEF Snapshot
  <2>3. Outcome(e, s)
    BY <1>3, <1>5, <1>8, <2>2 DEF Outcome
  <2> QED
    BY <1>6, <1>7, <2>1, <2>3, ServedStep
<1>10. CASE ~(f.skipAudit \/ f.identity.agent = LiveInventory \/ f.shape.kind \in {"get", "foreign"})
  <2>1. PICK a : a = {<<0, f.allowed>>}
    OBVIOUS
  <2>2. PICK t : t = [s EXCEPT !.audits = a]
    OBVIOUS
  <2>3. t.forwarded = s.forwarded /\ t.audits = a /\ t.broker = s.broker /\ IsSent(t)
    BY <1>3, <2>2 DEF IsSent
  <2>4. s.audits \cup {<<Cardinality(s.audits), f.allowed>>} = a
    BY <1>3, <2>1, FS_EmptySet
  <2>5. sent' = [sent EXCEPT ![r].audits = @ \cup {<<Cardinality(@), f.allowed>>}]
    BY <1>1, <1>10 DEF emitAuditFromExchange
  <2>6. sent' = [sent EXCEPT ![r] = t]
    BY <1>2, <2>2, <2>4, <2>5
  <2>7. Outcome(e, t)
    BY <1>3, <1>5, <1>8, <1>10, <2>1, <2>3 DEF Outcome
  <2> QED
    BY <1>6, <1>7, <2>6, <2>7, ServedStep
<1> QED
  BY <1>9, <1>10

-----------------------------------------------------------------------------
\* A gateway that serves has loaded a valid document and served nobody.
LEMMA GatewayInitially == GatewayInit => GatewayInv
<1> SUFFICES ASSUME GatewayInit PROVE GatewayInv
  OBVIOUS
<1>1. CacheInv
  BY DEF GatewayInit, CacheInv, loadPolicy
<1>2. ASSUME NEW r \in Requests
      PROVE  Snapshot(r, exchange[r]) /\ Passed(exchange[r]) /\ Outcome(exchange[r], sent[r])
  <2>1. exchange[r] = NoExchange /\ sent[r] = Nothing
    BY DEF GatewayInit
  <2>2. PICK e : e = NoExchange
    OBVIOUS
  <2>3. PICK s : s = Nothing
    OBVIOUS
  <2>4. /\ e.stage = "absent" /\ e.identity = NoIdentity /\ e.allowed = FALSE /\ e.skipAudit = FALSE /\ IsExchange(e)
        /\ s.forwarded = 0 /\ s.audits = {} /\ s.broker = None /\ IsSent(s)
    BY <2>2, <2>3 DEF NoExchange, Nothing, IsExchange, IsSent
  <2>5. Snapshot(r, e)
    BY <2>4 DEF Snapshot, Stages
  <2>6. Passed(e)
    BY <2>4, NobodyProbes DEF Passed, HasCertificate
  <2>7. Outcome(e, s)
    BY <2>4 DEF Outcome
  <2> QED
    BY <2>1, <2>2, <2>3, <2>5, <2>6, <2>7
<1>3. ServedInv
  <2>1. /\ DOMAIN exchange = Requests /\ exchange = [r \in Requests |-> exchange[r]]
        /\ sent = [r \in Requests |-> sent[r]]
    BY DEF GatewayInit
  <2> QED
    BY <1>2, <2>1 DEF ServedInv
<1> QED
  BY <1>1, <1>3 DEF GatewayInv

\* Every step keeps the invariant: rewrites, reloads, revocations and a stale view change no exchange,
\* and a reload that fails keeps the last good document.
LEMMA GatewayKept ==
  ASSUME GatewayInv, [GatewayNext]_gatewayVars
  PROVE  GatewayInv'
<1>1. CacheInv /\ ServedInv
  BY DEF GatewayInv
<1>2. ASSUME UNCHANGED <<exchange, sent>>
      PROVE  ServedInv'
  BY <1>1, <1>2 DEF ServedInv
<1>3. ASSUME UNCHANGED <<policyFile, policyState, sessionView, providers>>
      PROVE  CacheInv'
  BY <1>1, <1>3 DEF CacheInv
<1>4. CASE reloadPolicy
  <2>1. PICK p : p = IF loadPolicy(policyFile) THEN [policy |-> policyFile, err |-> FALSE]
                                               ELSE [policyState EXCEPT !.err = TRUE]
    OBVIOUS
  <2>2. policyState' = p
    BY <1>4, <2>1 DEF reloadPolicy
  <2>3. p.policy \in Documents /\ p.policy.valid /\ p = [policy |-> p.policy, err |-> p.err] /\ p.err \in BOOLEAN
    <3>1. CASE loadPolicy(policyFile)
      BY <1>1, <2>1, <3>1 DEF CacheInv, loadPolicy
    <3>2. CASE ~loadPolicy(policyFile)
      BY <1>1, <2>1, <3>2 DEF CacheInv
    <3> QED
      BY <3>1, <3>2
  <2>4. UNCHANGED <<policyFile, sessionView, providers, exchange, sent>>
    BY <1>4 DEF reloadPolicy
  <2>5. CacheInv'
    BY <1>1, <2>2, <2>3, <2>4 DEF CacheInv
  <2> QED
    BY <1>2, <2>4, <2>5 DEF GatewayInv
<1>5. ASSUME UNCHANGED <<policyFile, policyState, providers, exchange, sent>>,
             sessionView' = [revoked |-> sessionView'.revoked, fresh |-> sessionView'.fresh],
             sessionView'.revoked \subseteq DOMAIN Sessions
      PROVE  GatewayInv'
  <2>1. CacheInv'
    BY <1>1, <1>5 DEF CacheInv
  <2> QED
    BY <1>2, <1>5, <2>1 DEF GatewayInv
<1>6. CASE ViewGoesStale
  <2>1. PICK v : v = [sessionView EXCEPT !.fresh = FALSE]
    OBVIOUS
  <2>2. v = [revoked |-> v.revoked, fresh |-> v.fresh] /\ v.revoked \subseteq DOMAIN Sessions
    BY <1>1, <2>1 DEF CacheInv
  <2> QED
    BY <1>5, <1>6, <2>1, <2>2 DEF ViewGoesStale
<1>7. CASE ViewRecovers
  <2>1. PICK v : v = [sessionView EXCEPT !.fresh = TRUE]
    OBVIOUS
  <2>2. v = [revoked |-> v.revoked, fresh |-> v.fresh] /\ v.revoked \subseteq DOMAIN Sessions
    BY <1>1, <2>1 DEF CacheInv
  <2> QED
    BY <1>5, <1>7, <2>1, <2>2 DEF ViewRecovers
<1>8. ASSUME NEW s \in DOMAIN Sessions, Revoke(s)
      PROVE  GatewayInv'
  <2>1. PICK v : v = [sessionView EXCEPT !.revoked = @ \cup {s}]
    OBVIOUS
  <2>2. v = [revoked |-> v.revoked, fresh |-> v.fresh] /\ v.revoked \subseteq DOMAIN Sessions
    BY <1>1, <2>1 DEF CacheInv
  <2> QED
    BY <1>5, <1>8, <2>1, <2>2 DEF Revoke
<1>9. ASSUME NEW d \in Documents, WritePolicy(d)
      PROVE  GatewayInv'
  <2>1. CacheInv'
    BY <1>1, <1>9 DEF CacheInv, WritePolicy
  <2> QED
    BY <1>2, <1>9, <2>1 DEF GatewayInv, WritePolicy
<1>10. ASSUME NEW r \in Requests, Serve(r)
       PROVE  GatewayInv'
  <2>1. CASE storeProvider(r)
    BY <1>1, <2>1, StoreStep DEF GatewayInv
  <2>2. CASE ~storeProvider(r)
    <3>1. ServedInv'
      BY <1>1, <1>10, <2>2, PolicyStep, AuthStep, ProviderStep, VerifyStep, AuthzStep, InjectStep, ForwardStep,
         ReplyStep, AuditStep DEF Serve
    <3>2. UNCHANGED <<policyFile, policyState, sessionView, providers>>
      BY <1>10, <2>2 DEF Serve, policyFilter, authFilterLocal, oauthProviderForIssuer, authenticateOAuth, authzFilter,
         injectCredentials, forwardUpstream, upstreamReply, emitAuditFromExchange, unchangedBesidesExchange
    <3> QED
      BY <1>3, <3>1, <3>2 DEF GatewayInv
  <2> QED
    BY <2>1, <2>2
<1>11. ASSUME NEW r \in Requests, NEW s \in Shapes[r], inspectFilter(r, s)
       PROVE  GatewayInv'
  <2>1. UNCHANGED <<policyFile, policyState, sessionView, providers>>
    BY <1>11 DEF inspectFilter, unchangedBesidesExchange
  <2> QED
    BY <1>1, <1>3, <1>11, <2>1, InspectStep DEF GatewayInv
<1>12. CASE UNCHANGED gatewayVars
  BY <1>2, <1>3, <1>12 DEF gatewayVars, GatewayInv
<1> QED
  BY <1>4, <1>6, <1>7, <1>8, <1>9, <1>10, <1>11, <1>12 DEF GatewayNext

\* The invariant implies the property.
LEMMA GatewayImplies == GatewayInv => CallsAuthorized
<1> SUFFICES ASSUME GatewayInv PROVE CallsAuthorized
  OBVIOUS
<1>1. CacheInv /\ ServedInv
  BY DEF GatewayInv
<1>2. \A r \in Requests : Snapshot(r, exchange[r]) /\ Passed(exchange[r]) /\ Outcome(exchange[r], sent[r])
  BY <1>1 DEF ServedInv
<1>3. GatewayTypeOK
  <2>1. ASSUME NEW r \in Requests
        PROVE  exchange[r].stage \in Stages /\ sent[r].forwarded \in 0..1
    <3>1. PICK e : e = exchange[r]
      OBVIOUS
    <3>2. PICK s : s = sent[r]
      OBVIOUS
    <3>3. Snapshot(r, e) /\ Outcome(e, s)
      BY <1>2, <3>1, <3>2
    <3>4. e.stage \in Stages /\ s.forwarded \in {0, 1}
      BY <3>3 DEF Snapshot, Outcome
    <3> QED
      BY <3>1, <3>2, <3>4
  <2> QED
    BY <1>1, <2>1 DEF GatewayTypeOK, CacheInv
<1>4. ASSUME NEW r \in Requests, Forwarded(r)
      PROVE  /\ exchange[r].stage \in {"reply", "audit", "done"} /\ Authorized(exchange[r])
             /\ exchange[r].policy \in Documents /\ exchange[r].policy.valid
  <2>1. PICK e : e = exchange[r]
    OBVIOUS
  <2>2. PICK s : s = sent[r]
    OBVIOUS
  <2>3. Snapshot(r, e) /\ Outcome(e, s) /\ s.forwarded > 0
    BY <1>2, <1>4, <2>1, <2>2 DEF Forwarded
  <2>4. s.forwarded \in {0, 1}
    BY <2>3 DEF Outcome
  <2>5. s.forwarded = 1
    BY <2>3, <2>4
  <2>6. e.stage \in {"reply", "audit", "done"} /\ Authorized(e)
    BY <2>3, <2>5 DEF Outcome
  <2>7. e.policy \in Documents /\ e.policy.valid
    BY <2>3, <2>6 DEF Snapshot
  <2> QED
    BY <2>1, <2>6, <2>7
<1>5. ForwardedOnlyIfAuthorized
  BY <1>4 DEF ForwardedOnlyIfAuthorized, ToolCall, Authorized, Authenticated
<1>6. CredentialsForOwnSession
  BY <1>2 DEF CredentialsForOwnSession, Outcome, ToolCall
<1>7. AuditedOnce
  <2>1. ASSUME NEW r \in Requests
        PROVE  /\ sent[r].forwarded <= 1
               /\ At(r, "done") /\ exchange[r].shape.kind \in {"tool", "list", "unparsable"} =>
                     IF exchange[r].identity.agent = LiveInventory
                     THEN sent[r].audits = {} /\ ProvenProbe(exchange[r])
                     ELSE \E allowed \in BOOLEAN : sent[r].audits = {<<0, allowed>>} /\ (allowed <=> Forwarded(r))
    <3>1. PICK e : e = exchange[r]
      OBVIOUS
    <3>2. PICK s : s = sent[r]
      OBVIOUS
    <3>3. Snapshot(r, e) /\ Outcome(e, s) /\ (e.identity.agent = LiveInventory => ProvenProbe(e))
      BY <1>2, <3>1, <3>2 DEF Passed, HasCertificate
    <3>4. s.forwarded \in {0, 1} /\ e.allowed \in BOOLEAN
      BY <3>3 DEF Snapshot, Outcome
    <3>5. ASSUME e.stage = "done", e.shape.kind \in {"tool", "list", "unparsable"}
          PROVE  /\ s.audits = IF e.identity.agent = LiveInventory THEN {} ELSE {<<0, e.allowed>>}
                 /\ e.allowed <=> s.forwarded > 0
      BY <3>3, <3>4, <3>5 DEF Snapshot, Outcome, Authorized
    <3> QED
      BY <3>1, <3>2, <3>3, <3>4, <3>5 DEF At, Forwarded
  <2> QED
    BY <2>1 DEF AuditedOnce
<1>8. LastKnownGood
  BY <1>1 DEF CacheInv, LastKnownGood
<1> QED
  BY <1>3, <1>5, <1>6, <1>7, <1>8 DEF CallsAuthorized

\* A call is authorized once and whole, whatever changes while it passes the filters.
THEOREM CallsAreAuthorized == GatewaySpec => []CallsAuthorized
<1>1. GatewayInit => GatewayInv
  BY GatewayInitially
<1>2. GatewayInv /\ [GatewayNext]_gatewayVars => GatewayInv'
  BY GatewayKept
<1>3. GatewayInv => CallsAuthorized
  BY GatewayImplies
<1> QED
  BY <1>1, <1>2, <1>3, PTL DEF GatewaySpec
=============================================================================
