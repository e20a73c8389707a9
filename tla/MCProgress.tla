------------------------------ MODULE MCProgress ------------------------------
(* What must happen in the end: the loops, tickers and shutdowns of the        *)
(* gateway, the event processor and the update's image builds, each under the  *)
(* fairness its own scheduling gives.  They share no state: `part` says which  *)
(* of them a behaviour is about, and the others rest where they start.         *)
EXTENDS GatewayPipeline, GatewayReload, UpstreamResilience, AnalyticsDispatcher, ImageBuilds, EventProcessor

VARIABLE part
fileVars == <<gatewayVars, reloadVars>>
loopVars == <<upstreamVars, dispatcherVars, buildVars, processorVars>>
allVars == <<fileVars, loopVars, part>>

MCShapes == [r \in Requests |-> {}]
D(v, a, au) == [valid |-> v, observe |-> FALSE, auth |-> a, audience |-> au, session |-> "none", granted |-> {}, rendered |-> {}, broker |-> FALSE]
MCDocuments == {D(TRUE, "oauth", "A"), D(TRUE, "oauth", "B"), D(TRUE, "default", None), D(FALSE, "oauth", "A")}
MCSessions == [s \in {"s1"} |-> "ann"]
MCAgents == [s \in {"s1"} |-> "agent"]
MCBundles == {{}, {"old"}, {"old", "new"}, {"new"}}
TwoRpcs == [c \in Classes |-> IF c = "unary" THEN 2 ELSE 1]
MCCommits == [i \in Images |-> IF i = 1 THEN "head" ELSE "none"]

(* The key pair, the client CA bundle and the token are mounted and read apart. *)
Mounts == {"pair", "roots", "token"}
OneMount ==
    /\ part # "pair" => UNCHANGED certVars
    /\ part # "roots" => UNCHANGED caVars
    /\ part # "token" => UNCHANGED tokenVars
FilesIdle == GatewayInit /\ policyFile.auth = "default" /\ ReloadInit /\ caFile = {"old"}
LoopsIdle == UpstreamInit /\ DispatcherInit /\ BuildInit /\ checkout = "head" /\ registry = {} /\ ProcessorInit
MCInit ==
    \/ part = "policy" /\ GatewayInit /\ ReloadInit /\ caFile = {"old"} /\ LoopsIdle
    \/ part \in Mounts /\ GatewayInit /\ policyFile.auth = "default" /\ ReloadInit /\ LoopsIdle
    \/ part = "builds" /\ FilesIdle /\ UpstreamInit /\ DispatcherInit /\ BuildInit /\ ProcessorInit
    \/ part \in {"upstream", "dispatcher", "processor"} /\ FilesIdle /\ LoopsIdle

In(p, A, others) == part = p /\ A /\ UNCHANGED <<others, part>>
Policy(A) == In("policy", A, <<reloadVars, loopVars>>)
Reload(A) == part \in Mounts /\ A /\ UNCHANGED <<gatewayVars, loopVars, part>>
Upstream(A) == In("upstream", A, <<fileVars, dispatcherVars, buildVars, processorVars>>)
Dispatcher(A) == In("dispatcher", A, <<fileVars, upstreamVars, buildVars, processorVars>>)
Builds(A) == In("builds", A, <<fileVars, upstreamVars, dispatcherVars, processorVars>>)
Processor(A) == In("processor", A, <<fileVars, upstreamVars, dispatcherVars, buildVars>>)

MCNext ==
    \/ Policy(GatewayNext) \/ Reload(ReloadNext /\ OneMount) \/ Upstream(UpstreamNext) \/ Dispatcher(DispatcherNext)
    \/ Builds(BuildNext) \/ Processor(ProcessorNext)
(* The parts exclude each other for good, so weak fairness of a disjunction of  *)
(* steps of different parts is weak fairness of each of them.                   *)
EachRuns(k) ==
    \/ k \in UpstreamRequests /\ Upstream(Progress(k))
    \/ k \in Workers /\ Dispatcher(WorkerStep(k))
    \/ k \in Images /\ Builds(BuilderStep(k))
    \/ k = 1 /\ (Processor(Fetch) \/ Reload(watchTick \/ readCertFile \/ reloadPair))
    \/ k = 2 /\ (Processor(Take \/ Skip) \/ Reload(reloadTrust))
    \/ k = 3 /\ Processor(Insert \/ InsertFails)
(* Tickers fire for ever, a call ends by its timeout, a goroutine that can run  *)
(* does; an insert that is tried again and again is accepted in the end.        *)
MCFairness ==
    /\ \A k \in 1..3 : WF_allVars(EachRuns(k))
    /\ WF_allVars(Policy(reloadPolicy) \/ Upstream(Tick) \/ Dispatcher(StopReturns) \/ Builds(EndBuilds) \/ Processor(Commit))
    /\ SF_allVars(Processor(FlushTick)) /\ SF_allVars(Processor(Insert))
MCSpec == MCInit /\ [][MCNext]_allVars /\ MCFairness
(* A file that stays takes effect, however reads and further writes interleave: a valid *)
(* policy is applied, a rotated pair served, new connections of a withdrawn root and    *)
(* those that resume a session are refused, and a token that was read survives an unreadable file.                 *)
FilesTakeEffect == PolicyApplied /\ RotationServed /\ WithdrawnRootRefused /\ TokenKept
(* Nothing waits for ever: the breaker admits again after any cancellation or body that *)
(* nobody reads, the dispatcher's stop returns, and the builders give back their places.*)
NothingStuck == AdmitsAgain /\ StopEnds /\ BuildsEnd
=============================================================================
