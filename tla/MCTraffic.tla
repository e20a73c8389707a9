------------------------------ MODULE MCTraffic ------------------------------
(* A tool call on its way: the adapter on the user's machine (daemon, proxy, *)
(* background service), the gateway's request path with the policy evaluator *)
(* it calls, and its admission to the upstream.  They share no state here:   *)
(* `part` says which of them a behaviour is about, and the others rest in a  *)
(* state they start from.                                                    *)
EXTENDS GatewayPipeline, PolicyEvaluator, UpstreamResilience, AdapterDaemon, AdapterProxy, AdapterService

VARIABLE part

T(h, a, s, g) == [human |-> h, agent |-> None, audience |-> a, sid |-> s, genuine |-> g]
S(k, i, s, t, h) == [kind |-> k, ingress |-> i, spiffe |-> s, token |-> t, header |-> h]
Probe == [T("ops", "A", "s2", TRUE) EXCEPT !.agent = "live-inventory"]
AllShapes ==
    {S("tool", TRUE, "s1", T("ann", "A", None, TRUE), FALSE), S("tool", FALSE, "s1", T("ann", "A", None, TRUE), FALSE),
     S("tool", TRUE, "s1", T("bob", "A", None, TRUE), FALSE), S("tool", FALSE, None, T("ann", "A", "s1", TRUE), TRUE),
     S("tool", FALSE, None, T("bob", "B", "s1", TRUE), FALSE), S("tool", FALSE, None, NoToken, FALSE),
     S("unparsable", FALSE, None, T("ann", "A", "s1", FALSE), FALSE), S("metadata", FALSE, None, NoToken, FALSE),
     S("list", FALSE, None, Probe, FALSE), S("tool", TRUE, "s2", Probe, FALSE), S("tool", TRUE, "s2", T("ann", "A", None, TRUE), FALSE),
     S("get", FALSE, None, NoToken, TRUE), S("foreign", FALSE, None, NoToken, TRUE), S("list", FALSE, None, T("ann", "A", "s1", TRUE), TRUE)}
MCShapes == [r \in Requests |-> IF r = "r1" THEN AllShapes ELSE {S("tool", FALSE, None, T("ann", "B", "s1", TRUE), TRUE)}]
D(v, a, au, s, g, b) ==
    [valid |-> v, observe |-> FALSE, auth |-> a, audience |-> au, session |-> s, granted |-> g, rendered |-> {"s1", "s2"}, broker |-> b]
MCDocuments ==
    {D(TRUE, "oauth", "A", "required", {"ann"}, TRUE), [D(TRUE, "oauth", "B", "optional", {"ann"}, FALSE) EXCEPT !.observe = TRUE],
     D(TRUE, "adapter", None, "none", {"ann"}, FALSE), D(TRUE, "header", None, "none", {"delegated"}, FALSE),
     D(TRUE, "default", None, "none", {}, FALSE), D(FALSE, "oauth", "A", "none", {"ann", "bob"}, FALSE)}
MCSessions == [s \in {"s1", "s2"} |-> IF s = "s1" THEN "ann" ELSE "ops"]
MCAgents == [s \in {"s1", "s2"} |-> IF s = "s1" THEN None ELSE "live-inventory"]

G(n, h, a, st, m, t, e, r) ==
    [name |-> n, rank |-> CASE n = "g1" -> 1 [] n = "g2" -> 2 [] OTHER -> 3, human |-> h, agent |-> a, status |-> st,
     mode |-> m, maxTrust |-> t, effects |-> e,
     rules |-> IF r \in {"none", "other", "deny"} THEN r ELSE "allow",
     ruleTrust |-> CASE r = "allow2" -> 2 [] r = "allow3" -> 3 [] r = "allow1" -> 1 [] OTHER -> 0]
MCGrants ==
    {G("g1", "ann", "", "active", "enforce", 1, {"read", "write"}, "none"), G("g2", "ann", "bot", "active", "enforce", 3, {"read"}, "allow2"),
     G("g3", "", "bot", "active", "enforce", 2, {"write"}, "allow3"), G("g1", "ann", "", "active", "enforce", 2, {"read"}, "deny"),
     G("g2", "", "bot", "active", "monitor", 3, {"read", "write"}, "allow1"), G("g3", "ann", "", "active", "monitor", 1, {}, "deny"),
     G("g1", "ann", "", "expired", "enforce", 3, {"read"}, "none"), G("g2", "ann", "", "disabled", "enforce", 3, {"read"}, "deny"),
     G("g3", "", "", "active", "enforce", 3, {"read"}, "none"), G("g3", "bob", "", "active", "enforce", 3, {"read"}, "none"),
     G("g2", "", "bot", "active", "enforce", 3, {"read", "write"}, "other")}
MCTools == {[trust |-> t, effect |-> e] : t \in {1, 2}, e \in {"", "read", "write"}}
MCSessionPool == {[state |-> s, consented |-> 0] : s \in {"none", "unknown", "revoked", "expired", "anonymous"}}
                 \cup {[state |-> "live", consented |-> c] : c \in {0, 1, 3}}
MCRules == {<<>>, <<"allow">>, <<"deny">>}

OneCase == [doc |-> [auth |-> "header", default |-> "deny", sessionRequired |-> FALSE, grants |-> <<>>, rules |-> <<>>, maxEffect |-> ""],
            tool |-> [trust |-> 1, effect |-> "read"], session |-> [state |-> "none", consented |-> 0]]
EvalIdle == evalCase = OneCase /\ decision = Pending
GatewayIdle == GatewayInit /\ policyFile.auth = "header"

TwoRpcs == [c \in Classes |-> IF c = "unary" THEN 2 ELSE 1]

MCInit ==
    /\ UpstreamInit /\ DaemonInit /\ ProxyInit /\ ServiceInit
    /\ \/ part = "pipeline" /\ GatewayInit /\ policyFile.audience = "A" /\ EvalIdle
       \/ part = "evaluate" /\ EvalInit /\ GatewayIdle
       \/ part \in {"upstream", "daemon", "proxy", "service"} /\ GatewayIdle /\ EvalIdle
Requesting ==
    /\ \/ part = "pipeline" /\ GatewayNext /\ UNCHANGED <<evalVars, upstreamVars>>
       \/ part = "evaluate" /\ EvalNext /\ UNCHANGED <<gatewayVars, upstreamVars>>
       \/ part = "upstream" /\ UpstreamNext /\ UNCHANGED <<gatewayVars, evalVars>>
    /\ UNCHANGED <<daemonVars, proxyVars, serviceVars>>
Adapting ==
    /\ \/ part = "daemon" /\ DaemonNext /\ UNCHANGED <<proxyVars, serviceVars>>
       \/ part = "proxy" /\ ProxyNext /\ UNCHANGED <<daemonVars, serviceVars>>
       \/ part = "service" /\ ServiceNext /\ UNCHANGED <<daemonVars, proxyVars>>
    /\ UNCHANGED <<gatewayVars, evalVars, upstreamVars>>
MCNext == (Requesting \/ Adapting) /\ UNCHANGED part
MCSpec == MCInit /\ [][MCNext]_<<gatewayVars, evalVars, upstreamVars, daemonVars, proxyVars, serviceVars, part>>
=============================================================================
