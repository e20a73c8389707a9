----------------------------- MODULE MCOperator -----------------------------
(* The operator's pass over one server, and the ownership of public routes  *)
(* by several.  They share no state here: `part` says which of them a       *)
(* behaviour is about, and for a pass what changes around it.               *)
EXTENDS OperatorPass, RouteOwnership

VARIABLE part
operatorRunVars == <<operatorVars, routeVars, part>>

Sp(p, g, c, v, q) ==
    [port |-> p, gateway |-> g, tls |-> g, recreate |-> g, canary |-> c, valid |-> v, resolves |-> TRUE, parses |-> q]
Tls1 == Sp(1, TRUE, FALSE, TRUE, TRUE)
Tls2 == Sp(2, TRUE, FALSE, TRUE, TRUE)
Plain1 == Sp(1, FALSE, TRUE, TRUE, TRUE)
Invalid == Sp(2, TRUE, FALSE, FALSE, TRUE)
Unparsed == Sp(2, TRUE, FALSE, TRUE, FALSE)
Unresolved == [Plain1 EXCEPT !.resolves = FALSE]
MCSpecs == {Tls1, Tls2, Plain1, Invalid, Unparsed, Unresolved}

Rt(h, p) == [host |-> h, path |-> p]
MCRoutes == {Rt(AnyHost, "p"), Rt("h", "p"), Rt("g", "p")}
Res(h) == [host |-> h, path |-> "p", tls |-> TRUE]
Au(b, a, c) == [bundled |-> b, audience |-> a, scopes |-> c]
\* A server that names the route of another's host, one that leaves its audience to the operator, and others.
Elsewhere == Au(TRUE, Res("g"), "few")
MCAuthSpecs == {Elsewhere, Au(TRUE, Derived, "all"), Au(FALSE, Derived, "all"), Au(TRUE, [Res("g") EXCEPT !.tls = FALSE], "all")}
MCAuth == [s \in Claimants |-> IF s = "a" THEN Elsewhere ELSE Au(TRUE, Derived, "all")]
MCGateways == {[resource |-> Res("h"), scopes |-> "gate"]}
MCClaim == [s \in Claimants |-> CASE s = "a" -> Rt("h", "p") [] s = "b" -> Rt("g", "p") [] OTHER -> Rt(AnyHost, "p")]
MCBorn == [s \in Claimants |-> IF s = "c" THEN 2 ELSE 1]
MCOrder == [s \in Claimants |-> CASE s = "a" -> 1 [] s = "b" -> 2 [] OTHER -> 3]

Parts == {"ports", "certificates", "removal", "refusal"}
\* Where no server is removed nobody reads what the sweep of a restart does, so that it may as well come at once.
Around0 ==
    /\ spec' # spec => spec' \in CASE part = "ports" -> {Tls1, Tls2}
                                   [] part = "certificates" -> {Tls1, Plain1}
                                   [] part = "refusal" -> {Plain1, Invalid, Unresolved}
                                   [] OTHER -> {Tls1, Unparsed, Absent}
    /\ part # "refusal" => contested' = contested
    /\ part # "refusal" => restricted' = restricted
    /\ part # "certificates" => granted' = granted
    /\ part = "ports" => secrets \subseteq secrets'
    /\ part # "removal" /\ Sweeping => sweep' # sweep

\* Routes without the bundled authorization server, or its audiences.  The second part lets the servers' own
\* passes end first, one after the other: they read and write nothing that the other controller does.
RouteParts == {"routes", "audiences"}
Busy(s) == installing[s] # NoRoute \/ (s \in woken /\ Owns(s))
Around1 ==
    /\ part = "routes" => UNCHANGED <<auth, authServer>> /\ ~ OAuthPassFails
    /\ part = "audiences" =>
         /\ \A s \in Claimants : claim'[s] \in {claim[s], NoRoute, Rt("g", "p")}
         /\ UNCHANGED oauthState \/ \A s \in Claimants : ~ Busy(s)
         /\ \A s \in Claimants : installing'[s] # installing[s] =>
                \A o \in Claimants : NameOrder[o] < NameOrder[s] => ~ Busy(o)

MCInit ==
    /\ \/ part \in Parts /\ spec = (IF part = "refusal" THEN Plain1 ELSE Tls1) /\ claim = [s \in Claimants |-> NoRoute]
       \/ part \in RouteParts /\ spec = Absent /\ claim = MCClaim
    /\ OperatorStarted /\ auth = MCAuth /\ RoutesStarted /\ authServer.present = (part = "audiences")
MCNext ==
    /\ UNCHANGED part
    /\ \/ part \in Parts /\ OperatorNext /\ Around0 /\ UNCHANGED routeVars
       \/ part \in RouteParts /\ RoutesNext /\ Around1 /\ UNCHANGED operatorVars
\* An idle part takes no step: its fairness asks for nothing.
MCSpec == MCInit /\ [][MCNext]_operatorRunVars /\ OperatorFairness /\ RoutesFairness
RoutesSpec == MCInit /\ part = "routes" /\ [][MCNext]_operatorRunVars
=============================================================================
