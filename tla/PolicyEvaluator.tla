-------------------------- MODULE PolicyEvaluator --------------------------
(***************************************************************************)
(* pkg/policy: what a rendered document says about one tool call.  The     *)
(* evaluator goes through the matching grants in order of their names and  *)
(* accumulates a selection; Reference says the same without an order.      *)
(* Validate decides which documents reach the evaluator at all.            *)
(***************************************************************************)
EXTENDS Naturals, Sequences, SequencesExt

CONSTANTS
    GrantPool,    \* grants that may be rendered: [name, human, agent, status, mode, maxTrust, effects,
                  \* rules (none, for the tool: allow or deny, or only for others), ruleTrust]
    ToolPool,     \* what the document may say of the tool: [trust, effect]; effect "" when it is not known
    SessionPool,  \* what the request's session may be: [state, consented]; consented 0 when it does not say
    RulePool,     \* header mode: sequences of [decision] for the tool
    MaxGrants

VARIABLES evalCase, decision   \* the input under evaluation, and what was decided ("pending" before)

evalVars == <<evalCase, decision>>

Identity == [human |-> "ann", agent |-> "bot"]

\* subjectMatchesTeam: an empty field of the grant is a wildcard, but one field must name somebody.
subjectMatchesTeam(g) ==
    /\ g.human \in {"", Identity.human} /\ g.agent \in {"", Identity.agent}
    /\ g.human # "" \/ g.agent # ""
matchingGrants(grants) == SelectSeq(grants, subjectMatchesTeam)

\* Compile indexes the grants by subject; the lookup collects the buckets of every key that the identity
\* can match and restores the document's order.
Compile(grants) == [key \in {<<g.human, g.agent>> : g \in Range(grants)} |->
                       {i \in 1..Len(grants) : <<grants[i].human, grants[i].agent>> = key}]
matchingSubjectKeys == {<<"ann", "">>, <<"", "bot">>, <<"ann", "bot">>}
matchingPolicyGrants(grants) ==
    LET keys == matchingSubjectKeys \cap DOMAIN Compile(grants)
        indices == SetToSortSeq(UNION {Compile(grants)[k] : k \in keys}, <)
    IN [i \in 1..Len(indices) |-> grants[indices[i]]]

-----------------------------------------------------------------------------
isActive(g) == g.status = "active"
sideEffectAllowed(g, effect) == effect # "" /\ effect \in g.effects

NoSelection(tool) ==
    [tool |-> FALSE, effect |-> FALSE, admin |-> 0, required |-> tool.trust, grant |-> "", deny |-> "",
     expired |-> 0, active |-> 0]

\* What one grant, or one of its rules for the tool, adds to the selection.
Admit(sel, g, effect, ruleTrust) ==
    LET named == [sel EXCEPT !.tool = TRUE, !.grant = IF @ = "" THEN g.name ELSE @]
        better == ~sel.effect \/ g.maxTrust > sel.admin \/ ruleTrust > sel.required
    IN IF ~sideEffectAllowed(g, effect) THEN named
       ELSE [named EXCEPT !.effect = TRUE, !.grant = IF better THEN g.name ELSE @,
                          !.admin = IF g.maxTrust > @ THEN g.maxTrust ELSE @,
                          !.required = IF ruleTrust > @ THEN ruleTrust ELSE @]

\* Mutant: a denying rule only leaves its own grant out.
Mutant_DenySkipsToNext(sel, g, effect) ==
    IF ~isActive(g) \/ sel.deny # "" THEN sel
    ELSE IF g.rules = "none" THEN Admit(sel, g, effect, 0)
    ELSE IF g.rules = "other" \/ g.rules = "deny" THEN sel
    ELSE Admit(sel, g, effect, g.ruleTrust)

\* One turn of the loop: a rule that denies the tool ends it, whatever came before.
considerGrant(sel, g, effect) ==
    IF sel.deny # "" \/ g.status = "disabled" THEN sel
    ELSE IF g.status = "expired" THEN [sel EXCEPT !.expired = @ + 1]
    ELSE LET s == [sel EXCEPT !.active = @ + 1] IN
         CASE g.rules = "none" -> Admit(s, g, effect, 0)
           [] g.rules = "other" -> s
           [] g.rules = "deny" -> [s EXCEPT !.deny = g.name]
           [] OTHER -> Admit(s, g, effect, g.ruleTrust)

sortedGrants(grants) == SortSeq(grants, LAMBDA g, h : g.rank < h.rank)
bestGrantFor(grants, tool) ==
    FoldLeft(LAMBDA sel, g : considerGrant(sel, g, tool.effect), NoSelection(tool), sortedGrants(grants))

Decided(allowed, reason, grant) == [allowed |-> allowed, reason |-> reason, grant |-> grant]
decideByDefault(doc, reason, grant) == Decided(doc.default = "allow", reason, grant)

\* findPolicySession: a session found but not usable counts as none when none is required.
sessionReason(doc, session) ==
    CASE session.state = "anonymous" -> "missing_identity"
      [] ~doc.sessionRequired -> ""
      [] session.state = "none" -> "missing_session"
      [] session.state = "unknown" -> "session_not_found"
      [] session.state = "revoked" -> "session_revoked"
      [] session.state = "expired" -> "session_expired"
      [] OTHER -> ""
findPolicySession(session) == session.state = "live"

Minimum(a, b) == IF a < b THEN a ELSE b
consentedRank(session, admin) ==
    IF findPolicySession(session) /\ session.consented # 0 THEN session.consented ELSE admin

\* The checks after the identity is known, in the order of the code.
authorize(doc, grants, tool, session) ==
    LET sel == bestGrantFor(grants, tool) IN
    IF sessionReason(doc, session) # "" THEN Decided(FALSE, sessionReason(doc, session), "")
    ELSE IF grants = <<>> THEN decideByDefault(doc, "no_matching_grant", "")
    ELSE IF sel.deny # "" THEN Decided(FALSE, "tool_denied", sel.deny)
    ELSE IF ~sel.tool
         THEN decideByDefault(doc, IF sel.expired > 0 /\ sel.active = 0 THEN "grant_expired" ELSE "tool_not_granted", "")
    ELSE IF tool.effect = "" THEN Decided(FALSE, "tool_side_effect_unknown", sel.grant)
    ELSE IF ~sel.effect THEN Decided(FALSE, "side_effect_not_allowed", sel.grant)
    ELSE IF Minimum(sel.admin, consentedRank(session, sel.admin)) < sel.required
         THEN Decided(FALSE, "trust_too_low", sel.grant)
    ELSE Decided(TRUE, "allowed", sel.grant)

monitorableGrantDenial(reason) ==
    reason \in {"tool_denied", "tool_not_granted", "side_effect_not_allowed", "trust_too_low"}

IsMonitor(g) == g.mode = "monitor"
Enforces(g) == ~IsMonitor(g)

\* Authorize: grants under observation are evaluated on their own.  They decide only when no enforcing
\* grant is active, and then a denial of theirs is reported instead of applied.
Authorize(doc, tool, session) ==
    LET matching == matchingPolicyGrants(doc.grants)
        enforcing == SelectSeq(matching, Enforces)  monitoring == SelectSeq(matching, IsMonitor)
        enforces == \E g \in Range(enforcing) : isActive(g)
        shadow == authorize(doc, monitoring, tool, session)
        enforced == authorize(doc, enforcing, tool, session)
    IN IF doc.auth = "observe" THEN Decided(TRUE, "allowed", "")
       ELSE IF (\A g \in Range(monitoring) : ~isActive(g)) \/ tool.effect = ""
            THEN authorize(doc, matching, tool, session)
       ELSE IF enforces /\ ~enforced.allowed THEN enforced
       ELSE [(IF enforces THEN enforced ELSE shadow) EXCEPT !.allowed = @ \/ monitorableGrantDenial(shadow.reason)]

-----------------------------------------------------------------------------
(* Header mode has no caller: only the document's rules decide.             *)

sideEffectRank(effect) == CASE effect = "read" -> 1 [] effect = "write" -> 2 [] effect = "destructive" -> 3 [] OTHER -> 0

authorizeDelegated(doc, tool) ==
    IF doc.default # "deny" THEN Decided(FALSE, "delegated_policy_unsupported", "")
    ELSE IF doc.sessionRequired \/ doc.grants # <<>> THEN Decided(FALSE, "delegated_identity_policy_unsupported", "")
    ELSE IF "deny" \in Range(doc.rules) THEN Decided(FALSE, "tool_denied", "")
    ELSE IF tool.effect = "" THEN Decided(FALSE, "tool_side_effect_unknown", "")
    ELSE IF doc.maxEffect # "" /\ sideEffectRank(tool.effect) > sideEffectRank(doc.maxEffect)
         THEN Decided(FALSE, "side_effect_not_allowed", "")
    ELSE IF "allow" \in Range(doc.rules) THEN Decided(TRUE, "delegated_tool_allowed", "")
    ELSE Decided(FALSE, "tool_not_allowed", "")

\* What Validate refuses of the documents enumerated here.
validateGrants(doc) ==
    /\ \A i, j \in 1..Len(doc.grants) : doc.grants[i].name = doc.grants[j].name => i = j
validateDelegatedDocument(doc) ==
    IF doc.auth = "header" THEN doc.default = "deny" /\ ~doc.sessionRequired /\ doc.grants = <<>>
                           ELSE doc.rules = <<>> /\ doc.maxEffect = ""
Validate(doc) == validateGrants(doc) /\ validateDelegatedDocument(doc)

-----------------------------------------------------------------------------
Pending == Decided(FALSE, "pending", "")

EvalDocuments ==
    {[auth |-> a, default |-> d, sessionRequired |-> r, grants |-> g, rules |-> u, maxEffect |-> e] :
        a \in {"oauth", "header", "observe"}, d \in {"allow", "deny"}, r \in BOOLEAN,
        g \in UNION {[1..n -> GrantPool] : n \in 0..MaxGrants}, u \in RulePool, e \in {"", "read"}}

EvalInit ==
    /\ evalCase \in [doc : {d \in EvalDocuments : Validate(d)}, tool : ToolPool, session : SessionPool]
    /\ decision = Pending
Evaluate ==
    /\ decision = Pending
    /\ decision' = IF evalCase.doc.auth = "header" THEN authorizeDelegated(evalCase.doc, evalCase.tool)
                   ELSE Authorize(evalCase.doc, evalCase.tool, evalCase.session)
    /\ UNCHANGED evalCase
EvalNext == Evaluate

-----------------------------------------------------------------------------
\* The order-free meaning of a set of grants for the tool.
Live(grants) == {g \in Range(grants) : isActive(g)}
Covers(g) == g.rules \notin {"other", "deny"}
Permits(grants, tool, session) ==
    LET covering == {g \in Live(grants) : Covers(g) /\ tool.effect \in g.effects} IN
    /\ \A g \in Live(grants) : g.rules # "deny"
    /\ \E g \in covering :
          /\ g.maxTrust >= tool.trust /\ \A h \in covering : g.maxTrust >= h.ruleTrust
          /\ findPolicySession(session) /\ session.consented # 0 =>
               session.consented >= tool.trust /\ \A h \in covering : session.consented >= h.ruleTrust

Answered == decision # Pending
ByGrants == Answered /\ evalCase.doc.auth = "oauth"
Subject(grants) == matchingGrants(grants)

\* bestGrantFor's pass over the sorted grants means what the grants say taken as a set: "allowed" is
\* answered exactly when one grant alone has the tool, its side effect and enough trust for what every
\* covering rule asks, no grant denies the tool, and the session consents to as much.
GrantsMeanWhatTheySay ==
    ByGrants /\ (\A g \in Range(evalCase.doc.grants) : Enforces(g)) =>
        (decision.allowed /\ decision.reason = "allowed" <=>
            /\ sessionReason(evalCase.doc, evalCase.session) = ""
            /\ evalCase.tool.effect # "" /\ Permits(Subject(evalCase.doc.grants), evalCase.tool, evalCase.session))

\* The index that Compile builds finds the grants a scan of the document finds, in the same order.
IndexFindsEveryGrant == matchingPolicyGrants(evalCase.doc.grants) = matchingGrants(evalCase.doc.grants)

\* A grant under observation neither gives nor takes what active enforcing grants decide, for a tool
\* whose side effect is known.
MonitorDoesNotDecide ==
    LET enforcing == SelectSeq(Subject(evalCase.doc.grants), Enforces) IN
    ByGrants /\ evalCase.tool.effect # "" /\ Live(enforcing) # {} =>
        decision.allowed = authorize(evalCase.doc, enforcing, evalCase.tool, evalCase.session).allowed

\* Header mode: a validated document is never refused as unsupported, and it lets a tool through only by an
\* allow rule, without a deny rule, and within the document's greatest side effect.
DelegatedFailsClosed ==
    Answered /\ evalCase.doc.auth = "header" =>
        /\ decision.reason \notin {"delegated_policy_unsupported", "delegated_identity_policy_unsupported"}
        /\ decision.allowed =>
              /\ Range(evalCase.doc.rules) = {"allow"} /\ evalCase.tool.effect # ""
              /\ evalCase.doc.maxEffect = "read" => evalCase.tool.effect = "read"

\* A decision says what the document says: the sorted, indexed, short-cutting evaluation answers as the
\* grants taken as a set do, monitoring changes no answer, and header mode lets nothing through by default.
DecisionsFollowGrants ==
    GrantsMeanWhatTheySay /\ IndexFindsEveryGrant /\ MonitorDoesNotDecide /\ DelegatedFailsClosed
=============================================================================
