-------------------------- MODULE GatewayPipeline --------------------------
(***************************************************************************)
(* The request path of the gateway: five filters in a fixed order over one *)
(* Exchange (inspect, policy, auth, authz, upstream) and the audit that    *)
(* ends it, with the policy cache the filters read.  Requests interleave   *)
(* with one another, with reloads of a policy file that somebody rewrites, *)
(* with sessions that are revoked and with a session view that goes stale. *)
(* What a tool call may do under a document is PolicyEvaluator's matter:   *)
(* here a document names the humans it grants the tool to.                 *)
(***************************************************************************)
EXTENDS Naturals, FiniteSets

CONSTANTS
    Requests,     \* requests that may be served
    Shapes,       \* [Requests -> what its caller may send]: [kind, ingress, spiffe, token, header]
    Documents,    \* what the policy file may hold: [valid, observe, auth, audience, session, granted, rendered, broker]
    Sessions,     \* [session name -> the human it is bound to]
    SessionAgent, \* [session name -> the agent it is bound to]
    LiveInventory,\* the agent id of the platform's own probes
    MaxEvents     \* bound on rewrites of the policy file, revocations and losses of the session stream

\* What validation asks of a document, and decoding of a request: flags are flags, OAuth names its audience.
ASSUME GatewayAssumption ==
    /\ LiveInventory # "none"
    /\ \A d \in Documents : /\ {d.valid, d.observe, d.broker} \subseteq BOOLEAN
                            /\ d.valid /\ d.auth = "oauth" => d.audience # "none"
    /\ \A r \in Requests : \A s \in Shapes[r] : {s.ingress, s.header, s.token.genuine} \subseteq BOOLEAN

VARIABLES
    policyFile,   \* the document in the mounted ConfigMap
    events,       \* how many of these there have been
    policyState,  \* the snapshot the gateway serves from: [policy, err]
    sessionView,  \* the synchronized sessions: [revoked, fresh]
    providers,    \* the audiences for which an OAuth provider is cached -> the audience it verifies
    exchange,     \* [Requests -> Exchange]
    sent          \* what left the gateway: [Requests -> times forwarded, audits, broker requests]

gatewayVars == <<policyFile, events, policyState, sessionView, providers, exchange, sent>>

None == "none"
NoToken == [human |-> None, agent |-> None, audience |-> None, sid |-> None, genuine |-> FALSE]
NoIdentity == [human |-> None, agent |-> None, session |-> None, bound |-> None]
NoExchange == [stage |-> "absent", shape |-> None, policy |-> None, provider |-> None,
               identity |-> NoIdentity, allowed |-> FALSE, reason |-> "unauthorized", status |-> 0,
               skipAudit |-> FALSE]
Nothing == [forwarded |-> 0, audits |-> {}, broker |-> None]

ToolCall(r) == exchange[r].shape.kind = "tool"
\* What could be a tool call: a JSON body that cannot be read, or a body that is not JSON.
Indeterminate(r) == exchange[r].shape.kind \in {"unparsable", "foreign"}

-----------------------------------------------------------------------------
(* The policy cache.                                                        *)

\* A file-backed document is validated as it was stamped, before defaults and indexes are added.  An
\* empty file is not an error: the gateway's own document, which configures no authentication, takes over.
loadPolicy(doc) == doc.valid

\* main ends the process if the first load fails, so a gateway that serves is Ready.
GatewayInit ==
    /\ policyFile \in {d \in Documents : loadPolicy(d)}
    /\ policyState = [policy |-> policyFile, err |-> FALSE]
    /\ events = 0
    /\ sessionView = [revoked |-> {}, fresh |-> TRUE]
    /\ providers = [a \in {} |-> None]
    /\ exchange = [r \in Requests |-> NoExchange]
    /\ sent = [r \in Requests |-> Nothing]

WritePolicy(doc) ==
    /\ events < MaxEvents /\ doc # policyFile
    /\ policyFile' = doc /\ events' = events + 1
    /\ UNCHANGED <<policyState, sessionView, providers, exchange, sent>>

\* A document that cannot be read, decoded or validated keeps the last good one and records the error.
reloadPolicy ==
    /\ policyState' = IF loadPolicy(policyFile) THEN [policy |-> policyFile, err |-> FALSE]
                                                ELSE [policyState EXCEPT !.err = TRUE]
    /\ policyState' # policyState
    /\ UNCHANGED <<policyFile, events, sessionView, providers, exchange, sent>>

currentPolicy == policyState.policy

-----------------------------------------------------------------------------
(* The filters.                                                             *)

At(r, stage) == exchange[r].stage = stage
Update(r, e) == exchange' = [exchange EXCEPT ![r] = e]
unchangedBesidesExchange == UNCHANGED <<policyFile, events, policyState, sessionView, providers, sent>>

\* handleGateway: a denial until a filter decides otherwise, and the audit deferred.
newExchange(shape) == [NoExchange EXCEPT !.stage = "policy", !.shape = shape]
\* inspectFilter reads the body once (inspectRPCRequest, which is the shape's kind) and always continues.
inspectFilter(r, shape) ==
    /\ At(r, "absent") /\ Update(r, newExchange(shape))
    /\ unchangedBesidesExchange

Deny(r, reason, status) ==
    [exchange[r] EXCEPT !.stage = "audit", !.allowed = FALSE, !.reason = reason, !.status = status]

UsesOAuth(doc) == doc.auth = "oauth"
UsesDelegatedHeaders(doc) == doc.auth = "header"

\* The snapshot is taken once.  The protected-resource metadata is answered here, without authentication.
handleOAuthProtectedResource(e) ==
    [e EXCEPT !.stage = "audit", !.allowed = TRUE, !.reason = "oauth_metadata", !.skipAudit = TRUE,
              !.status = IF UsesOAuth(e.policy) THEN 200 ELSE 404]
policyFilter(r) ==
    LET e == [exchange[r] EXCEPT !.policy = currentPolicy] IN
    /\ At(r, "policy")
    /\ Update(r, IF e.shape.kind = "metadata" THEN handleOAuthProtectedResource(e)
                                              ELSE [e EXCEPT !.stage = "auth"])
    /\ unchangedBesidesExchange

\* gatewaySessionSync.binding: why a session cannot be used, or "".
binding(name) ==
    IF ~sessionView.fresh THEN "policy_unavailable"
    ELSE IF name \notin DOMAIN Sessions THEN "session_not_found"
    ELSE IF name \in sessionView.revoked THEN "session_revoked"
    ELSE ""

\* The ingress asserts the caller's certificate; the hop itself must be the verified one.
\* Its session is looked up in the synchronized view, or among the bindings the document carries.
authenticateAdapterCertificate(e) ==
    IF ~e.shape.ingress THEN "missing_client_certificate"
    ELSE IF e.policy.session # "none" THEN binding(e.shape.spiffe)
    ELSE IF e.shape.spiffe \in e.policy.rendered THEN "" ELSE "session_not_found"

certificateOAuthMismatch(e) == e.shape.token.human # Sessions[e.shape.spiffe]

CertificateIdentity(e) ==
    [human |-> Sessions[e.shape.spiffe], agent |-> SessionAgent[e.shape.spiffe],
     session |-> e.shape.spiffe, bound |-> e.shape.spiffe]
TokenIdentity(e) ==
    [human |-> e.shape.token.human, agent |-> e.shape.token.agent, session |-> e.shape.token.sid, bound |-> None]
\* A certificate whose session was revoked still says who is denied.
DeniedIdentity(e, reason) == IF reason = "session_revoked" THEN CertificateIdentity(e) ELSE NoIdentity

AuthStatus(reason) == IF reason = "policy_unavailable" THEN 503 ELSE 401
HasCertificate(e) == e.policy.auth \in {"oauth", "adapter"} /\ e.shape.spiffe # None

\* The part of authFilter that comes before OAuth: header mode, a certificate, or neither.
authFilterLocal(r) ==
    LET e == exchange[r] IN
    /\ At(r, "auth")
    /\ \/ /\ UsesDelegatedHeaders(e.policy)
          /\ Update(r, IF e.shape.header THEN [e EXCEPT !.stage = "authz"]
                                         ELSE Deny(r, "missing_credential", 401))
       \/ /\ ~UsesDelegatedHeaders(e.policy) /\ HasCertificate(e)
          /\ authenticateAdapterCertificate(e) # ""
          /\ LET reason == authenticateAdapterCertificate(e) IN
             Update(r, [Deny(r, reason, AuthStatus(reason)) EXCEPT !.identity = DeniedIdentity(e, reason)])
       \/ /\ e.policy.auth = "adapter" /\ HasCertificate(e) /\ authenticateAdapterCertificate(e) = ""
          /\ Update(r, [e EXCEPT !.stage = "authz", !.identity = CertificateIdentity(e)])
       \/ e.policy.auth \in {"adapter", "default"} /\ ~HasCertificate(e) /\ Update(r, [e EXCEPT !.stage = "authz"])
       \/ /\ UsesOAuth(e.policy) /\ (HasCertificate(e) => authenticateAdapterCertificate(e) = "")
          /\ Update(r, IF e.shape.token = NoToken THEN Deny(r, "missing_bearer_token", 401)
                                               ELSE [e EXCEPT !.stage = "provider"])
    /\ unchangedBesidesExchange

\* oauthProviderForIssuer: found under the lock, or fetched without it; then whoever stores first wins.
oauthProviderForIssuer(r) ==
    LET e == exchange[r]  key == e.policy.audience IN
    /\ At(r, "provider")
    /\ \/ key \in DOMAIN providers /\ Update(r, [e EXCEPT !.stage = "verify", !.provider = providers[key]])
       \/ key \notin DOMAIN providers /\ Update(r, [e EXCEPT !.stage = "fetched"])
       \/ key \notin DOMAIN providers /\ Update(r, Deny(r, "oauth_provider_unavailable", 503))
    /\ unchangedBesidesExchange
storeProvider(r) ==
    LET e == exchange[r]  key == e.policy.audience IN
    /\ At(r, "fetched")
    /\ IF key \in DOMAIN providers
       THEN Update(r, [e EXCEPT !.stage = "verify", !.provider = providers[key]]) /\ UNCHANGED providers
       ELSE /\ Update(r, [e EXCEPT !.stage = "verify", !.provider = key])
            /\ providers' = [k \in DOMAIN providers \cup {key} |-> IF k = key THEN key ELSE providers[k]]
    /\ UNCHANGED <<policyFile, events, policyState, sessionView, sent>>

\* What authFilter makes of a session that an OAuth token names, for the calls a policy applies to.
SessionProblem(e) ==
    IF binding(e.shape.token.sid) # "" THEN binding(e.shape.token.sid)
    ELSE IF \/ Sessions[e.shape.token.sid] # e.shape.token.human
            \/ SessionAgent[e.shape.token.sid] \notin {None, e.shape.token.agent} THEN "session_identity_mismatch"
    ELSE ""
ChecksSession(e) ==
    /\ e.shape.token.sid # None /\ e.policy.session # "none" /\ e.shape.kind \in {"tool", "unparsable", "foreign"}

\* The rest of authFilter: the token is verified for the provider's audience, then tied to the
\* certificate or to the session it names; an optional session that cannot be used is left out.  A denial
\* past the verification is the token's.
authenticateOAuth(r) ==
    LET e == exchange[r]
        ok == [e EXCEPT !.stage = "authz", !.identity = TokenIdentity(e)]
        Refuse(reason) == [Deny(r, reason, AuthStatus(reason)) EXCEPT !.identity = TokenIdentity(e)]
    IN
    /\ At(r, "verify")
    /\ Update(r,
         IF ~e.shape.token.genuine \/ e.shape.token.audience # e.provider THEN Deny(r, "invalid_token", 401)
         ELSE IF HasCertificate(e)
              THEN IF certificateOAuthMismatch(e) THEN Refuse("certificate_oauth_subject_mismatch")
                   ELSE [ok EXCEPT !.identity = CertificateIdentity(e)]
         ELSE IF ChecksSession(e) /\ SessionProblem(e) # ""
              THEN IF e.policy.session = "optional" /\ SessionProblem(e) # "policy_unavailable" THEN ok
                   ELSE Refuse(SessionProblem(e))
         ELSE [ok EXCEPT !.identity.bound = IF ChecksSession(e) THEN e.shape.token.sid ELSE None])
    /\ unchangedBesidesExchange

\* policypkg.Authorize for a tool call: who the document grants the tool to, with the session it
\* requires; one that only observes lets everybody pass.
grantsTool(doc, identity) ==
    IF UsesDelegatedHeaders(doc) THEN "delegated" \in doc.granted
    ELSE \/ doc.observe
         \/ /\ identity.human \in doc.granted
            /\ doc.session = "required" => identity.bound # None

\* Mutant: authorization takes the document that is current by then.
Mutant_AuthzReadsPolicyAgain(r) ==
    LET e == [exchange[r] EXCEPT !.policy = currentPolicy] IN
    /\ At(r, "authz")
    /\ Update(r, IF Indeterminate(r) \/ (ToolCall(r) /\ ~grantsTool(e.policy, e.identity)) THEN Deny(r, "policy_denied", 403)
                 ELSE [e EXCEPT !.stage = "upstream", !.allowed = TRUE, !.reason = "allowed"])
    /\ unchangedBesidesExchange

\* Only tool calls, and what could be one, are subject to the policy; a stale session view denies them,
\* unless the policy only observes.
authzFilter(r) ==
    LET e == exchange[r] IN
    /\ At(r, "authz")
    /\ Update(r,
         IF ~ToolCall(r) /\ ~Indeterminate(r) THEN [e EXCEPT !.stage = "upstream", !.allowed = TRUE, !.reason = "allowed"]
         ELSE IF e.policy.session # "none" /\ ~e.policy.observe /\ ~sessionView.fresh THEN Deny(r, "policy_unavailable", 503)
         ELSE IF Indeterminate(r) THEN Deny(r, "rpc_inspection_failed", 403)
         ELSE IF grantsTool(e.policy, e.identity) THEN [e EXCEPT !.stage = "upstream", !.allowed = TRUE, !.reason = "allowed"]
         ELSE Deny(r, "policy_denied", 403))
    /\ unchangedBesidesExchange

\* injectCredentials: a tool call under a document with bindings asks the broker for its bound session.
\* Without a bound session, or when the broker does not answer, the call goes no further.
injectCredentials(r) ==
    LET e == exchange[r]  asks == e.policy.broker /\ ToolCall(r) IN
    /\ At(r, "upstream")
    /\ \/ /\ asks => e.identity.bound # None
          /\ Update(r, [e EXCEPT !.stage = "proxy"])
          /\ sent' = [sent EXCEPT ![r].broker = IF asks THEN e.identity.bound ELSE None]
       \/ asks /\ Update(r, Deny(r, "credential_unavailable", 503)) /\ UNCHANGED sent
    /\ UNCHANGED <<policyFile, events, policyState, sessionView, providers>>

\* The request is on its way to the server, or the transport refuses it before it leaves.
forwardUpstream(r) ==
    /\ At(r, "proxy")
    /\ \/ /\ Update(r, [exchange[r] EXCEPT !.stage = "reply"])
          /\ sent' = [sent EXCEPT ![r].forwarded = @ + 1]
       \/ Update(r, Deny(r, "upstream_unavailable", 503)) /\ UNCHANGED sent
    /\ UNCHANGED <<policyFile, events, policyState, sessionView, providers>>

\* The server answers, fails, or breaks off in the middle of the body: ReverseProxy then panics, and the
\* deferred audit still runs.
upstreamReply(r) ==
    /\ At(r, "reply")
    /\ \E status \in {200, 502} : Update(r, [exchange[r] EXCEPT !.stage = "audit", !.status = status])
    /\ unchangedBesidesExchange

\* emitAuditFromExchange: one event per exchange that was, or tried to be, an RPC; a body that is not
\* JSON is no attempt, and the platform's own probes are never audited.
emitAuditFromExchange(r) ==
    LET e == exchange[r] IN
    /\ At(r, "audit")
    /\ Update(r, [e EXCEPT !.stage = "done"])
    /\ sent' = IF e.skipAudit \/ e.identity.agent = LiveInventory \/ e.shape.kind \in {"get", "foreign"} THEN sent
               ELSE [sent EXCEPT ![r].audits = @ \cup {<<Cardinality(@), e.allowed>>}]
    /\ UNCHANGED <<policyFile, events, policyState, sessionView, providers>>

-----------------------------------------------------------------------------
\* The session stream delivers a revocation; the view goes stale when the stream is cut, and recovers.
Revoke(s) ==
    /\ events < MaxEvents /\ sessionView.fresh /\ s \notin sessionView.revoked
    /\ sessionView' = [sessionView EXCEPT !.revoked = @ \cup {s}] /\ events' = events + 1
    /\ UNCHANGED <<policyFile, policyState, providers, exchange, sent>>
ViewGoesStale ==
    /\ events < MaxEvents /\ sessionView.fresh
    /\ sessionView' = [sessionView EXCEPT !.fresh = FALSE] /\ events' = events + 1
    /\ UNCHANGED <<policyFile, policyState, providers, exchange, sent>>
ViewRecovers ==
    /\ ~sessionView.fresh /\ sessionView' = [sessionView EXCEPT !.fresh = TRUE]
    /\ UNCHANGED <<policyFile, events, policyState, providers, exchange, sent>>

Serve(r) ==
    \/ policyFilter(r) \/ authFilterLocal(r) \/ oauthProviderForIssuer(r) \/ storeProvider(r)
    \/ authenticateOAuth(r) \/ authzFilter(r) \/ injectCredentials(r) \/ forwardUpstream(r) \/ upstreamReply(r)
    \/ emitAuditFromExchange(r)
GatewayNext ==
    \/ reloadPolicy \/ ViewGoesStale \/ ViewRecovers
    \/ \E s \in DOMAIN Sessions : Revoke(s)
    \/ \E d \in Documents : WritePolicy(d)
    \/ \E r \in Requests : Serve(r) \/ \E s \in Shapes[r] : inspectFilter(r, s)

GatewaySpec == GatewayInit /\ [][GatewayNext]_gatewayVars

-----------------------------------------------------------------------------
Stages == {"absent", "policy", "auth", "provider", "fetched", "verify", "authz", "upstream", "proxy",
           "reply", "audit", "done"}
GatewayTypeOK ==
    /\ policyFile \in Documents /\ policyState.policy \in Documents /\ policyState.err \in BOOLEAN
    /\ sessionView.revoked \subseteq DOMAIN Sessions /\ \A a \in DOMAIN providers : a # None
    /\ \A r \in Requests : exchange[r].stage \in Stages /\ sent[r].forwarded \in 0..1

Forwarded(r) == sent[r].forwarded > 0

\* A tool call reaches the server only if one valid document, the same for authentication and for
\* authorization, accepts it: the caller proved the identity that document asks for and is granted the tool.
ForwardedOnlyIfAuthorized ==
    \A r \in Requests : Forwarded(r) /\ ToolCall(r) =>
        LET e == exchange[r]  doc == e.policy IN
        /\ doc.valid /\ grantsTool(doc, e.identity)
        /\ UsesOAuth(doc) =>
             /\ e.shape.token # NoToken /\ e.shape.token.genuine /\ e.shape.token.audience = doc.audience
             /\ e.identity.human = e.shape.token.human
        /\ UsesDelegatedHeaders(doc) => e.shape.header
        /\ e.shape.spiffe # None /\ e.identity.session = e.shape.spiffe /\ ~UsesOAuth(doc) => e.shape.ingress

\* Credentials are fetched for the session the caller proved to own, and for nobody else.
CredentialsForOwnSession ==
    \A r \in Requests : sent[r].broker # None =>
        /\ ToolCall(r) /\ exchange[r].policy.broker
        /\ Sessions[sent[r].broker] = exchange[r].identity.human

\* A verified token or a certificate on a verified hop says that the caller is the platform's probe.
ProvenProbe(e) ==
    \/ UsesOAuth(e.policy) /\ e.shape.token.genuine /\ e.shape.token.audience = e.policy.audience
       /\ e.shape.token.agent = LiveInventory
    \/ e.shape.spiffe # None /\ e.shape.ingress /\ SessionAgent[e.shape.spiffe] = LiveInventory

\* Every exchange that ends has been forwarded at most once and, if it was an RPC, audited exactly
\* once, as denied whenever the server did not get it; only a caller that proved to be the platform's
\* own probe leaves no audit, and it leaves none (emitAuditFromExchange).
AuditedOnce ==
    \A r \in Requests : LET e == exchange[r] IN
        /\ sent[r].forwarded <= 1
        /\ At(r, "done") /\ e.shape.kind \in {"tool", "list", "unparsable"} =>
              IF e.identity.agent = LiveInventory THEN sent[r].audits = {} /\ ProvenProbe(e)
              ELSE \E allowed \in BOOLEAN : sent[r].audits = {<<0, allowed>>} /\ (allowed <=> Forwarded(r))

\* The gateway serves a document that was valid when it was loaded, and an update that stays is applied.
LastKnownGood == policyState.policy.valid
PolicyApplied == \A d \in Documents : <>[](policyFile = d /\ d.valid) => <>[](policyState.policy = d)
\* A call is authorized once and whole: whatever policy, sessions and credentials change to while it
\* passes the filters, it reaches the server by one valid document's word, with its own caller's
\* credentials, and is audited once as what happened to it.
CallsAuthorized ==
    GatewayTypeOK /\ ForwardedOnlyIfAuthorized /\ CredentialsForOwnSession /\ AuditedOnce /\ LastKnownGood
=============================================================================
