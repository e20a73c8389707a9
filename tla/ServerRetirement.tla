--------------------------- MODULE ServerRetirement ---------------------------
(***************************************************************************)
(* One published MCP server, the access to it and its retirement:          *)
(* services/runtime-api/internal/runtimeapi (servers.go,                   *)
(* server_retirement.go, grant_handlers.go, grants.go, adapter.go,         *)
(* adapter_certificate.go, adapter_preflight.go, session_backend.go) and   *)
(* pkg/access (manager.go, retirement.go, enrollment.go).                  *)
(*                                                                         *)
(* A request is a handler of one of the runtime API's replicas; each of    *)
(* its steps is one call to Kubernetes or to the platform's session store, *)
(* and between two of them any other request may run.  A call that fails   *)
(* ends the request (fail).  Names are fixed: there is one server name and *)
(* one grant name, and what changes under them are the object UIDs.  A     *)
(* resource version is modelled by the request that wrote it last, `by`.   *)
(***************************************************************************)
EXTENDS Integers, FiniteSets

CONSTANTS
    Requests,     \* requests in flight
    Scenarios,    \* what they may be, together: functions Requests -> Ops
    NoObject      \* nothing there

Ops == {"publish", "update", "retire", "grant", "toggle", "issue", "apply",
        "certificate", "abandon", "moderate"}
\* A session's name is random: it is named after the request that issues it.
Sids == Requests
MaxUid == Cardinality(Requests) + 1

VARIABLES
    server,      \* the MCPServer object
    secret,      \* the UID of its generated analytics credential
    colliding,   \* another server's spec names the same credential
    grant,       \* the MCPAccessGrant object
    sessions,    \* the platform's session table
    fenced,      \* server UIDs retired in the platform's session store
    agentActive, \* the status of the agent the sessions are for
    lastUid,     \* UIDs given out to servers and credentials so far
    delivered,   \* sessions whose first certificate reached its caller
    abandoned,   \* sessions removed as never enrolled
    request      \* the handlers' local state

world == <<server, secret, colliding, grant, sessions, fenced, lastUid,
           agentActive, delivered, abandoned>>
retireVars == <<world, request>>

Server == [uid : 1 .. MaxUid, retiring : BOOLEAN, by : Requests \cup {NoObject}]
Grant == [obj : Requests \cup {NoObject}, by : Requests \cup {NoObject},
          uid : 1 .. MaxUid, disabled : BOOLEAN]
\* A session's server UID, and the one its grant was bound to when selected.
Session == [uid : 1 .. MaxUid, grantUid : 1 .. MaxUid, revoked : BOOLEAN,
            pending : BOOLEAN]
ASSUME RetirementAssumption ==
    /\ IsFiniteSet(Requests)
    /\ NoObject \notin Requests \cup Server \cup Grant \cup Session
    /\ Scenarios \subseteq [Requests -> Ops]

Live(s) == s # NoObject /\ ~ s.revoked
GetActiveMCPServerRef == server # NoObject /\ ~ server.retiring

Places == {"start", "done", "failed", "credential", "write",
           "mark", "list", "fence", "access", "disable", "revoke", "delete", "grant", "secret",
           "unsecret", "server", "bind", "apply", "reuse", "bindSession", "put", "recheck",
           "issued", "complete", "respond", "discard"}
\* A request's local state: where it is, the server and grant UIDs it read, the
\* objects it listed and has still to deal with, the session it is about.
Local == [pc : Places, op : Ops, cur : Server \cup {NoObject},
          secret : 0 .. MaxUid, uids : SUBSET (1 .. MaxUid),
          grant : Grant \cup {NoObject}, listed : SUBSET Sids,
          todo : SUBSET Sids, sid : Sids \cup {NoObject}, disabled : BOOLEAN]
At(r, pc) == request[r].pc = pc
Go(r, pc) == request' = [request EXCEPT ![r].pc = pc]
Step(r, local) == request' = [request EXCEPT ![r] = local]

\* Server uid 1 is published with a grant; nobody has enrolled yet.
RetireInit ==
    /\ server = [uid |-> 1, retiring |-> FALSE, by |-> NoObject]
    /\ secret = 1 /\ colliding = FALSE
    /\ grant = [obj |-> NoObject, by |-> NoObject, uid |-> 1, disabled |-> FALSE]
    /\ sessions = [s \in Sids |-> NoObject]
    /\ fenced = {} /\ agentActive = TRUE /\ lastUid = 1 /\ delivered = {} /\ abandoned = {}
    /\ \E op \in Scenarios :
          request = [r \in Requests |->
                [pc |-> "start", op |-> op[r], cur |-> NoObject, secret |-> 0,
                 uids |-> {}, grant |-> NoObject, listed |-> {}, todo |-> {},
                 sid |-> NoObject, disabled |-> FALSE]]

\* A refusal, an API error or the request's deadline: nothing is undone.
fail(r) ==
    /\ request[r].pc \notin {"done", "failed"}
    /\ Go(r, "failed")
    /\ UNCHANGED world

-----------------------------------------------------------------------------
\* Publishing.

\* handleRuntimeServerApply up to the write: the existing server, if any, must
\* be an --update and not be retiring; the credential is ensured.
publishCheck(r) ==
    /\ At(r, "start") /\ request[r].op \in {"publish", "update"}
    /\ server # NoObject => request[r].op = "update" /\ ~ server.retiring
    /\ Go(r, "credential")
    /\ UNCHANGED world

\* ensurePublishedServerAnalyticsSecret: created if it is missing.
publishCredential(r) ==
    /\ At(r, "credential")
    /\ IF secret = 0 THEN lastUid' = lastUid + 1 /\ secret' = lastUid + 1
                     ELSE UNCHANGED <<lastUid, secret>>
    /\ lastUid' <= MaxUid
    /\ Go(r, "write")
    /\ UNCHANGED <<server, colliding, grant, sessions, fenced, delivered, abandoned, agentActive>>

\* ApplyServer reads again and creates or replaces what it finds: the
\* annotations it writes are its own, so a retiring mark set since the check is
\* gone.
publishWrite(r) ==
    /\ At(r, "write")
    /\ IF server = NoObject
       THEN /\ lastUid < MaxUid
            /\ lastUid' = lastUid + 1
            /\ server' = [uid |-> lastUid + 1, retiring |-> FALSE, by |-> r]
       ELSE /\ server' = [server EXCEPT !.retiring = FALSE, !.by = r]
            /\ UNCHANGED lastUid
    /\ Go(r, "done")
    /\ UNCHANGED <<secret, colliding, grant, sessions, fenced, delivered, abandoned, agentActive>>

\* A server whose long name is cut to the same credential name is published.
publishColliding ==
    /\ ~ colliding /\ secret # 0
    /\ colliding' = TRUE
    /\ UNCHANGED <<server, secret, grant, sessions, fenced, lastUid, delivered,
                   abandoned, request, agentActive>>

-----------------------------------------------------------------------------
\* Retirement: handleRuntimeServerDelete.

\* The server as its owner or an administrator sees it; without one only an
\* administrator goes on, to recover orphaned access.
retireInspect(r) ==
    /\ At(r, "start") /\ request[r].op = "retire"
    /\ Step(r, [request[r] EXCEPT !.pc = IF server = NoObject THEN "list" ELSE "mark",
                                  !.cur = server])
    /\ UNCHANGED world

\* The retiring annotation, if the object is still the one that was read.
retireMark(r) ==
    /\ At(r, "mark") /\ server = request[r].cur
    /\ server' = [server EXCEPT !.retiring = TRUE, !.by = r]
    /\ Go(r, "list")
    /\ UNCHANGED <<secret, colliding, grant, sessions, fenced, lastUid, delivered,
                   abandoned, agentActive>>

\* Every UID to fence: the server's, and those of stored sessions of its name.
retireList(r) ==
    /\ At(r, "list")
    /\ Step(r, [request[r] EXCEPT !.pc = "fence",
                  !.uids = {sessions[s].uid : s \in {t \in Sids : sessions[t] # NoObject}}
                           \cup (IF request[r].cur = NoObject THEN {} ELSE {request[r].cur.uid})])
    /\ UNCHANGED world

\* RevokeSessions of one UID, one transaction: fenced for ever, and revoked.
retireFence(r) ==
    /\ At(r, "fence")
    /\ IF request[r].uids = {} THEN Go(r, "access") /\ UNCHANGED <<fenced, sessions>>
       ELSE \E u \in request[r].uids :
               /\ fenced' = fenced \cup {u}
               /\ sessions' = [s \in Sids |-> IF Live(sessions[s]) /\ sessions[s].uid = u
                                              THEN [sessions[s] EXCEPT !.revoked = TRUE] ELSE sessions[s]]
               /\ request' = [request EXCEPT ![r].uids = @ \ {u}]
    /\ UNCHANGED <<server, secret, colliding, grant, lastUid, delivered, abandoned, agentActive>>

\* RetireServerAccess: the grant and the sessions that name this server.
retireAccessList(r) ==
    /\ At(r, "access")
    /\ LET rows == {s \in Sids : sessions[s] # NoObject}
       IN Step(r, [request[r] EXCEPT !.pc = "disable", !.grant = grant, !.listed = rows,
                                     !.todo = {s \in rows : ~ sessions[s].revoked}])
    /\ UNCHANGED world

\* The listed grant is disabled unless it is gone; one that changed since it was
\* listed is a conflict.
retireDisable(r) ==
    LET g == request[r].grant
    IN /\ At(r, "disable")
       /\ IF g = NoObject \/ g.disabled \/ grant = NoObject THEN UNCHANGED grant
          ELSE grant = g /\ grant' = [grant EXCEPT !.disabled = TRUE, !.by = r]
       /\ Go(r, "revoke")
       /\ UNCHANGED <<server, secret, colliding, sessions, fenced, lastUid, delivered,
                      abandoned, agentActive>>

\* The listed sessions are revoked, then deleted if they are still the same.
retireSession(r) ==
    /\ request[r].pc \in {"revoke", "delete"}
    /\ IF request[r].todo = {}
       THEN /\ Step(r, IF At(r, "revoke")
                       THEN [request[r] EXCEPT !.pc = "delete", !.todo = request[r].listed]
                       ELSE [request[r] EXCEPT !.pc = "grant"])
            /\ UNCHANGED sessions
       ELSE \E s \in request[r].todo :
               /\ request' = [request EXCEPT ![r].todo = @ \ {s}]
               /\ sessions' = [sessions EXCEPT ![s] = IF @ = NoObject \/ At(r, "delete") THEN NoObject
                                                      ELSE [@ EXCEPT !.revoked = TRUE]]
    /\ UNCHANGED <<server, secret, colliding, grant, fenced, lastUid, delivered, abandoned, agentActive>>

\* The listed grant object is deleted; another of its name is a conflict.
retireGrant(r) ==
    /\ At(r, "grant")
    /\ IF request[r].grant = NoObject \/ grant = NoObject THEN UNCHANGED grant
       ELSE grant.obj = request[r].grant.obj /\ grant' = NoObject
    /\ Go(r, "secret")
    /\ UNCHANGED <<server, secret, colliding, sessions, fenced, lastUid, delivered,
                   abandoned, agentActive>>

\* retireServerCredentials reads the credential and who else uses it ...
retireSecretRead(r) ==
    /\ At(r, "secret")
    /\ Step(r, [request[r] EXCEPT !.secret = secret,
                  !.pc = IF secret = 0 \/ colliding THEN "server" ELSE "unsecret"])
    /\ UNCHANGED world

\* ... and deletes that object.
retireSecret(r) ==
    /\ At(r, "unsecret")
    /\ secret \in {0, request[r].secret}
    /\ secret' = 0
    /\ Go(r, "server")
    /\ UNCHANGED <<server, colliding, grant, sessions, fenced, lastUid, delivered,
                   abandoned, agentActive>>

\* The server object whose authority was checked goes last.
retireServer(r) ==
    /\ At(r, "server")
    /\ IF request[r].cur = NoObject \/ server = NoObject THEN UNCHANGED server
       ELSE server.uid = request[r].cur.uid /\ server' = NoObject
    /\ Go(r, "done")
    /\ UNCHANGED <<secret, colliding, grant, sessions, fenced, lastUid, delivered,
                   abandoned, agentActive>>

-----------------------------------------------------------------------------
\* Grants.

\* handleRuntimeGrantApply: the server is active and the grant is for its UID;
\* without an explicit flag the grant keeps the one it has.
grantCheck(r) ==
    /\ At(r, "start") /\ request[r].op = "grant"
    /\ GetActiveMCPServerRef
    /\ Step(r, [request[r] EXCEPT !.pc = "bind", !.cur = server,
                  !.disabled = grant # NoObject /\ grant.disabled])
    /\ UNCHANGED world

\* bindServerUID: the server, if there still is one, is that same deployment.
grantBind(r) ==
    /\ At(r, "bind")
    /\ server = NoObject \/ (GetActiveMCPServerRef /\ server.uid = request[r].cur.uid)
    /\ Go(r, "apply")
    /\ UNCHANGED world

\* applyUnstructured: created, or replaced under whatever version it has.
grantApply(r) ==
    /\ At(r, "apply")
    /\ grant' = [obj |-> IF grant = NoObject THEN r ELSE grant.obj, by |-> r,
                 uid |-> request[r].cur.uid, disabled |-> request[r].disabled]
    /\ Go(r, "done")
    /\ UNCHANGED <<server, secret, colliding, sessions, fenced, lastUid, delivered,
                   abandoned, agentActive>>

\* handleGrantStateChange: a patch of the one field, whatever the object.
grantToggle(r) ==
    /\ At(r, "start") /\ request[r].op = "toggle" /\ grant # NoObject
    /\ grant' = [grant EXCEPT !.disabled = ~ @, !.by = r]
    /\ Go(r, "done")
    /\ UNCHANGED <<server, secret, colliding, sessions, fenced, lastUid, delivered,
                   abandoned, agentActive>>

-----------------------------------------------------------------------------
\* Adapter sessions and their certificates.

\* selectAdapterGrant: the server is active and the grant is enabled, for the
\* caller and bound to the server's UID.
selectAdapterGrant ==
    /\ GetActiveMCPServerRef
    /\ grant # NoObject /\ ~ grant.disabled /\ grant.uid = server.uid

\* HandleAdapterSession: a grant and an active agent.
issueSelect(r) ==
    /\ At(r, "start") /\ request[r].op = "issue"
    /\ selectAdapterGrant /\ agentActive
    /\ Step(r, [request[r] EXCEPT !.pc = "reuse", !.cur = server])
    /\ UNCHANGED world

\* adapterSessionReusable, adapterSessionWithinGrant: a live one of the grant.
adapterSessionReusable(session) == Live(session) /\ session.uid = server.uid

\* The caller's live session of the present server's UID is handed out again.
issueReuse(r) ==
    /\ At(r, "reuse") /\ server # NoObject
    /\ IF \E s \in Sids : adapterSessionReusable(sessions[s])
       THEN Go(r, "done") ELSE Go(r, "bindSession")
    /\ UNCHANGED world

\* Mutant: a session is bound to whatever server has the name now.
issueBindByName(r) ==
    /\ At(r, "bindSession") /\ GetActiveMCPServerRef
    /\ Step(r, [request[r] EXCEPT !.pc = "put", !.secret = server.uid])
    /\ UNCHANGED world

\* platformSessionBackend.ApplySession: the server is active and the one the
\* grant was selected for.
issueBind(r) ==
    /\ At(r, "bindSession") /\ GetActiveMCPServerRef
    /\ server.uid = request[r].cur.uid
    /\ Step(r, [request[r] EXCEPT !.pc = "put", !.secret = server.uid])
    /\ UNCHANGED world

\* The platform stores the session unless its server is fenced or its agent
\* inactive.
issuePut(r) ==
    /\ At(r, "put") /\ request[r].secret \notin fenced /\ agentActive
    /\ sessions' = [sessions EXCEPT ![r] = [uid |-> request[r].secret, grantUid |-> request[r].cur.uid,
                                            revoked |-> FALSE, pending |-> request[r].op = "issue"]]
    /\ Go(r, IF request[r].op = "issue" THEN "recheck" ELSE "done")
    /\ UNCHANGED <<server, secret, colliding, grant, fenced, lastUid, delivered, abandoned, agentActive>>

\* The agent is looked up once more; a session it may no longer have is revoked.
issueRecheck(r) ==
    /\ At(r, "recheck")
    /\ sessions' = IF agentActive \/ sessions[r] = NoObject THEN sessions
                   ELSE [sessions EXCEPT ![r].revoked = TRUE]
    /\ Go(r, IF agentActive THEN "done" ELSE "failed")
    /\ UNCHANGED <<server, secret, colliding, grant, fenced, lastUid, delivered, abandoned, agentActive>>

\* handleRuntimeSessionApply: an administrator's session is for the server read.
sessionApply(r) ==
    /\ At(r, "start") /\ request[r].op = "apply" /\ GetActiveMCPServerRef
    /\ Step(r, [request[r] EXCEPT !.pc = "bindSession", !.cur = server])
    /\ UNCHANGED world

\* HandleAdapterCertificate: a live session of the present, active deployment.
certCheck(r) ==
    /\ At(r, "start") /\ request[r].op = "certificate"
    /\ \E s \in Sids :
          /\ Live(sessions[s]) /\ GetActiveMCPServerRef /\ server.uid = sessions[s].uid
          /\ Step(r, [request[r] EXCEPT !.pc = "issued", !.sid = s])
    /\ UNCHANGED world

\* issueSessionCertificateDER took its time: the session is read again.
certConfirm(r) ==
    /\ At(r, "issued") /\ Live(sessions[request[r].sid])
    /\ Go(r, IF sessions[request[r].sid].pending THEN "complete" ELSE "respond")
    /\ UNCHANGED world

\* CompleteSessionEnrollment: the live session stops being pending.
certComplete(r) ==
    /\ At(r, "complete") /\ Live(sessions[request[r].sid])
    /\ sessions' = [sessions EXCEPT ![request[r].sid].pending = FALSE]
    /\ Go(r, "respond")
    /\ UNCHANGED <<server, secret, colliding, grant, fenced, lastUid, delivered, abandoned, agentActive>>

\* The certificate is recorded and returned.
certRespond(r) ==
    /\ At(r, "respond")
    /\ delivered' = delivered \cup {request[r].sid}
    /\ Go(r, "done")
    /\ UNCHANGED <<server, secret, colliding, grant, sessions, fenced, lastUid, abandoned, agentActive>>

\* HandleAdapterSessionItemPath: the owner gives up a pending enrollment ...
abandonCheck(r) ==
    /\ At(r, "start") /\ request[r].op = "abandon"
    /\ \E s \in Sids : /\ sessions[s] # NoObject /\ sessions[s].pending
                       /\ Step(r, [request[r] EXCEPT !.pc = "discard", !.sid = s])
    /\ UNCHANGED world

\* ... which DeletePendingSession removes only if it still is one.
abandon(r) ==
    /\ At(r, "discard") /\ sessions[request[r].sid] # NoObject /\ sessions[request[r].sid].pending
    /\ sessions' = [sessions EXCEPT ![request[r].sid] = NoObject]
    /\ abandoned' = abandoned \cup {request[r].sid}
    /\ Go(r, "done")
    /\ UNCHANGED <<server, secret, colliding, grant, fenced, lastUid, delivered, agentActive>>

\* handleSessionStateChange and handleSessionDelete: one call to the platform,
\* which lifts no revocation of a fenced server.
moderateSession(r) ==
    /\ At(r, "start") /\ request[r].op = "moderate"
    /\ \E s \in Sids, to \in {"revoked", "unrevoked", "deleted"} :
          /\ sessions[s] # NoObject
          /\ to = "unrevoked" => sessions[s].uid \notin fenced /\ agentActive
          /\ sessions' = [sessions EXCEPT ![s] = IF to = "deleted" THEN NoObject
                                                 ELSE [@ EXCEPT !.revoked = to = "revoked"]]
    /\ Go(r, "done")
    /\ UNCHANGED <<server, secret, colliding, grant, fenced, lastUid, delivered, abandoned, agentActive>>

\* HandleRuntimeAgentPath: the platform sets the agent's status and revokes its
\* sessions with it; revokeAgentSessions finds none left to revoke.
moderateAgent(r) ==
    /\ At(r, "start") /\ request[r].op = "moderate"
    /\ agentActive' = ~ agentActive
    /\ sessions' = [s \in Sids |-> IF agentActive /\ Live(sessions[s])
                                   THEN [sessions[s] EXCEPT !.revoked = TRUE] ELSE sessions[s]]
    /\ Go(r, "done")
    /\ UNCHANGED <<server, secret, colliding, grant, fenced, lastUid, delivered, abandoned>>

\* handleGrantDelete; handleGrantRevokeSessions: every session of the grant.
moderateGrant(r) ==
    /\ At(r, "start") /\ request[r].op = "moderate" /\ grant # NoObject
    /\ \/ grant' = NoObject /\ UNCHANGED sessions
       \/ /\ sessions' = [s \in Sids |-> IF sessions[s] = NoObject THEN NoObject
                                         ELSE [sessions[s] EXCEPT !.revoked = TRUE]]
          /\ UNCHANGED grant
    /\ Go(r, "done")
    /\ UNCHANGED <<server, secret, colliding, fenced, lastUid, delivered, abandoned, agentActive>>

-----------------------------------------------------------------------------
RetireNext ==
    \/ publishColliding
    \/ \E r \in Requests :
          \/ fail(r)
          \/ publishCheck(r) \/ publishCredential(r) \/ publishWrite(r)
          \/ retireInspect(r) \/ retireMark(r) \/ retireList(r) \/ retireFence(r)
          \/ retireAccessList(r) \/ retireDisable(r) \/ retireSession(r) \/ retireGrant(r)
          \/ retireSecretRead(r) \/ retireSecret(r) \/ retireServer(r)
          \/ grantCheck(r) \/ grantBind(r) \/ grantApply(r) \/ grantToggle(r)
          \/ issueSelect(r) \/ issueReuse(r) \/ issueBind(r) \/ issuePut(r) \/ sessionApply(r)
          \/ certCheck(r) \/ certConfirm(r) \/ certComplete(r) \/ certRespond(r)
          \/ abandonCheck(r) \/ abandon(r) \/ moderateSession(r)
          \/ issueRecheck(r) \/ moderateAgent(r) \/ moderateGrant(r)
RetireSpec == RetireInit /\ [][RetireNext]_retireVars

-----------------------------------------------------------------------------
RetireTypeOK ==
    /\ server \in Server \cup {NoObject} /\ secret \in 0 .. MaxUid
    /\ colliding \in BOOLEAN /\ agentActive \in BOOLEAN
    /\ grant \in Grant \cup {NoObject}
    /\ sessions \in [Sids -> Session \cup {NoObject}]
    /\ fenced \subseteq 1 .. MaxUid /\ lastUid \in 1 .. MaxUid
    /\ delivered \subseteq Sids /\ abandoned \subseteq Sids
    /\ \A r \in Requests : request[r] \in Local

\* A session acts on the deployment its grant was made for and on no later one
\* of the same name, however long its issue takes (HandleAdapterSession).
AuthorityNotInherited ==
    \A s \in Sids : Live(sessions[s]) => sessions[s].uid = sessions[s].grantUid

\* Once a deployment is retired nobody holds a live session of it: neither one
\* that was being issued meanwhile nor one whose revocation is lifted later
\* (handleRuntimeServerDelete fences before it deletes).
DeadServerNoSession ==
    \A s \in Sids : Live(sessions[s]) => server # NoObject /\ server.uid = sessions[s].uid

\* A session whose certificate was handed out is never taken back as abandoned
\* by a cleanup that looked at it earlier (DeletePendingSession).
EnrollmentSurvives == delivered \cap abandoned = {}

\* A retirement takes only what it read, however long it takes: the credential, the server and the grant objects
\* themselves, not others that have their names by then, and only sessions that it listed or whose deployment it
\* collected (retireServerCredentials, handleRuntimeServerDelete, RetireServerAccess).  It lists by name: what a
\* replacement has by the time a slow retirement lists, its sessions and its grant, goes with the rest.
RetiresWhatItRead ==
    [][\A r \in Requests : request[r].op = "retire" /\ request'[r] # request[r] =>
          /\ secret' # secret => secret' = 0 /\ request[r].secret = secret
          /\ server # NoObject /\ server' = NoObject => request[r].cur # NoObject /\ request[r].cur.uid = server.uid
          /\ grant # NoObject /\ grant' = NoObject => request[r].grant # NoObject /\ request[r].grant.obj = grant.obj
          /\ \A s \in Sids : Live(sessions[s]) /\ ~ Live(sessions'[s]) =>
                s \in request[r].listed \/ sessions[s].uid \in request[r].uids]_retireVars
\* A server's name may be used again, its authority may not: however requests on one name interleave and
\* fail half way, no session outlives its deployment or acts on the next, no enrollment that was delivered
\* is taken back, and a retirement takes nothing it did not read.
ServerAuthority ==
    [](RetireTypeOK /\ AuthorityNotInherited /\ DeadServerNoSession /\ EnrollmentSurvives) /\ RetiresWhatItRead
=============================================================================
