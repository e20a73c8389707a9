----------------------------- MODULE SessionStore -----------------------------
(***************************************************************************)
(* The platform's session table, its change log and its fences:            *)
(* services/platform-api/internal/platformstore/sessions.go,               *)
(* session_enrollment.go, agents.go (SetAgentStatus) and user_lifecycle.go *)
(* (DeactivateUser).                                                       *)
(*                                                                         *)
(* Every mutation first locks the one row of session_sync_state and holds  *)
(* it until commit, so a mutation is one action; a mutation that returns   *)
(* an error rolls back and is no step.  Left out: a session's expiry (each *)
(* request checks it against the binding it uses) and the session UID      *)
(* (identities are never reused, so it is a function of the identity).     *)
(***************************************************************************)
EXTENDS Integers, FiniteSets, Sequences

CONSTANTS
    Ids,          \* session identities, namespace/name
    Servers,      \* MCP server UIDs
    Agents,       \* directory agents
    Humans,       \* platform accounts
    None,         \* no agent, no human
    NoRow,        \* no session
    Watched,      \* any one of the servers
    Retention,    \* sessionChangeRetention
    MaxSeq,       \* bound: changes ever logged
    MaxEpoch      \* bound: starts of the platform API

ASSUME StoreAssumption ==
    /\ IsFiniteSet(Ids)
    /\ None \notin Agents \cup Humans \cup Servers \cup Ids
    /\ Watched \in Servers
    /\ Retention \in Nat \ {0}
    /\ MaxSeq \in Nat /\ MaxEpoch \in Nat \ {0}

VARIABLES
    rows,        \* table sessions: Ids -> Row or NoRow
    changes,     \* table session_changes
    sequence,    \* session_sync_state.sequence
    floor,       \* session_sync_state.floor
    epoch,       \* session_sync_state.epoch
    retired,     \* table session_retired_servers
    deleted,     \* table session_deleted_identities
    inactive,    \* agents whose status is inactive, accounts deactivated
    past,        \* history: past[n] is the table after change n, n >= floor
    bound        \* history: the server an identity was first issued for

storeVars == <<rows, changes, sequence, floor, epoch, retired, deleted,
               inactive, past, bound>>

-----------------------------------------------------------------------------
\* What the code tells apart in a session; a team's own has no agent, no human.
Row == [server : Servers, agent : Agents \cup {None},
        human : Humans \cup {None}, pending : BOOLEAN, revoked : BOOLEAN]
Table == [Ids -> Row \cup {NoRow}]

ASSUME RowAssumption == NoRow \notin Row

\* A row that authorizes anything, and the ones of server s in table t.
Active(row) == row # NoRow /\ ~ row.revoked
ActiveRows(t, s) ==
    [id \in Ids |-> IF Active(t[id]) /\ t[id].server = s THEN t[id] ELSE NoRow]

\* One entry of the log: an upsert carries the row, a delete carries nothing.
Change == [seq : Nat, server : Servers, id : Ids, row : Row \cup {NoRow}]

StoreInit ==
    /\ rows = [id \in Ids |-> NoRow]
    /\ changes = {}
    /\ sequence = 0
    /\ floor = 0
    /\ epoch = 1
    /\ retired = {}
    /\ deleted = {}
    /\ inactive = {}
    /\ past = [n \in {0} |-> rows]
    /\ bound = [id \in Ids |-> None]

-----------------------------------------------------------------------------
\* Writing.

\* Mutant: a revocation is logged as the update of the row that it is.
LoggedAsUpdate(row, gone) == IF gone THEN NoRow ELSE row

\* A deleted or revoked session is logged as a delete.
Logged(row, gone) == IF gone \/ row.revoked THEN NoRow ELSE row

\* Only Retention changes are kept; floor is the last one removed.
FloorAfter(seq) ==
    IF seq - Retention > floor THEN seq - Retention ELSE floor

\* Rows os are written (or, if gone, removed) in the order order, each with its
\* own sequence number, in one transaction.
Write(order, os, gone) ==
    LET n == Len(order)
        after(i) == [id \in Ids |->
                        IF \E j \in 1 .. i : order[j] = id
                        THEN IF gone THEN NoRow ELSE os[id]
                        ELSE rows[id]]
        logged == {[seq |-> sequence + i, server |-> os[order[i]].server,
                    id |-> order[i], row |-> Logged(os[order[i]], gone)] :
                       i \in 1 .. n}
    IN /\ sequence + n <= MaxSeq
       /\ rows' = after(n)
       /\ sequence' = sequence + n
       /\ changes' = {c \in changes \cup logged :
                         c.seq > sequence + n - Retention}
       /\ floor' = FloorAfter(sequence + n)
       /\ past' = [c \in floor' .. sequence + n |->
                      IF c \in DOMAIN past THEN past[c]
                      ELSE after(c - sequence)]
       /\ bound' = [id \in Ids |-> IF rows'[id] # NoRow /\ bound[id] = None
                                   THEN rows'[id].server ELSE bound[id]]

\* writeSession of one row.
WriteOne(id, row) ==
    Write(<<id>>, [rows EXCEPT ![id] = row], FALSE)

\* The ways of going through the rows S, in whatever order SQL returns them.
Orders(S) == {f \in [1 .. Cardinality(S) -> S] :
                 \A i, j \in 1 .. Cardinality(S) : i # j => f[i] # f[j]}

\* revokeSessionsTx: every active row of match is revoked.
revokeSessionsTx(match) ==
    LET hit == {id \in match : Active(rows[id])}
    IN \E order \in Orders(hit) :
          Write(order, [id \in Ids |-> IF id \in hit
                                       THEN [rows[id] EXCEPT !.revoked = TRUE]
                                       ELSE rows[id]], FALSE)

-----------------------------------------------------------------------------
\* Issuing, revoking, deleting.

\* checkSessionHuman and checkSessionAgent.
SubjectOk(row) == row.human \notin inactive /\ row.agent \notin inactive

\* A new session, or the replacement of one for the same server, which may also
\* lift its revocation.
PutSession(id, row) ==
    /\ row.server \notin retired
    /\ id \notin deleted
    /\ SubjectOk(row)
    /\ rows[id] # NoRow => rows[id].server = row.server
    /\ WriteOne(id, row)
    /\ UNCHANGED <<epoch, retired, deleted, inactive>>

\* Mutant: lifting a revocation does not look at the fences.
SetSessionRevokedUnfenced(id, revoked) ==
    /\ rows[id] # NoRow
    /\ WriteOne(id, [rows[id] EXCEPT !.revoked = revoked])
    /\ UNCHANGED <<epoch, retired, deleted, inactive>>

SetSessionRevoked(id, revoked) ==
    /\ rows[id] # NoRow
    /\ ~ revoked => rows[id].server \notin retired /\ SubjectOk(rows[id])
    /\ WriteOne(id, [rows[id] EXCEPT !.revoked = revoked])
    /\ UNCHANGED <<epoch, retired, deleted, inactive>>

\* deleteSessionTx: the identity stays reserved for ever.
deleteSessionTx(id) ==
    /\ deleted' = deleted \cup {id}
    /\ Write(<<id>>, rows, TRUE)
    /\ UNCHANGED <<epoch, retired, inactive>>

DeleteSession(id) ==
    /\ rows[id] # NoRow
    /\ deleteSessionTx(id)

\* Enrollment ends: the pending mark goes, authority stays what it is.
CompleteSessionEnrollment(id) ==
    /\ Active(rows[id])
    /\ rows[id].agent \notin inactive
    /\ rows[id].pending
    /\ WriteOne(id, [rows[id] EXCEPT !.pending = FALSE])
    /\ UNCHANGED <<epoch, retired, deleted, inactive>>

\* Enrollment is given up by its owner.
DeletePendingSession(id, human) ==
    /\ rows[id] # NoRow
    /\ rows[id].human = human /\ rows[id].pending
    /\ deleteSessionTx(id)

\* Bulk revocation of the sessions of a server, an agent or a grant: grants are
\* not modelled and one may have issued any of the rows.
RevokeSessions(match) ==
    /\ revokeSessionsTx(match)
    /\ UNCHANGED <<epoch, retired, deleted, inactive>>

OfServer(s) == {id \in Ids : rows[id] # NoRow /\ rows[id].server = s}
OfSubject(x) == {id \in Ids : rows[id] # NoRow
                              /\ (rows[id].agent = x \/ rows[id].human = x)}

\* Bulk revocation with cause server_retired: the server UID is fenced too.
RetireServer(s) ==
    /\ retired' = retired \cup {s}
    /\ revokeSessionsTx(OfServer(s))
    /\ UNCHANGED <<epoch, deleted, inactive>>

SetAgentStatus(a, active) ==
    /\ inactive' = IF active THEN inactive \ {a} ELSE inactive \cup {a}
    /\ IF active
       THEN UNCHANGED <<rows, changes, sequence, floor, past, bound>>
       ELSE revokeSessionsTx(OfSubject(a))
    /\ UNCHANGED <<epoch, retired, deleted>>

\* Irreversible; the checks that may refuse it (last administrator, last team
\* owner) concern no session.
DeactivateUser(u) ==
    /\ inactive' = inactive \cup {u}
    /\ revokeSessionsTx(OfSubject(u))
    /\ UNCHANGED <<epoch, retired, deleted>>

\* initializeSessions: a platform API process starts and rotates the epoch.
initializeSessions ==
    /\ epoch < MaxEpoch
    /\ epoch' = epoch + 1
    /\ UNCHANGED <<rows, changes, sequence, floor, retired, deleted, inactive,
                   past, bound>>

StoreNext ==
    \/ \E id \in Ids :
         \/ \E row \in Row : PutSession(id, row)
         \/ \E revoked \in BOOLEAN : SetSessionRevoked(id, revoked)
         \/ DeleteSession(id)
         \/ CompleteSessionEnrollment(id)
         \/ \E u \in Humans : DeletePendingSession(id, u)
    \/ \E match \in SUBSET Ids : RevokeSessions(match)
    \/ \E s \in Servers : RetireServer(s)
    \/ \E a \in Agents, active \in BOOLEAN : SetAgentStatus(a, active)
    \/ \E u \in Humans : DeactivateUser(u)
    \/ initializeSessions

StoreSpec == StoreInit /\ [][StoreNext]_storeVars

-----------------------------------------------------------------------------
\* What the gateway of one server can see of the table: SessionLog.

Log == INSTANCE SessionLog WITH
    Rows <- {r \in Row : r.server = Watched /\ ~ r.revoked},
    Other <- None,
    ChangeLimit <- 1,
    MaxBatch <- Cardinality(Ids),
    view <- ActiveRows(rows, Watched),
    log <- {[seq |-> c.seq, id |-> c.id, row |-> c.row] :
               c \in {d \in changes : d.server = Watched}},
    past <- [n \in DOMAIN past |-> ActiveRows(past[n], Watched)]

-----------------------------------------------------------------------------
\* Properties.

StoreTypeOK ==
    /\ rows \in Table
    /\ changes \subseteq Change
    /\ sequence \in Nat
    /\ floor \in Nat
    /\ epoch \in Nat
    /\ retired \subseteq Servers
    /\ deleted \subseteq Ids
    /\ inactive \subseteq Agents \cup Humans
    /\ past \in [floor .. sequence -> Table]
    /\ bound \in [Ids -> Servers \cup {None}]

\* No authority behind a fence: an active session's server is not retired and
\* its agent and its human are active, in whatever order issuance,
\* un-revocation, enrollment, retirement and deactivation commit.
AuthorityFenced ==
    \A id \in Ids : Active(rows[id]) =>
        /\ rows[id].server \notin retired
        /\ SubjectOk(rows[id])

\* An identity, which certificates carry, never comes to mean another session:
\* neither by replacement nor by deletion and re-issue.
IdentityNeverRebound ==
    \A id \in Ids : rows[id] # NoRow =>
        rows[id].server = bound[id] /\ id \notin deleted

\* The table, its fences and its bulk transactions give every server's gateway
\* what SessionLog says: each transaction is a run of changes to that server's
\* active sessions, numbered without a gap and logged as what they did.
ImplementsLog == Log!LogSpec
\* The store keeps authority behind its fences: whatever order issuance,
\* enrollment, un-revocation, retirement and deactivation commit in, no active
\* session stands behind a fence and no certificate's identity changes its meaning.
SessionsFenced == StoreTypeOK /\ AuthorityFenced /\ IdentityNeverRebound
=============================================================================
