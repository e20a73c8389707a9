------------------------------ MODULE SessionLog ------------------------------
(***************************************************************************)
(* What the platform promises to the gateway of one server: the server's   *)
(* active sessions, a log of the changes to them and a cursor into it.     *)
(* services/platform-api/internal/platformstore/sessions.go                *)
(* (appendSessionChange, SessionSnapshot, SessionChanges) without the      *)
(* table behind it, which SessionStore models and which implements this.   *)
(***************************************************************************)
EXTENDS Integers, FiniteSets, Sequences, FiniteSetsExt

CONSTANTS
    Ids,          \* session identities
    Rows,         \* what an active session of this server may be
    NoRow,        \* no active session
    Other,        \* stands for a session of another server
    Retention,    \* sessionChangeRetention
    ChangeLimit,  \* sessionstate.ChangeLimit
    MaxBatch,     \* bound: changes in one transaction
    MaxSeq,       \* bound: changes ever logged
    MaxEpoch      \* bound: starts of the platform API

ASSUME LogAssumption ==
    /\ Other \notin Ids
    /\ NoRow \notin Rows
    /\ Retention \in Nat \ {0}
    /\ ChangeLimit \in Nat \ {0}
    /\ MaxBatch \in Nat \ {0}
    /\ MaxSeq \in Nat
    /\ MaxEpoch \in Nat \ {0}

VARIABLES
    view,        \* the server's active sessions
    log,         \* its changes in session_changes; a delete carries NoRow
    sequence,    \* session_sync_state.sequence, of all servers
    floor,       \* session_sync_state.floor
    epoch,       \* session_sync_state.epoch
    past         \* history: past[n] is the view after change n, n >= floor

logVars == <<view, log, sequence, floor, epoch, past>>

-----------------------------------------------------------------------------
View == [Ids -> Rows \cup {NoRow}]
Nothing == [id \in Ids |-> NoRow]
Change == [seq : Nat, id : Ids, row : Rows \cup {NoRow}]

LogInit ==
    /\ view = Nothing
    /\ log = {}
    /\ sequence = 0
    /\ floor = 0
    /\ epoch = 1
    /\ past = [n \in {0} |-> Nothing]

\* Only Retention changes are kept; floor is the last one removed.
FloorAfter(seq) ==
    IF seq - Retention > floor THEN seq - Retention ELSE floor

\* One transaction: the sessions of order change one by one, none twice, each
\* with its own sequence number; what they become is given by view'.
Commit(order) ==
    LET n == Len(order)
        changed(i) == {order[j] : j \in 1 .. i}
        after(i) == [id \in Ids |-> IF id \in changed(i) THEN view'[id]
                                    ELSE view[id]]
        added == {[seq |-> sequence + i, id |-> order[i],
                   row |-> view'[order[i]]] :
                      i \in {j \in 1 .. n : order[j] # Other}}
    IN /\ sequence + n <= MaxSeq
       /\ \A i, j \in 1 .. n : order[i] = order[j] => i = j \/ order[i] = Other
       /\ \A id \in Ids \ changed(n) : view'[id] = view[id]
       /\ sequence' = sequence + n
       /\ log' = {c \in log \cup added : c.seq > sequence + n - Retention}
       /\ floor' = FloorAfter(sequence + n)
       /\ past' = [c \in floor' .. sequence + n |->
                      IF c \in DOMAIN past THEN past[c] ELSE after(c - sequence)]
       /\ UNCHANGED epoch

Orders == UNION {[1 .. n -> Ids \cup {Other}] : n \in 1 .. MaxBatch}

CommitSome == view' \in View /\ \E order \in Orders : Commit(order)

\* initializeSessions: a platform API process starts and rotates the epoch.
Rotate ==
    /\ epoch < MaxEpoch
    /\ epoch' = epoch + 1
    /\ UNCHANGED <<view, log, sequence, floor, past>>

LogNext == CommitSome \/ Rotate

LogSpec == LogInit /\ [][LogNext]_logVars

-----------------------------------------------------------------------------
\* Reading: one repeatable-read transaction.

SessionSnapshot ==
    [kind |-> "snapshot", epoch |-> epoch, sequence |-> sequence,
     sessions |-> view]

Expired(e, after) == e # epoch \/ after < floor \/ after > sequence

ChangesAfter(after) == {c \in log : c.seq > after}

\* At most ChangeLimit changes, the oldest first; a page that is not the last
\* ends at its own last change.
SessionChanges(e, after) ==
    LET all  == ChangesAfter(after)
        page == {c \in all : Cardinality({d \in all : d.seq <= c.seq})
                                 <= ChangeLimit}
        more == page # all
    IN IF Expired(e, after)
       THEN [kind |-> "gone"]
       ELSE [kind |-> "changes", epoch |-> epoch, changes |-> page,
             more |-> more,
             sequence |-> IF more THEN Max({c.seq : c \in page}) ELSE sequence]

\* What a reader's map m becomes when it applies the changes cs in order: for
\* each session the last change counts.
Apply(m, cs) ==
    [id \in Ids |->
        IF \E c \in cs : c.id = id
        THEN (CHOOSE c \in cs : /\ c.id = id
                                /\ \A d \in cs : d.id = id => d.seq <= c.seq).row
        ELSE m[id]]

-----------------------------------------------------------------------------
\* Properties.

LogTypeOK ==
    /\ view \in View
    /\ log \subseteq Change
    /\ sequence \in Nat
    /\ floor \in 0 .. sequence
    /\ epoch \in Nat \ {0}
    /\ past \in [floor .. sequence -> View]

\* The log is a faithful account between any two moments that it still covers:
\* a reader at cursor a that applies the changes up to b has the view as it was
\* after change b, so no page, wherever it ends, shows a state that never was.
LogReplays ==
    \A a \in floor .. sequence : \A b \in a .. sequence :
        Apply(past[a], {c \in log : a < c.seq /\ c.seq <= b}) = past[b]
=============================================================================
