-------------------------- MODULE SessionStoreProofs --------------------------
(***************************************************************************)
(* Proofs about SessionStore, for any numbers of sessions, servers, agents *)
(* and people, any retention and any length of the log.                    *)
(*                                                                         *)
(* SessionsFenced is not inductive by itself: that no identity is bound    *)
(* anew needs to know that an identity once bound is in the table or in    *)
(* session_deleted_identities, and that the log is what the floor says     *)
(* needs bounds on its entries.  StoreInv adds both.  Everything a         *)
(* transaction does is shown of Write, for any sequence of distinct rows   *)
(* (Writable); the actions are then the three ways the code has of calling *)
(* it: one row, one deletion, and the bulk revocation in any row order.    *)
(***************************************************************************)
EXTENDS SessionStore, TLAPS, FiniteSetTheorems, SequenceTheorems

\* The log covers what the floor says it covers.
LogBounds ==
    /\ floor <= sequence
    /\ sequence - Retention <= floor
    /\ \A c \in changes : c.seq <= sequence /\ c.seq > sequence - Retention

\* An identity that was used is in the table or reserved for ever.
BoundIsKept ==
    \A id \in Ids : bound[id] # None => rows[id] # NoRow \/ id \in deleted

StoreInv == SessionsFenced /\ LogBounds /\ BoundIsKept

-----------------------------------------------------------------------------
\* What a transaction does.

\* The table after the first i of its rows are written.
WrittenTo(order, os, gone, i) ==
    [id \in Ids |-> IF \E j \in 1 .. i : order[j] = id
                    THEN IF gone THEN NoRow ELSE os[id]
                    ELSE rows[id]]

\* An order in which SQL may return rows is a sequence of them without repetition.
LEMMA OrderIsSequence ==
  ASSUME StoreAssumption, NEW S, S \subseteq Ids, NEW order \in Orders(S)
  PROVE  /\ order \in Seq(Ids)
         /\ Len(order) = Cardinality(S)
         /\ Cardinality(S) \in Nat /\ Cardinality(S) <= Cardinality(Ids)
         /\ \A i \in 1 .. Len(order) : order[i] \in S
         /\ \A i, j \in 1 .. Len(order) : order[i] = order[j] => i = j
         /\ \A id \in S : \E i \in 1 .. Len(order) : order[i] = id
<1>1. IsFiniteSet(S) /\ Cardinality(S) \in Nat /\ Cardinality(S) <= Cardinality(Ids)
  BY FS_Subset, FS_CardinalityType DEF StoreAssumption
<1> DEFINE n == Cardinality(S)
<1>2. order \in [1 .. n -> S] /\ \A i, j \in 1 .. n : i # j => order[i] # order[j]
  BY DEF Orders
<1>3. order \in Seq(S)
  BY <1>1, <1>2, SeqDef
<1>4. order \in Seq(Ids)
  BY <1>3, SeqMonotonic
<1>5. Len(order) = n
  <2>1. Len(order) \in Nat /\ DOMAIN order = 1 .. Len(order)
    BY <1>3, LenProperties
  <2>2. 1 .. Len(order) = 1 .. n
    BY <2>1, <1>2
  <2> QED BY <2>1, <2>2, <1>1
<1>6. order \in Bijection(1 .. n, S)
  <2>1. order \in Injection(1 .. n, S)
    BY <1>2 DEF Injection, IsInjective
  <2>2. IsFiniteSet(1 .. n) /\ Cardinality(1 .. n) = n
    BY <1>1, FS_Interval
  <2>3. order \in Surjection(1 .. n, S)
    BY <2>1, <2>2, <1>1, FS_Injection
  <2> QED BY <2>1, <2>3 DEF Bijection
<1>7. \A id \in S : \E i \in 1 .. n : order[i] = id
  BY <1>6 DEF Bijection, Surjection
<1> QED BY <1>1, <1>2, <1>4, <1>5, <1>7

\* The arguments transactions come with: rows of the table, none twice, none
\* under another server.
Writable(order, os) ==
    /\ order \in Seq(Ids)
    /\ \A i, j \in 1 .. Len(order) : order[i] = order[j] => i = j
    /\ os \in Table
    /\ \A i \in 1 .. Len(order) :
          /\ os[order[i]] \in Row
          /\ rows[order[i]] # NoRow => os[order[i]].server = rows[order[i]].server

\* A transaction on such a sequence leaves every table and its log well formed.
LEMMA WriteTyped ==
  ASSUME StoreAssumption, StoreTypeOK, LogBounds, NEW order, NEW os, NEW gone \in BOOLEAN,
         Writable(order, os), Write(order, os, gone)
  PROVE  /\ rows' \in Table
         /\ changes' \subseteq Change
         /\ sequence' \in Nat
         /\ floor' \in Nat
         /\ past' \in [floor' .. sequence' -> Table]
         /\ bound' \in [Ids -> Servers \cup {None}]
         /\ LogBounds'
<1> DEFINE n == Len(order)
           after(i) == WrittenTo(order, os, gone, i)
           logged == {[seq |-> sequence + i, server |-> os[order[i]].server,
                       id |-> order[i], row |-> Logged(os[order[i]], gone)] : i \in 1 .. n}
<1>1. n \in Nat /\ \A i \in 1 .. n : order[i] \in Ids
  BY ElementOfSeq, LenProperties DEF Writable
<1>2. \A i : after(i) \in Table
  BY DEF WrittenTo, StoreTypeOK, Table, Writable
<1>3. /\ rows' = after(n)
      /\ sequence' = sequence + n
      /\ changes' = {c \in changes \cup logged : c.seq > sequence + n - Retention}
      /\ floor' = FloorAfter(sequence + n)
      /\ past' = [c \in floor' .. sequence + n |->
                     IF c \in DOMAIN past THEN past[c] ELSE after(c - sequence)]
      /\ bound' = [id \in Ids |-> IF rows'[id] # NoRow /\ bound[id] = None
                                  THEN rows'[id].server ELSE bound[id]]
  BY DEF Write, WrittenTo
<1>4. Retention \in Nat \ {0} /\ sequence \in Nat /\ floor \in Nat
  BY DEF StoreAssumption, StoreTypeOK
<1>5. logged \subseteq Change /\ \A c \in logged : c.seq <= sequence + n
  <2> SUFFICES ASSUME NEW i \in 1 .. n
               PROVE  /\ [seq |-> sequence + i, server |-> os[order[i]].server,
                          id |-> order[i], row |-> Logged(os[order[i]], gone)] \in Change
                      /\ sequence + i <= sequence + n
    OBVIOUS
  <2>1. os[order[i]] \in Row /\ order[i] \in Ids
    BY <1>1 DEF Writable
  <2>2. sequence + i \in Nat /\ sequence + i <= sequence + n
    BY <1>1, <1>4
  <2>3. os[order[i]].server \in Servers /\ Logged(os[order[i]], gone) \in Row \cup {NoRow}
    BY <2>1 DEF Row, Logged
  <2> QED BY <2>1, <2>2, <2>3 DEF Change
<1>6. rows' \in Table /\ sequence' \in Nat
  BY <1>1, <1>2, <1>3, <1>4
<1>7. changes' \subseteq Change
  BY <1>3, <1>5 DEF StoreTypeOK
<1>8. floor' \in Nat /\ floor' <= sequence' /\ sequence' - Retention <= floor'
  BY <1>1, <1>3, <1>4 DEF FloorAfter, LogBounds
<1>9. past' \in [floor' .. sequence' -> Table]
  BY <1>2, <1>3 DEF StoreTypeOK
<1>10. bound' \in [Ids -> Servers \cup {None}]
  BY <1>3, <1>6 DEF StoreTypeOK, Table, Row
<1>11. LogBounds'
  <2>1. \A c \in changes' : c.seq <= sequence' /\ c.seq > sequence' - Retention
    <3> SUFFICES ASSUME NEW c \in changes'
                 PROVE  c.seq <= sequence' /\ c.seq > sequence' - Retention
      OBVIOUS
    <3>1. c.seq > sequence + n - Retention /\ c \in changes \cup logged
      BY <1>3
    <3>2. c \in changes => c.seq <= sequence /\ c.seq \in Nat
      BY DEF LogBounds, StoreTypeOK, Change
    <3> QED BY <1>1, <1>3, <1>4, <1>5, <3>1, <3>2
  <2> QED BY <1>8, <2>1 DEF LogBounds
<1> QED BY <1>6, <1>7, <1>8, <1>9, <1>10, <1>11

\* The two forms a transaction has: one row, or the active ones of a set.
LEMMA WriteOneWritable ==
  ASSUME StoreTypeOK, NEW id \in Ids, NEW row \in Row, WriteOne(id, row),
         rows[id] # NoRow => rows[id].server = row.server
  PROVE  LET os == [rows EXCEPT ![id] = row]
         IN  /\ Writable(<<id>>, os) /\ Write(<<id>>, os, FALSE)
             /\ rows' = os
<1> DEFINE os == [rows EXCEPT ![id] = row]
<1>1. /\ <<id>> \in Seq(Ids) /\ Len(<<id>>) = 1 /\ <<id>>[1] = id
  OBVIOUS
<1>2. rows \in Table /\ os \in Table /\ os[id] = row
  BY DEF StoreTypeOK, Table
<1>3. Writable(<<id>>, os)
  BY <1>1, <1>2 DEF Writable
<1>4. Write(<<id>>, os, FALSE)
  BY DEF WriteOne
<1>5. rows' = os
  <2>1. rows' \in [Ids -> Row \cup {NoRow}]
    BY <1>4, <1>2, <1>1 DEF Write, Table
  <2>2. ASSUME NEW x \in Ids PROVE rows'[x] = os[x]
    <3>1. rows'[x] = IF \E j \in 1 .. 1 : <<id>>[j] = x THEN os[x] ELSE rows[x]
      BY <1>4, <1>1 DEF Write
    <3>2. (\E j \in 1 .. 1 : <<id>>[j] = x) <=> x = id
      BY <1>1
    <3> QED BY <3>1, <3>2, <1>2 DEF Table
  <2> QED BY <2>1, <2>2, <1>2 DEF Table
<1> QED BY <1>3, <1>4, <1>5

\* deleteSessionTx takes its one row out of the table.
LEMMA DeleteWritable ==
  ASSUME StoreTypeOK, NEW id \in Ids, rows[id] # NoRow, deleteSessionTx(id)
  PROVE  /\ Writable(<<id>>, rows) /\ Write(<<id>>, rows, TRUE)
         /\ rows' = [rows EXCEPT ![id] = NoRow]
<1>1. /\ <<id>> \in Seq(Ids) /\ Len(<<id>>) = 1 /\ <<id>>[1] = id
  OBVIOUS
<1>2. rows \in Table /\ rows[id] \in Row
  BY DEF StoreTypeOK, Table
<1>3. Writable(<<id>>, rows)
  BY <1>1, <1>2 DEF Writable
<1>4. Write(<<id>>, rows, TRUE)
  BY DEF deleteSessionTx
<1>5. rows' \in [Ids -> Row \cup {NoRow}]
  BY <1>4, <1>2, <1>1 DEF Write, Table
<1>6. ASSUME NEW x \in Ids PROVE rows'[x] = [rows EXCEPT ![id] = NoRow][x]
  <2>1. rows'[x] = IF \E j \in 1 .. 1 : <<id>>[j] = x THEN NoRow ELSE rows[x]
    BY <1>4, <1>1 DEF Write
  <2>2. (\E j \in 1 .. 1 : <<id>>[j] = x) <=> x = id
    BY <1>1
  <2> QED BY <2>1, <2>2, <1>2 DEF Table
<1> QED BY <1>2, <1>3, <1>4, <1>5, <1>6 DEF Table

\* The table after the active rows of match are revoked.
Revoked(match) ==
    [id \in Ids |-> IF id \in match /\ Active(rows[id])
                    THEN [rows[id] EXCEPT !.revoked = TRUE] ELSE rows[id]]

\* revokeSessionsTx, in whatever order it meets the rows.
LEMMA RevokeWritable ==
  ASSUME StoreAssumption, StoreTypeOK, NEW match, match \subseteq Ids, revokeSessionsTx(match)
  PROVE  /\ rows' = Revoked(match)
         /\ \E order : /\ order \in Orders({id \in match : Active(rows[id])})
                       /\ Writable(order, Revoked(match))
                       /\ Write(order, Revoked(match), FALSE)
<1> DEFINE hit == {id \in match : Active(rows[id])}
           os == [id \in Ids |-> IF id \in hit THEN [rows[id] EXCEPT !.revoked = TRUE] ELSE rows[id]]
<1>1. PICK order \in Orders(hit) : Write(order, os, FALSE)
  BY DEF revokeSessionsTx
<1>2. os = Revoked(match)
  BY DEF Revoked
<1>3. \A id \in hit : rows[id] \in Row /\ os[id] \in Row /\ os[id].server = rows[id].server
  <2> SUFFICES ASSUME NEW id \in hit
               PROVE  rows[id] \in Row /\ os[id] \in Row /\ os[id].server = rows[id].server
    OBVIOUS
  <2>1. rows[id] \in Row
    BY DEF StoreTypeOK, Table, Active
  <2>2. os[id] = [rows[id] EXCEPT !.revoked = TRUE]
    OBVIOUS
  <2>3. [rows[id] EXCEPT !.revoked = TRUE] \in Row
        /\ [rows[id] EXCEPT !.revoked = TRUE].server = rows[id].server
    BY <2>1 DEF Row
  <2> QED BY <2>1, <2>2, <2>3
<1>4. os \in Table
  BY <1>3 DEF StoreTypeOK, Table
<1>5. /\ order \in Seq(Ids)
      /\ \A i \in 1 .. Len(order) : order[i] \in hit
      /\ \A i, j \in 1 .. Len(order) : order[i] = order[j] => i = j
      /\ \A id \in hit : \E i \in 1 .. Len(order) : order[i] = id
  <2>1. hit \subseteq Ids
    OBVIOUS
  <2> HIDE DEF hit
  <2> QED BY <1>1, <2>1, OrderIsSequence
<1>6. Writable(order, os)
  BY <1>3, <1>4, <1>5 DEF Writable
<1>7. rows' = os
  <2>1. rows' = [id \in Ids |-> IF \E j \in 1 .. Len(order) : order[j] = id THEN os[id] ELSE rows[id]]
    BY <1>1 DEF Write
  <2>2. \A id \in Ids : ~ (\E j \in 1 .. Len(order) : order[j] = id) => os[id] = rows[id]
    BY <1>5
  <2> QED BY <2>1, <2>2
<1> QED BY <1>1, <1>2, <1>6, <1>7

-----------------------------------------------------------------------------
\* The invariant, action by action.

\* What a transaction on one row does to the invariant, given that the row is
\* not authorized behind a fence.
LEMMA OneRowInv ==
  ASSUME StoreAssumption, RowAssumption, StoreInv, NEW id \in Ids, NEW row \in Row,
         WriteOne(id, row),
         rows[id] # NoRow => rows[id].server = row.server,
         id \notin deleted,
         ~ row.revoked => row.server \notin retired /\ SubjectOk(row),
         UNCHANGED <<epoch, retired, deleted, inactive>>
  PROVE  StoreInv'
<1> USE DEF StoreInv, SessionsFenced
<1> DEFINE os == [rows EXCEPT ![id] = row]
<1>1. Writable(<<id>>, os) /\ Write(<<id>>, os, FALSE) /\ rows' = os
  BY WriteOneWritable
<1>2. StoreTypeOK' /\ LogBounds'
  BY <1>1, WriteTyped DEF StoreTypeOK
<1>3. AuthorityFenced'
  BY <1>1 DEF AuthorityFenced, Active, SubjectOk, StoreTypeOK, Table
<1>4. bound' = [x \in Ids |-> IF rows'[x] # NoRow /\ bound[x] = None THEN rows'[x].server ELSE bound[x]]
  BY <1>1 DEF Write
<1>5. bound[id] # None => rows[id] # NoRow
  BY DEF BoundIsKept
<1>6. bound[id] # None => bound[id] = row.server
  BY <1>5 DEF IdentityNeverRebound
<1>7. \A x \in Ids : rows[x] # NoRow => bound[x] = rows[x].server /\ bound[x] # None
  BY DEF IdentityNeverRebound, StoreTypeOK, Table, Row, StoreAssumption
<1>8. IdentityNeverRebound'
  BY <1>1, <1>4, <1>6, <1>7 DEF IdentityNeverRebound, StoreTypeOK, Table, RowAssumption
<1>9. BoundIsKept'
  BY <1>1, <1>4 DEF BoundIsKept, StoreTypeOK, Table, RowAssumption
<1> QED BY <1>2, <1>3, <1>8, <1>9

\* A deletion reserves the identity it takes out of the table.
LEMMA DeleteInv ==
  ASSUME StoreAssumption, StoreInv, NEW id \in Ids, rows[id] # NoRow, deleteSessionTx(id)
  PROVE  StoreInv'
<1> USE DEF StoreInv, SessionsFenced
<1>1. /\ Writable(<<id>>, rows) /\ Write(<<id>>, rows, TRUE)
      /\ rows' = [rows EXCEPT ![id] = NoRow]
  BY DeleteWritable
<1>2. deleted' = deleted \cup {id} /\ UNCHANGED <<epoch, retired, inactive>>
  BY DEF deleteSessionTx
<1>3. StoreTypeOK' /\ LogBounds'
  BY <1>1, <1>2, WriteTyped DEF StoreTypeOK
<1>4. AuthorityFenced'
  BY <1>1, <1>2 DEF AuthorityFenced, Active, SubjectOk, StoreTypeOK, Table
<1>5. bound' = [x \in Ids |-> IF rows'[x] # NoRow /\ bound[x] = None THEN rows'[x].server ELSE bound[x]]
  BY <1>1 DEF Write
<1>6. \A x \in Ids : rows[x] # NoRow => bound[x] = rows[x].server
  BY DEF IdentityNeverRebound
<1>7. IdentityNeverRebound'
  BY <1>1, <1>2, <1>5, <1>6 DEF IdentityNeverRebound, StoreTypeOK, Table
<1>8. BoundIsKept'
  BY <1>1, <1>2, <1>5 DEF BoundIsKept, StoreTypeOK, Table
<1> QED BY <1>3, <1>4, <1>7, <1>8

\* A bulk revocation, with a fence put up in the same transaction around the
\* rows it revokes.
LEMMA RevokeInv ==
  ASSUME StoreAssumption, StoreInv, NEW match, match \subseteq Ids, revokeSessionsTx(match),
         UNCHANGED <<epoch, deleted>>,
         retired' \subseteq Servers, inactive' \subseteq Agents \cup Humans,
         \A id \in Ids \ match : rows[id] # NoRow =>
             /\ rows[id].server \in retired' => rows[id].server \in retired
             /\ rows[id].agent \in inactive' => rows[id].agent \in inactive
             /\ rows[id].human \in inactive' => rows[id].human \in inactive
  PROVE  StoreInv'
<1> USE DEF StoreInv, SessionsFenced
<1>1. PICK order : Writable(order, Revoked(match)) /\ Write(order, Revoked(match), FALSE)
  BY RevokeWritable
<1>2. rows' = Revoked(match)
  BY RevokeWritable
<1>3. StoreTypeOK' /\ LogBounds'
  BY <1>1, WriteTyped DEF StoreTypeOK
<1>4. \A id \in Ids : /\ rows'[id] = NoRow <=> rows[id] = NoRow
                      /\ rows[id] # NoRow => rows'[id].server = rows[id].server
                      /\ Active(rows'[id]) => id \notin match /\ rows'[id] = rows[id]
  <2> SUFFICES ASSUME NEW id \in Ids
               PROVE  /\ rows'[id] = NoRow <=> rows[id] = NoRow
                      /\ rows[id] # NoRow => rows'[id].server = rows[id].server
                      /\ Active(rows'[id]) => id \notin match /\ rows'[id] = rows[id]
    OBVIOUS
  <2>1. CASE id \in match /\ Active(rows[id])
    <3>1. rows[id] \in Row /\ rows'[id] = [rows[id] EXCEPT !.revoked = TRUE]
      BY <1>2, <2>1 DEF Revoked, Active, StoreTypeOK, Table
    <3>2. rows'[id] \in Row /\ rows'[id].server = rows[id].server /\ rows'[id].revoked
      BY <3>1 DEF Row
    <3> QED BY <2>1, <3>1, <3>2, RowAssumption DEF Active
  <2>2. CASE ~ (id \in match /\ Active(rows[id]))
    <3>1. rows'[id] = rows[id]
      BY <1>2, <2>2 DEF Revoked
    <3> QED BY <2>2, <3>1
  <2> QED BY <2>1, <2>2
<1>5. AuthorityFenced'
  <2> SUFFICES ASSUME NEW id \in Ids, Active(rows'[id])
               PROVE  /\ rows'[id].server \notin retired'
                      /\ rows'[id].human \notin inactive' /\ rows'[id].agent \notin inactive'
    BY DEF AuthorityFenced, SubjectOk
  <2>1. id \notin match /\ rows'[id] = rows[id] /\ Active(rows[id])
    BY <1>4
  <2> QED BY <2>1 DEF AuthorityFenced, SubjectOk, Active
<1>6. bound' = [x \in Ids |-> IF rows'[x] # NoRow /\ bound[x] = None THEN rows'[x].server ELSE bound[x]]
  BY <1>1 DEF Write
<1>7. \A x \in Ids : rows[x] # NoRow => bound[x] = rows[x].server
  BY DEF IdentityNeverRebound
<1>8. IdentityNeverRebound'
  BY <1>4, <1>6, <1>7 DEF IdentityNeverRebound
<1>9. BoundIsKept'
  BY <1>4, <1>6 DEF BoundIsKept
<1> QED BY <1>3, <1>5, <1>8, <1>9

\* Steps that leave the table alone: a fence taken down, a rotated epoch.
LEMMA UntouchedInv ==
  ASSUME StoreInv, UNCHANGED <<rows, changes, sequence, floor, past, bound, retired, deleted>>,
         epoch' \in Nat, inactive' \subseteq inactive
  PROVE  StoreInv'
<1> USE DEF StoreInv, SessionsFenced
<1>1. StoreTypeOK' /\ LogBounds'
  BY DEF StoreTypeOK, LogBounds
<1>2. AuthorityFenced'
  BY DEF AuthorityFenced, SubjectOk, Active
<1>3. IdentityNeverRebound' /\ BoundIsKept'
  BY DEF IdentityNeverRebound, BoundIsKept
<1> QED BY <1>1, <1>2, <1>3

\* An empty store satisfies the invariant.
LEMMA StoreInitInv == StoreInit => StoreInv
<1> SUFFICES ASSUME StoreInit PROVE StoreInv
  OBVIOUS
<1>1. rows \in Table /\ past \in [floor .. sequence -> Table]
  BY DEF StoreInit, Table
<1>2. StoreTypeOK
  BY <1>1 DEF StoreInit, StoreTypeOK
<1>3. LogBounds /\ BoundIsKept
  BY StoreAssumption DEF StoreInit, LogBounds, BoundIsKept, StoreAssumption
<1>4. AuthorityFenced /\ IdentityNeverRebound
  BY DEF StoreInit, AuthorityFenced, IdentityNeverRebound, Active
<1> QED BY <1>2, <1>3, <1>4 DEF StoreInv, SessionsFenced

\* Every operation keeps the invariant.
LEMMA StoreNextInv == StoreInv /\ [StoreNext]_storeVars => StoreInv'
<1> SUFFICES ASSUME StoreInv, [StoreNext]_storeVars PROVE StoreInv'
  OBVIOUS
<1> USE StoreAssumption, RowAssumption
<1>t. StoreTypeOK /\ AuthorityFenced /\ IdentityNeverRebound
  BY DEF StoreInv, SessionsFenced
<1>r. \A id \in Ids : rows[id] # NoRow => rows[id] \in Row /\ id \notin deleted
  BY <1>t DEF StoreTypeOK, Table, IdentityNeverRebound
<1>1. ASSUME NEW id \in Ids, NEW row \in Row, PutSession(id, row) PROVE StoreInv'
  BY <1>1, OneRowInv DEF PutSession
<1>2. ASSUME NEW id \in Ids, NEW revoked \in BOOLEAN, SetSessionRevoked(id, revoked) PROVE StoreInv'
  <2> DEFINE row == [rows[id] EXCEPT !.revoked = revoked]
  <2>1. rows[id] # NoRow /\ rows[id] \in Row /\ id \notin deleted
    BY <1>2, <1>r DEF SetSessionRevoked
  <2>2. row \in Row /\ row.server = rows[id].server /\ row.agent = rows[id].agent
        /\ row.human = rows[id].human /\ row.revoked = revoked
    BY <2>1 DEF Row
  <2>3. ~ row.revoked => row.server \notin retired /\ SubjectOk(row)
    BY <1>2, <2>2 DEF SetSessionRevoked, SubjectOk
  <2>4. WriteOne(id, row) /\ UNCHANGED <<epoch, retired, deleted, inactive>>
    BY <1>2 DEF SetSessionRevoked
  <2> HIDE DEF row
  <2> QED BY <2>1, <2>2, <2>3, <2>4, OneRowInv
<1>3. ASSUME NEW id \in Ids, DeleteSession(id) PROVE StoreInv'
  BY <1>3, DeleteInv DEF DeleteSession
<1>4. ASSUME NEW id \in Ids, CompleteSessionEnrollment(id) PROVE StoreInv'
  <2> DEFINE row == [rows[id] EXCEPT !.pending = FALSE]
  <2>1. rows[id] # NoRow /\ rows[id] \in Row /\ id \notin deleted /\ Active(rows[id])
    BY <1>4, <1>r DEF CompleteSessionEnrollment, Active
  <2>2. row \in Row /\ row.server = rows[id].server /\ row.agent = rows[id].agent
        /\ row.human = rows[id].human /\ row.revoked = rows[id].revoked
    BY <2>1 DEF Row
  <2>3. ~ row.revoked => row.server \notin retired /\ SubjectOk(row)
    BY <1>t, <2>1, <2>2 DEF AuthorityFenced, SubjectOk
  <2>4. WriteOne(id, row) /\ UNCHANGED <<epoch, retired, deleted, inactive>>
    BY <1>4 DEF CompleteSessionEnrollment
  <2> HIDE DEF row
  <2> QED BY <2>1, <2>2, <2>3, <2>4, OneRowInv
<1>5. ASSUME NEW id \in Ids, NEW u \in Humans, DeletePendingSession(id, u) PROVE StoreInv'
  BY <1>5, DeleteInv DEF DeletePendingSession
<1>6. ASSUME NEW match \in SUBSET Ids, RevokeSessions(match) PROVE StoreInv'
  <2>1. retired' \subseteq Servers /\ inactive' \subseteq Agents \cup Humans
    BY <1>6, <1>t DEF RevokeSessions, StoreTypeOK
  <2> QED BY <1>6, <2>1, RevokeInv DEF RevokeSessions
<1>7. ASSUME NEW s \in Servers, RetireServer(s) PROVE StoreInv'
  <2>1. retired' = retired \cup {s} /\ inactive' = inactive
        /\ retired' \subseteq Servers /\ inactive' \subseteq Agents \cup Humans
    BY <1>7, <1>t DEF RetireServer, StoreTypeOK
  <2>2. OfServer(s) \subseteq Ids /\ \A id \in Ids \ OfServer(s) : rows[id] # NoRow => rows[id].server # s
    BY DEF OfServer
  <2> QED BY <1>7, <2>1, <2>2, RevokeInv DEF RetireServer
<1>8. ASSUME NEW x, x \in Agents \cup Humans, inactive' = inactive \cup {x},
             revokeSessionsTx(OfSubject(x)), UNCHANGED <<epoch, retired, deleted>>
      PROVE  StoreInv'
  <2>1. retired' \subseteq Servers /\ inactive' \subseteq Agents \cup Humans
    BY <1>8, <1>t DEF StoreTypeOK
  <2>2. OfSubject(x) \subseteq Ids
        /\ \A id \in Ids \ OfSubject(x) : rows[id] # NoRow => rows[id].agent # x /\ rows[id].human # x
    BY DEF OfSubject
  <2> QED BY <1>8, <2>1, <2>2, RevokeInv
<1>9. ASSUME NEW a \in Agents, NEW active \in BOOLEAN, SetAgentStatus(a, active) PROVE StoreInv'
  <2>1. CASE active
    <3>1. UNCHANGED <<rows, changes, sequence, floor, past, bound, retired, deleted, epoch>>
          /\ inactive' \subseteq inactive
      BY <1>9, <2>1 DEF SetAgentStatus
    <3> QED BY <3>1, <1>t, UntouchedInv DEF StoreTypeOK
  <2>2. CASE ~ active
    BY <1>9, <2>2, <1>8 DEF SetAgentStatus
  <2> QED BY <2>1, <2>2
<1>10. ASSUME NEW u \in Humans, DeactivateUser(u) PROVE StoreInv'
  BY <1>10, <1>8 DEF DeactivateUser
<1>11. CASE initializeSessions
  BY <1>11, <1>t, UntouchedInv DEF initializeSessions, StoreTypeOK
<1>12. CASE UNCHANGED storeVars
  BY <1>12, <1>t, UntouchedInv DEF storeVars, StoreTypeOK
<1> QED BY <1>1, <1>2, <1>3, <1>4, <1>5, <1>6, <1>7, <1>9, <1>10, <1>11, <1>12 DEF StoreNext

\* What the fences and the log rest on: with SessionsFenced, the log reaches from
\* the floor to the sequence number and a used identity stays in the table or
\* reserved, across every mutation of sessions.go.
THEOREM StoreInvariant == StoreSpec => []StoreInv
BY StoreInitInv, StoreNextInv, PTL DEF StoreSpec

\* The store keeps authority behind its fences: no active session of a retired
\* server or of an inactive agent or person, and no identity that changes its
\* meaning, for any number of sessions, servers, agents and people.
THEOREM AuthorityStaysFenced == StoreSpec => []SessionsFenced
<1>1. StoreInv => SessionsFenced
  BY DEF StoreInv
<1> QED BY <1>1, StoreInvariant, PTL

-----------------------------------------------------------------------------
\* The refinement of SessionLog.

\* A table, a log and the history as the watched server's gateway sees them.
MView(t) == ActiveRows(t, Watched)
MLog(cs) == {[seq |-> c.seq, id |-> c.id, row |-> c.row] : c \in {d \in cs : d.server = Watched}}
MPast(p) == [n \in DOMAIN p |-> MView(p[n])]
\* A transaction as the watched server's gateway sees it.
MOrder(order, os) == [i \in 1 .. Len(order) |-> IF os[order[i]].server = Watched THEN order[i] ELSE None]

\* Only unrevoked rows of the watched server are ever in its view.
LEMMA ViewTyped == ASSUME NEW t \in Table PROVE MView(t) \in Log!View
BY DEF MView, ActiveRows, Table, Log!View, Active, Row

\* The watched server's view after the first i rows of a transaction.
LEMMA ViewAfter ==
  ASSUME StoreAssumption, RowAssumption, StoreInv, NEW order, NEW os, NEW gone \in BOOLEAN,
         Writable(order, os), Write(order, os, gone), NEW i \in 0 .. Len(order)
  PROVE  MView(WrittenTo(order, os, gone, i)) =
            [id \in Ids |-> IF id \in {MOrder(order, os)[j] : j \in 1 .. i}
                            THEN MView(rows')[id] ELSE MView(rows)[id]]
<1> DEFINE n == Len(order)
           o == MOrder(order, os)
           ch == {o[j] : j \in 1 .. i}
<1>1. n \in Nat /\ \A j \in 1 .. n : order[j] \in Ids
  BY ElementOfSeq, LenProperties DEF Writable
<1>2. rows' = WrittenTo(order, os, gone, n)
  BY DEF Write, WrittenTo
<1>3. rows \in Table /\ None \notin Ids
  BY DEF StoreInv, SessionsFenced, StoreTypeOK, StoreAssumption
<1> SUFFICES ASSUME NEW id \in Ids
             PROVE  MView(WrittenTo(order, os, gone, i))[id] =
                       IF id \in ch THEN MView(rows')[id] ELSE MView(rows)[id]
  BY DEF MView, ActiveRows
<1>4. CASE \E j \in 1 .. i : order[j] = id
  <2>1. PICK j \in 1 .. i : order[j] = id
    BY <1>4
  <2>2. j \in 1 .. n
    BY <1>1, <2>1
  <2>3. WrittenTo(order, os, gone, i)[id] = rows'[id]
    BY <1>2, <2>1, <2>2 DEF WrittenTo
  <2>4. CASE os[id].server = Watched
    <3>1. o[j] = id
      BY <2>1, <2>2, <2>4 DEF MOrder
    <3> QED BY <2>1, <2>3, <3>1 DEF MView, ActiveRows
  <2>5. CASE os[id].server # Watched
    <3>1. rows'[id] \in {os[id], NoRow}
      BY <2>1, <2>2, <1>2 DEF WrittenTo
    <3>2. rows[id] # NoRow => rows[id].server # Watched
      BY <2>1, <2>2, <2>5 DEF Writable
    <3> QED BY <2>3, <2>5, <3>1, <3>2 DEF MView, ActiveRows, Active
  <2> QED BY <2>4, <2>5
<1>5. CASE ~ (\E j \in 1 .. i : order[j] = id)
  <2>1. WrittenTo(order, os, gone, i)[id] = rows[id]
    BY <1>5 DEF WrittenTo
  <2>2. id \notin ch
    <3> SUFFICES ASSUME NEW j \in 1 .. i, o[j] = id PROVE FALSE
      OBVIOUS
    <3>1. j \in 1 .. n
      BY <1>1
    <3> QED BY <3>1, <1>3, <1>5 DEF MOrder
  <2> QED BY <2>1, <2>2 DEF MView, ActiveRows
<1> QED BY <1>4, <1>5

\* What a transaction adds to the watched server's log.
LEMMA LogAfter ==
  ASSUME StoreAssumption, RowAssumption, StoreInv, NEW order, NEW os, NEW gone \in BOOLEAN,
         Writable(order, os), Write(order, os, gone)
  PROVE  LET n == Len(order)
             o == MOrder(order, os)
             added == {[seq |-> sequence + i, id |-> o[i], row |-> MView(rows')[o[i]]] :
                           i \in {j \in 1 .. n : o[j] # None}}
         IN MLog(changes') = {c \in MLog(changes) \cup added : c.seq > sequence + n - Retention}
<1> DEFINE n == Len(order)
           o == MOrder(order, os)
           added == {[seq |-> sequence + i, id |-> o[i], row |-> MView(rows')[o[i]]] :
                         i \in {j \in 1 .. n : o[j] # None}}
           logged == {[seq |-> sequence + i, server |-> os[order[i]].server,
                       id |-> order[i], row |-> Logged(os[order[i]], gone)] : i \in 1 .. n}
<1>1. n \in Nat /\ None \notin Ids /\ \A j \in 1 .. n : order[j] \in Ids /\ os[order[j]] \in Row
  BY ElementOfSeq, LenProperties DEF Writable, StoreAssumption
<1>2. changes' = {c \in changes \cup logged : c.seq > sequence + n - Retention}
  BY DEF Write
<1>3. \A i \in 1 .. n : o[i] # None <=> os[order[i]].server = Watched
  BY <1>1 DEF MOrder
<1>4. ASSUME NEW i \in 1 .. n, o[i] # None
      PROVE  o[i] = order[i] /\ MView(rows')[o[i]] = Logged(os[order[i]], gone)
  <2>1. o[i] = order[i] /\ os[order[i]].server = Watched /\ order[i] \in Ids
    BY <1>1, <1>3, <1>4 DEF MOrder
  <2>2. rows'[order[i]] = IF gone THEN NoRow ELSE os[order[i]]
    BY <2>1 DEF Write
  <2> QED BY <1>1, <2>1, <2>2, RowAssumption DEF MView, ActiveRows, Active, Logged
<1>5. MLog(logged) = added
  <2>1. ASSUME NEW i \in 1 .. n, o[i] # None
        PROVE  /\ [seq |-> sequence + i, id |-> o[i], row |-> MView(rows')[o[i]]] \in MLog(logged)
    <3> DEFINE c == [seq |-> sequence + i, server |-> os[order[i]].server,
                     id |-> order[i], row |-> Logged(os[order[i]], gone)]
    <3>1. c \in logged /\ c.server = Watched
      BY <1>3, <2>1
    <3>2. [seq |-> c.seq, id |-> c.id, row |-> c.row] \in MLog(logged)
      BY <3>1 DEF MLog
    <3> QED BY <1>4, <2>1, <3>2
  <2>2. ASSUME NEW i \in 1 .. n, os[order[i]].server = Watched
        PROVE  [seq |-> sequence + i, id |-> order[i], row |-> Logged(os[order[i]], gone)] \in added
    <3>1. o[i] # None
      BY <1>3, <2>2
    <3>2. o[i] = order[i] /\ MView(rows')[o[i]] = Logged(os[order[i]], gone)
      BY <1>4, <3>1
    <3>3. [seq |-> sequence + i, id |-> o[i], row |-> MView(rows')[o[i]]] \in added
      BY <3>1
    <3> QED BY <3>2, <3>3
  <2>3. added \subseteq MLog(logged)
    BY <2>1
  <2>4. MLog(logged) \subseteq added
    <3> SUFFICES ASSUME NEW e \in MLog(logged) PROVE e \in added
      OBVIOUS
    <3>1. PICK c \in logged : c.server = Watched /\ e = [seq |-> c.seq, id |-> c.id, row |-> c.row]
      BY DEF MLog
    <3>2. PICK i \in 1 .. n : c = [seq |-> sequence + i, server |-> os[order[i]].server,
                                  id |-> order[i], row |-> Logged(os[order[i]], gone)]
      BY <3>1
    <3> QED BY <2>2, <3>1, <3>2
  <2> QED BY <2>3, <2>4
<1>6. MLog(changes') = {c \in MLog(changes) \cup MLog(logged) : c.seq > sequence + n - Retention}
  <2> HIDE DEF logged, n
  <2> QED BY <1>2 DEF MLog
<1> QED BY <1>5, <1>6

\* A transaction is a run of changes for the watched server, or none of its own.
LEMMA WriteImplements ==
  ASSUME StoreAssumption, RowAssumption, StoreInv, StoreInv', NEW order, NEW os, NEW gone \in BOOLEAN,
         Writable(order, os), Write(order, os, gone), epoch' = epoch,
         Len(order) <= Cardinality(Ids)
  PROVE  Log!LogNext \/ UNCHANGED Log!logVars
<1> DEFINE n == Len(order)
           o == MOrder(order, os)
           after(i) == WrittenTo(order, os, gone, i)
<1>1. n \in Nat /\ \A j \in 1 .. n : order[j] \in Ids
  BY ElementOfSeq, LenProperties DEF Writable
<1>2. /\ rows \in Table /\ rows' \in Table /\ None \notin Ids /\ sequence \in Nat /\ floor \in Nat
      /\ past \in [floor .. sequence -> Table] /\ Cardinality(Ids) \in Nat /\ Retention \in Nat
  BY FS_CardinalityType DEF StoreInv, SessionsFenced, StoreTypeOK, StoreAssumption
<1>3. /\ sequence + n <= MaxSeq /\ sequence' = sequence + n
      /\ rows' = after(n)
      /\ floor' = FloorAfter(sequence + n)
      /\ past' = [c \in floor' .. sequence + n |->
                     IF c \in DOMAIN past THEN past[c] ELSE after(c - sequence)]
  BY DEF Write, WrittenTo
<1>4. MLog(changes') = {c \in MLog(changes) \cup
                             {[seq |-> sequence + i, id |-> o[i], row |-> MView(rows')[o[i]]] :
                                  i \in {j \in 1 .. n : o[j] # None}} : c.seq > sequence + n - Retention}
  BY LogAfter
<1>5. floor' \in Nat /\ floor' <= sequence'
  BY DEF StoreInv, SessionsFenced, StoreTypeOK, LogBounds
<1>6. ASSUME NEW c \in floor' .. sequence + n, c \notin floor .. sequence PROVE c - sequence \in 1 .. n
  <2>1. floor <= sequence /\ floor' >= floor
    BY <1>1, <1>2, <1>3 DEF FloorAfter, StoreInv, LogBounds
  <2> QED BY <1>1, <1>2, <1>5, <1>6, <2>1
<1>7. MPast(past') = [c \in floor' .. sequence + n |->
                        IF c \in DOMAIN MPast(past) THEN MPast(past)[c]
                        ELSE [id \in Ids |-> IF id \in {o[j] : j \in 1 .. (c - sequence)}
                                             THEN MView(rows')[id] ELSE MView(rows)[id]]]
  <2>1. DOMAIN past' = floor' .. sequence + n /\ DOMAIN past = floor .. sequence
    BY <1>2, <1>3
  <2> SUFFICES ASSUME NEW c \in floor' .. sequence + n
               PROVE  MView(past'[c]) =
                        IF c \in DOMAIN MPast(past) THEN MPast(past)[c]
                        ELSE [id \in Ids |-> IF id \in {o[j] : j \in 1 .. (c - sequence)}
                                             THEN MView(rows')[id] ELSE MView(rows)[id]]
    BY <2>1 DEF MPast
  <2>2. CASE c \in DOMAIN past
    <3>1. past'[c] = past[c]
      BY <1>3, <2>2
    <3> QED BY <2>2, <3>1 DEF MPast
  <2>3. CASE c \notin DOMAIN past
    <3>1. past'[c] = after(c - sequence) /\ c \notin DOMAIN MPast(past)
      BY <1>3, <2>3 DEF MPast
    <3>2. c - sequence \in 0 .. n
      BY <1>1, <1>6, <2>1, <2>3
    <3> HIDE DEF o, n
    <3>3. MView(after(c - sequence)) =
            [id \in Ids |-> IF id \in {MOrder(order, os)[j] : j \in 1 .. (c - sequence)}
                            THEN MView(rows')[id] ELSE MView(rows)[id]]
      BY <3>2, ViewAfter DEF n
    <3> QED BY <3>1, <3>3 DEF o
  <2> QED BY <2>2, <2>3
<1>8. MView(rows') = [id \in Ids |-> IF id \in {o[j] : j \in 1 .. n}
                                     THEN MView(rows')[id] ELSE MView(rows)[id]]
  <2>1. n \in 0 .. n
    BY <1>1
  <2> QED BY <1>3, <2>1, ViewAfter
<1>9. /\ o \in [1 .. n -> Ids \cup {None}] /\ o \in Seq(Ids \cup {None}) /\ Len(o) = n
  <2>1. o \in [1 .. n -> Ids \cup {None}]
    BY <1>1 DEF MOrder
  <2>2. o \in Seq(Ids \cup {None})
    BY <1>1, <2>1, SeqDef
  <2>3. Len(o) \in Nat /\ 1 .. Len(o) = 1 .. n
    BY <2>1, <2>2, LenProperties
  <2> QED BY <1>1, <2>1, <2>2, <2>3
<1>10. \A i, j \in 1 .. n : o[i] = o[j] => i = j \/ o[i] = None
  BY <1>1, <1>2 DEF MOrder, Writable
<1>11. CASE n = 0
  <2>1. rows' = rows
    BY <1>2, <1>3, <1>11 DEF WrittenTo, Table
  <2>2. floor' = floor
    BY <1>1, <1>2, <1>3, <1>11 DEF FloorAfter, StoreInv, LogBounds
  <2>3. past' = past
    BY <1>2, <1>3, <1>11, <2>2
  <2>4. changes' = changes
    <3>1. \A c \in changes : c.seq > sequence - Retention
      BY DEF StoreInv, LogBounds
    <3>2. changes' = {c \in changes : c.seq > sequence - Retention}
      <4>1. 1 .. n = {} /\ sequence + n - Retention = sequence - Retention
        BY <1>2, <1>11
      <4> HIDE DEF n
      <4> QED BY <4>1 DEF Write, n
    <3> QED BY <3>1, <3>2
  <2> QED BY <1>2, <1>3, <1>11, <2>1, <2>2, <2>3, <2>4 DEF Log!logVars, ActiveRows, Active
<1>12. CASE n # 0
  <2>1. o \in Log!Orders
    <3>1. n \in 1 .. Cardinality(Ids)
      BY <1>1, <1>2, <1>12
    <3> HIDE DEF o, n
    <3> QED BY <1>9, <3>1 DEF Log!Orders
  <2>2. MView(rows') \in Log!View
    BY <1>2, ViewTyped
  <2>3. Log!Commit(o)
    <3>1. \A id \in Ids \ {o[j] : j \in 1 .. n} : MView(rows')[id] = MView(rows)[id]
      BY <1>8
    <3> HIDE DEF o, n
    <3> QED BY <1>3, <1>4, <1>7, <1>9, <1>10, <3>1
            DEF Log!Commit, MView, MLog, MPast, Log!FloorAfter, FloorAfter
  <2> QED BY <2>1, <2>2, <2>3 DEF Log!LogNext, Log!CommitSome, MView
<1> QED BY <1>11, <1>12

\* The empty store is SessionLog's empty log.
LEMMA StoreInitImplements == StoreInit => Log!LogInit
<1> SUFFICES ASSUME StoreInit PROVE Log!LogInit
  OBVIOUS
<1>1. ActiveRows(rows, Watched) = Log!Nothing
  BY DEF StoreInit, ActiveRows, Active, Log!Nothing
<1>2. [n \in DOMAIN past |-> ActiveRows(past[n], Watched)] = [n \in {0} |-> Log!Nothing]
  BY <1>1 DEF StoreInit
<1>3. changes = {} /\ sequence = 0 /\ floor = 0 /\ epoch = 1
  BY DEF StoreInit
<1> QED BY <1>1, <1>2, <1>3 DEF Log!LogInit

\* A bulk revocation as its gateway sees it.
LEMMA RevokeImplements ==
  ASSUME StoreAssumption, RowAssumption, StoreInv, StoreInv', NEW match, match \subseteq Ids,
         revokeSessionsTx(match), epoch' = epoch
  PROVE  Log!LogNext \/ UNCHANGED Log!logVars
<1>1. StoreTypeOK
  BY DEF StoreInv, SessionsFenced
<1> DEFINE hit == {id \in match : Active(rows[id])}
<1>2. PICK order \in Orders(hit) :
         Writable(order, Revoked(match)) /\ Write(order, Revoked(match), FALSE)
  BY <1>1, RevokeWritable
<1>3. hit \subseteq Ids
  OBVIOUS
<1>4. Len(order) <= Cardinality(Ids)
  <2> HIDE DEF hit
  <2> QED BY <1>2, <1>3, OrderIsSequence
<1> QED BY <1>2, <1>4, WriteImplements

\* A transaction on one row as its gateway sees it.
LEMMA OneRowImplements ==
  ASSUME StoreAssumption, RowAssumption, StoreInv, StoreInv', epoch' = epoch, NEW id \in Ids,
         NEW os, NEW gone \in BOOLEAN, Writable(<<id>>, os), Write(<<id>>, os, gone)
  PROVE  Log!LogNext \/ UNCHANGED Log!logVars
<1>1. Len(<<id>>) = 1
  OBVIOUS
<1>2. Cardinality(Ids) \in Nat /\ Cardinality(Ids) # 0
  BY FS_CardinalityType, FS_EmptySet DEF StoreAssumption
<1>3. Len(<<id>>) <= Cardinality(Ids)
  BY <1>1, <1>2
<1> DEFINE order == <<id>>
<1>4. Writable(order, os) /\ Write(order, os, gone) /\ Len(order) <= Cardinality(Ids)
  BY <1>3
<1> HIDE DEF order
<1> QED BY <1>4, WriteImplements

\* Every operation is a step of SessionLog or invisible to the gateway.
LEMMA StoreNextImplements ==
  StoreInv /\ StoreInv' /\ [StoreNext]_storeVars => Log!LogNext \/ UNCHANGED Log!logVars
<1> SUFFICES ASSUME StoreInv, StoreInv', [StoreNext]_storeVars
             PROVE  Log!LogNext \/ UNCHANGED Log!logVars
  OBVIOUS
<1> USE StoreAssumption, RowAssumption
<1>t. StoreTypeOK /\ IdentityNeverRebound
  BY DEF StoreInv, SessionsFenced
<1>r. \A id \in Ids : rows[id] # NoRow => rows[id] \in Row
  BY <1>t DEF StoreTypeOK, Table
<1> DEFINE Goal == Log!LogNext \/ UNCHANGED Log!logVars
<1>o. ASSUME NEW id \in Ids, NEW row \in Row, WriteOne(id, row), epoch' = epoch,
             rows[id] # NoRow => rows[id].server = row.server
      PROVE  Goal
  BY <1>o, <1>t, WriteOneWritable, OneRowImplements
<1>d. ASSUME NEW id \in Ids, rows[id] # NoRow, deleteSessionTx(id), epoch' = epoch PROVE Goal
  BY <1>d, <1>t, DeleteWritable, OneRowImplements
<1> HIDE DEF Goal
<1>1. ASSUME NEW id \in Ids, NEW row \in Row, PutSession(id, row) PROVE Goal
  BY <1>1, <1>o DEF PutSession
<1>2. ASSUME NEW id \in Ids, NEW revoked \in BOOLEAN, SetSessionRevoked(id, revoked) PROVE Goal
  <2> DEFINE row == [rows[id] EXCEPT !.revoked = revoked]
  <2>1. row \in Row /\ row.server = rows[id].server
    BY <1>2, <1>r DEF Row, SetSessionRevoked
  <2>2. WriteOne(id, row) /\ epoch' = epoch
    BY <1>2 DEF SetSessionRevoked
  <2> HIDE DEF row
  <2> QED BY <2>1, <2>2, <1>o
<1>3. ASSUME NEW id \in Ids, DeleteSession(id) PROVE Goal
  BY <1>3, <1>d DEF DeleteSession, deleteSessionTx
<1>4. ASSUME NEW id \in Ids, CompleteSessionEnrollment(id) PROVE Goal
  <2> DEFINE row == [rows[id] EXCEPT !.pending = FALSE]
  <2>1. row \in Row /\ row.server = rows[id].server
    BY <1>4, <1>r DEF Row, CompleteSessionEnrollment, Active
  <2>2. WriteOne(id, row) /\ epoch' = epoch
    BY <1>4 DEF CompleteSessionEnrollment
  <2> HIDE DEF row
  <2> QED BY <2>1, <2>2, <1>o
<1>5. ASSUME NEW id \in Ids, NEW u \in Humans, DeletePendingSession(id, u) PROVE Goal
  BY <1>5, <1>d DEF DeletePendingSession, deleteSessionTx
<1>6. ASSUME NEW match, match \subseteq Ids, revokeSessionsTx(match), epoch' = epoch PROVE Goal
  BY <1>6, RevokeImplements DEF Goal
<1>7. ASSUME NEW match \in SUBSET Ids, RevokeSessions(match) PROVE Goal
  BY <1>6, <1>7 DEF RevokeSessions
<1>8. ASSUME NEW s \in Servers, RetireServer(s) PROVE Goal
  BY <1>6, <1>8 DEF RetireServer, OfServer
<1>9. ASSUME NEW a \in Agents, NEW active \in BOOLEAN, SetAgentStatus(a, active) PROVE Goal
  <2>1. CASE active
    BY <1>9, <2>1 DEF Goal, SetAgentStatus, Log!logVars, ActiveRows, Active
  <2>2. CASE ~ active
    BY <1>6, <1>9, <2>2 DEF SetAgentStatus, OfSubject
  <2> QED BY <2>1, <2>2
<1>10. ASSUME NEW u \in Humans, DeactivateUser(u) PROVE Goal
  BY <1>6, <1>10 DEF DeactivateUser, OfSubject
<1>11. ASSUME initializeSessions PROVE Goal
  <2>1. Log!Rotate
    BY <1>11 DEF initializeSessions, Log!Rotate, ActiveRows, Active
  <2> QED BY <2>1 DEF Goal, Log!LogNext
<1>12. ASSUME UNCHANGED storeVars PROVE Goal
  BY <1>12 DEF Goal, storeVars, Log!logVars, ActiveRows, Active
<1>13. Goal
  BY <1>1, <1>2, <1>3, <1>4, <1>5, <1>7, <1>8, <1>9, <1>10, <1>11, <1>12 DEF StoreNext
<1> QED BY <1>13 DEF Goal

\* The table, its fences and its bulk transactions give the gateway of any one
\* server what SessionLog promises: every transaction is a run of changes to
\* that server's active sessions, or nothing it can see.
THEOREM StoreImplementsLog == StoreSpec => ImplementsLog
<1>1. StoreInv /\ StoreInv' /\ [StoreNext]_storeVars => [Log!LogNext]_Log!logVars
  BY StoreNextImplements
<1> QED BY <1>1, StoreInitImplements, StoreInvariant, PTL DEF StoreSpec, ImplementsLog, Log!LogSpec
=============================================================================
