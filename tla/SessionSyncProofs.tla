--------------------------- MODULE SessionSyncProofs ---------------------------
(***************************************************************************)
(* That a gateway concludes nothing from its cache that is not so          *)
(* (services/mcp-gateway/session_sync.go against the reads of              *)
(* platformstore/sessions.go), for every number of sessions, every         *)
(* retention, page size, staleness window and timeout.                     *)
(*                                                                         *)
(* Two invariants carry it.  LogInv is the platform's: entries are         *)
(* numbered apart, none is at or below the floor, and replaying the        *)
(* entries between two covered cursors leads from the table of the one to  *)
(* the table of the other.  SyncInv adds what the answer on its way will   *)
(* make of the view when it is applied, which is what keeps the view the   *)
(* table of its cursor although the platform moves on, removes changes and *)
(* rotates its epoch between the reading and the use of an answer; and     *)
(* that changes age in order, so that skipping to a later cursor never     *)
(* makes the view older than it was.                                       *)
(***************************************************************************)
EXTENDS SessionSync, TLAPS, FiniteSetTheorems, SequenceTheorems, WellFoundedInduction

-----------------------------------------------------------------------------
\* Extremes of sets of numbers.

\* A set of naturals has a smallest member.
LEMMA SmallestExists ==
  ASSUME NEW T, T \subseteq Nat, T # {}
  PROVE  \E x \in T : \A y \in T : x <= y
<1> DEFINE R == OpToRel(<, Nat)
<1>1. R = {ss \in Nat \X Nat : ss[1] < ss[2]}
  BY DEF OpToRel
<1>2. IsWellFoundedOn(R, Nat)
  BY NatLessThanWellFounded
<1> HIDE DEF R
<1>3. PICK x \in T : \A y \in T : ~ (<<y, x>> \in R)
  BY <1>2, WFMin
<1>4. \A y \in T : ~ (y < x)
  BY <1>1, <1>3
<1> QED BY <1>4

\* A bounded set of naturals has a largest member.
LEMMA LargestExists ==
  ASSUME NEW T, T \subseteq Nat, T # {}, NEW n \in Nat, \A x \in T : x <= n
  PROVE  \E x \in T : \A y \in T : x >= y
<1> DEFINE U == {n - x : x \in T}
<1>1. U \subseteq Nat /\ U # {}
  <2>1. \A x \in T : x \in Nat /\ x <= n /\ n - x \in Nat
    OBVIOUS
  <2> QED BY <2>1
<1>2. PICK u \in U : \A y \in U : u <= y
  <2> HIDE DEF U
  <2> QED BY <1>1, SmallestExists
<1>3. PICK x \in T : u = n - x
  OBVIOUS
<1>4. \A y \in T : n - y \in U
  OBVIOUS
<1> HIDE DEF U
<1> QED BY <1>2, <1>3, <1>4

-----------------------------------------------------------------------------
\* Replaying changes.

\* Sets of changes as the log holds them: numbered apart, up to some number.
Numbered(cs) == \A c, d \in cs : c.seq \in Nat /\ (c.seq = d.seq => c = d)

\* The last change of a session counts.
LEMMA ApplyLast ==
  ASSUME NEW m, NEW cs, Numbered(cs), NEW id \in Ids, NEW c \in cs, c.id = id,
         \A d \in cs : d.id = id => d.seq <= c.seq
  PROVE  Apply(m, cs)[id] = c.row
<1> DEFINE Last(e) == e.id = id /\ \A d \in cs : d.id = id => d.seq <= e.seq
           e == CHOOSE x \in cs : Last(x)
<1>1. Last(c)
  OBVIOUS
<1>2. e \in cs /\ Last(e)
  <2> HIDE DEF Last
  <2> QED BY <1>1
<1>3. e = c
  <2> HIDE DEF e
  <2>1. e.seq \in Nat /\ c.seq \in Nat
    BY <1>2 DEF Numbered
  <2>2. e.seq = c.seq
    BY <1>1, <1>2, <2>1
  <2> QED BY <1>2, <2>2 DEF Numbered
<1>4. Apply(m, cs)[id] = e.row
  BY DEF Apply
<1> QED BY <1>3, <1>4

\* A session no change is about stays what it was.
LEMMA ApplyNone ==
  ASSUME NEW m, NEW cs, NEW id \in Ids, \A d \in cs : d.id # id
  PROVE  Apply(m, cs)[id] = m[id]
BY DEF Apply

\* There is a last change.
LEMMA LastExists ==
  ASSUME NEW cs, Numbered(cs), NEW n \in Nat, \A c \in cs : c.seq <= n,
         NEW id \in Ids, NEW some \in cs, some.id = id
  PROVE  \E c \in cs : c.id = id /\ \A d \in cs : d.id = id => d.seq <= c.seq
<1> DEFINE own == {c \in cs : c.id = id}
           T == {c.seq : c \in own}
<1>1. T \subseteq Nat /\ T # {} /\ \A x \in T : x <= n
  BY DEF Numbered
<1>2. PICK x \in T : \A y \in T : x >= y
  <2> HIDE DEF T
  <2> QED BY <1>1, LargestExists
<1>3. PICK c \in own : x = c.seq
  OBVIOUS
<1>4. \A d \in cs : d.id = id => d.seq \in T
  OBVIOUS
<1> HIDE DEF T
<1>5. \A d \in cs : d.id = id => d.seq <= c.seq
  <2> SUFFICES ASSUME NEW d \in cs, d.id = id PROVE d.seq <= c.seq
    OBVIOUS
  <2>1. c.seq >= d.seq
    BY <1>2, <1>3, <1>4
  <2> QED BY <1>1, <1>3, <1>4, <2>1
<1> QED BY <1>3, <1>5

-----------------------------------------------------------------------------
\* The log.

\* Entries are numbered apart and inside what the log covers, and the history
\* ends with the view of now.
LogNumbered ==
    /\ Numbered(log)
    /\ \A c \in log : c.seq > floor /\ c.seq <= sequence
    /\ sequence - Retention <= floor
    /\ past[sequence] = view

LogInv == LogTypeOK /\ LogNumbered /\ LogReplays

\* The changes between cursors a and b.
Between(a, b) == {c \in log : a < c.seq /\ c.seq <= b}

\* Replaying changes gives a table again.
LEMMA ApplyTyped ==
  ASSUME NEW m, m \in View, NEW cs \in SUBSET Change, Numbered(cs), NEW n \in Nat, \A c \in cs : c.seq <= n
  PROVE  Apply(m, cs) \in View
<1>1. ASSUME NEW id \in Ids PROVE Apply(m, cs)[id] \in Rows \cup {NoRow}
  <2>1. CASE \A d \in cs : d.id # id
    BY <2>1, ApplyNone DEF View
  <2>2. CASE \E d \in cs : d.id = id
    <3>1. PICK c \in cs : c.id = id /\ \A d \in cs : d.id = id => d.seq <= c.seq
      BY <2>2, LastExists
    <3>2. Apply(m, cs)[id] = c.row
      BY <3>1, ApplyLast
    <3> QED BY <3>2 DEF Change
  <2> QED BY <2>1, <2>2
<1>2. Apply(m, cs) = [id \in Ids |-> Apply(m, cs)[id]]
  BY DEF Apply
<1> QED BY <1>1, <1>2 DEF View

-----------------------------------------------------------------------------
\* Transactions and starts of the platform.

\* A transaction keeps the log a faithful account (appendSessionChange), forgets
\* from the old end only and rewrites nothing of the past.
LEMMA CommitKeeps ==
  ASSUME LogAssumption, LogInv, view' \in View, NEW order \in Orders, Commit(order)
  PROVE  LogInv' /\ floor <= floor' /\ sequence < sequence' /\ \A c \in floor' .. sequence : past'[c] = past[c]
<1> DEFINE n == Len(order)
           changed(i) == {order[j] : j \in 1 .. i}
           after(i) == [id \in Ids |-> IF id \in changed(i) THEN view'[id] ELSE view[id]]
           added == {[seq |-> sequence + i, id |-> order[i], row |-> view'[order[i]]] :
                        i \in {j \in 1 .. n : order[j] # Other}}
<1>1. n \in Nat \ {0} /\ \A i \in 1 .. n : order[i] \in Ids \cup {Other}
  <2>1. PICK k \in 1 .. MaxBatch : order \in [1 .. k -> Ids \cup {Other}]
    BY DEF Orders
  <2>2. k \in Nat \ {0}
    BY DEF LogAssumption
  <2>3. order \in Seq(Ids \cup {Other})
    BY <2>1, <2>2, SeqDef
  <2>4. Len(order) \in Nat /\ DOMAIN order = 1 .. Len(order)
    BY <2>3, LenProperties
  <2>5. 1 .. Len(order) = 1 .. k
    BY <2>1, <2>4
  <2>6. Len(order) = k
    <3>1. k \in 1 .. Len(order)
      BY <2>2, <2>5
    <3> DEFINE l == Len(order)
    <3>2. l \in Nat /\ 1 .. l = 1 .. k /\ k \in 1 .. l
      BY <2>4, <2>5, <3>1
    <3> HIDE DEF l
    <3>3. l \in 1 .. l
      BY <2>2, <3>2
    <3>4. l \in 1 .. k
      BY <3>2, <3>3
    <3>5. l = k
      BY <2>2, <3>2, <3>4
    <3> QED BY <3>5 DEF l
  <2> QED BY <2>1, <2>2, <2>6
<1>2. /\ view \in View /\ log \subseteq Change /\ sequence \in Nat /\ floor \in Nat /\ floor <= sequence
      /\ epoch \in Nat \ {0} /\ past \in [floor .. sequence -> View] /\ Retention \in Nat \ {0}
      /\ sequence - Retention <= floor /\ past[sequence] = view /\ Numbered(log)
      /\ \A c \in log : c.seq \in Nat /\ c.seq > floor /\ c.seq <= sequence
  BY DEF LogInv, LogTypeOK, LogNumbered, LogAssumption, Change
<1>3. /\ \A i, j \in 1 .. n : order[i] = order[j] => i = j \/ order[i] = Other
      /\ \A id \in Ids \ changed(n) : view'[id] = view[id]
      /\ sequence' = sequence + n
      /\ log' = {c \in log \cup added : c.seq > sequence + n - Retention}
      /\ floor' = FloorAfter(sequence + n)
      /\ past' = [c \in floor' .. sequence + n |-> IF c \in DOMAIN past THEN past[c] ELSE after(c - sequence)]
      /\ epoch' = epoch
  BY DEF Commit
<1>4. /\ floor' \in Nat /\ floor <= floor' /\ floor' <= sequence + n /\ sequence + n - Retention <= floor'
      /\ sequence' \in Nat /\ sequence < sequence'
  BY <1>1, <1>2, <1>3 DEF FloorAfter
<1>5. ASSUME NEW c \in added
      PROVE  \E i \in 1 .. n : /\ c = [seq |-> sequence + i, id |-> order[i], row |-> view'[order[i]]]
                               /\ order[i] \in Ids /\ c.seq = sequence + i /\ c.id = order[i] /\ c.row = view'[order[i]]
  BY <1>1
<1>6. added \subseteq Change
  <2> SUFFICES ASSUME NEW c \in added PROVE c \in Change
    OBVIOUS
  <2>1. PICK i \in 1 .. n : /\ c = [seq |-> sequence + i, id |-> order[i], row |-> view'[order[i]]] /\ order[i] \in Ids
    BY <1>5
  <2>2. sequence + i \in Nat /\ view'[order[i]] \in Rows \cup {NoRow}
    BY <1>1, <1>2, <2>1 DEF View
  <2> QED BY <2>1, <2>2 DEF Change
<1>7. ASSUME NEW i \in 1 .. n, order[i] \in Ids
      PROVE  [seq |-> sequence + i, id |-> order[i], row |-> view'[order[i]]] \in added
  BY <1>7 DEF LogAssumption
<1> HIDE DEF added
<1>8. Numbered(log \cup added)
  <2> SUFFICES ASSUME NEW c \in log \cup added, NEW d \in log \cup added
               PROVE  c.seq \in Nat /\ (c.seq = d.seq => c = d)
    BY DEF Numbered
  <2>1. CASE c \in log /\ d \in log
    BY <2>1, <1>2 DEF Numbered
  <2>2. CASE c \in added /\ d \in added
    <3>1. PICK i \in 1 .. n : c = [seq |-> sequence + i, id |-> order[i], row |-> view'[order[i]]] /\ c.seq = sequence + i
      BY <1>5, <2>2
    <3>2. PICK j \in 1 .. n : d = [seq |-> sequence + j, id |-> order[j], row |-> view'[order[j]]] /\ d.seq = sequence + j
      BY <1>5, <2>2
    <3> QED BY SMTT(20), <1>1, <1>2, <3>1, <3>2
  <2>3. CASE c \in log /\ d \in added
    <3>1. PICK j \in 1 .. n : d.seq = sequence + j
      BY <1>5, <2>3
    <3> QED BY <1>1, <1>2, <2>3, <3>1
  <2>4. CASE c \in added /\ d \in log
    <3>1. PICK j \in 1 .. n : c.seq = sequence + j
      BY <1>5, <2>4
    <3> QED BY <1>1, <1>2, <2>4, <3>1
  <2> QED BY <2>1, <2>2, <2>3, <2>4
<1>9. ASSUME NEW i \in 0 .. n PROVE after(i) \in View
  BY <1>2 DEF View
<1>10. past' \in [floor' .. sequence' -> View] /\ \A c \in floor' .. sequence : past'[c] = past[c]
  <2>1. ASSUME NEW c \in floor' .. sequence + n PROVE (IF c \in DOMAIN past THEN past[c] ELSE after(c - sequence)) \in View
    <3>1. CASE c \in DOMAIN past
      BY <1>2, <3>1
    <3>2. CASE c \notin DOMAIN past
      <4>1. c - sequence \in 0 .. n
        BY <1>1, <1>2, <1>4, <3>2
      <4> QED BY <1>9, <3>2, <4>1
    <3> QED BY <3>1, <3>2
  <2>2. \A c \in floor' .. sequence : c \in DOMAIN past /\ c \in floor' .. sequence + n
    BY <1>1, <1>2, <1>4
  <2> HIDE DEF after
  <2> QED BY <1>3, <2>1, <2>2
<1>11. ASSUME NEW c, c \in floor' .. sequence + n, c > sequence
       PROVE  past'[c] = after(c - sequence) /\ c - sequence \in 1 .. n
  BY SMTT(20), <1>1, <1>2, <1>3, <1>4, <1>11
<1>12. LogTypeOK'
  <2>1. log' \subseteq Change
    BY <1>2, <1>3, <1>6
  <2>2. floor' \in 0 .. sequence' /\ sequence' \in Nat /\ epoch' \in Nat \ {0}
    BY <1>2, <1>3, <1>4
  <2> QED BY <1>10, <2>1, <2>2 DEF LogTypeOK
<1>13. LogNumbered'
  <2>1. Numbered(log')
    BY <1>3, <1>8 DEF Numbered
  <2>2. \A c \in log' : c.seq > floor' /\ c.seq <= sequence'
    <3> SUFFICES ASSUME NEW c \in log' PROVE c.seq > floor' /\ c.seq <= sequence'
      OBVIOUS
    <3>1. c \in log \cup added /\ c.seq > sequence + n - Retention /\ c.seq \in Nat
      BY <1>3, <1>8 DEF Numbered
    <3>2. c.seq > floor /\ c.seq <= sequence + n
      <4>1. CASE c \in log
        BY <1>1, <1>2, <4>1
      <4>2. CASE c \in added
        <5>1. PICK i \in 1 .. n : c.seq = sequence + i
          BY <1>5, <4>2
        <5> QED BY <1>1, <1>2, <5>1
      <4> QED BY <3>1, <4>1, <4>2
    <3> QED BY <1>1, <1>2, <1>3, <3>1, <3>2 DEF FloorAfter
  <2>3. past'[sequence'] = view'
    <3>1. past'[sequence'] = after(n)
      <4>1. sequence' \in floor' .. sequence + n /\ sequence' > sequence /\ sequence' - sequence = n
        BY SMTT(20), <1>1, <1>2, <1>3, <1>4
      <4> HIDE DEF after, n
      <4> QED BY <1>11, <4>1
    <3>2. after(n) = view'
      BY <1>3 DEF View
    <3> QED BY <3>1, <3>2
  <2>4. sequence' - Retention <= floor'
    BY <1>2, <1>3, <1>4
  <2> QED BY <2>1, <2>2, <2>3, <2>4 DEF LogNumbered
<1>14. LogReplays'
  <2> HIDE DEF n
  <2> SUFFICES ASSUME NEW a \in floor' .. sequence', NEW b \in a .. sequence', NEW id \in Ids
               PROVE  Apply(past'[a], {c \in log' : a < c.seq /\ c.seq <= b})[id] = past'[b][id]
    <3>1. ASSUME NEW a \in floor' .. sequence', NEW b \in a .. sequence',
                 \A id \in Ids : Apply(past'[a], {c \in log' : a < c.seq /\ c.seq <= b})[id] = past'[b][id]
          PROVE  Apply(past'[a], {c \in log' : a < c.seq /\ c.seq <= b}) = past'[b]
      <4>1. b \in floor' .. sequence'
        BY <1>4
      <4>2. past'[b] \in View
        BY <1>10, <4>1
      <4>3. past'[b] = [id \in Ids |-> past'[b][id]]
        BY <4>2 DEF View
      <4> DEFINE m == Apply(past'[a], {c \in log' : a < c.seq /\ c.seq <= b})
      <4>4. m = [id \in Ids |-> m[id]]
        BY DEF Apply
      <4> HIDE DEF m
      <4>5. \A id \in Ids : m[id] = past'[b][id]
        BY <3>1 DEF m
      <4>6. m = past'[b]
        BY <4>3, <4>4, <4>5
      <4> QED BY <4>6 DEF m
    <3> QED BY <3>1 DEF LogReplays
  <2> DEFINE cs == {c \in log' : a < c.seq /\ c.seq <= b}
  <2>0. a \in Nat /\ b \in Nat /\ a <= b /\ floor' <= a /\ b <= sequence + n /\ n \in Nat \ {0}
    BY <1>1, <1>3, <1>4 DEF n
  <2>1. /\ Numbered(cs)
        /\ \A c \in cs : c \in log \cup added /\ c.seq \in Nat /\ a < c.seq /\ c.seq <= b
        /\ \A c \in log \cup added : a < c.seq /\ c.seq <= b => c \in cs
    <3>1. \A c \in log \cup added : c.seq \in Nat
      BY <1>8 DEF Numbered
    <3>2. sequence + n - Retention \in Int /\ sequence + n - Retention <= a
      BY <1>2, <1>4, <2>0
    <3> QED BY <1>3, <1>8, <2>0, <3>1, <3>2 DEF Numbered
  <2>2. Numbered(Between(a, sequence)) /\ \A c \in Between(a, sequence) : c.seq <= sequence
    BY <1>2 DEF Between, Numbered
  <2> HIDE DEF cs, after
  <2>3. CASE b <= sequence
    <3>1. past'[a] = past[a] /\ past'[b] = past[b]
      BY <1>2, <1>4, <1>10, <2>0, <2>3
    <3>2. cs = Between(a, b)
      <4>1. \A c \in added : c.seq > sequence
        <5> SUFFICES ASSUME NEW c \in added PROVE c.seq > sequence
          OBVIOUS
        <5>1. PICK i \in 1 .. n : c.seq = sequence + i
          BY <1>5 DEF n
        <5> QED BY <1>2, <2>0, <5>1
      <4> QED BY <1>2, <2>0, <2>1, <2>3, <4>1 DEF Between
    <3>3. Apply(past[a], Between(a, b)) = past[b]
      <4>1. a \in floor .. sequence /\ b \in a .. sequence
        BY <1>2, <1>4, <2>0, <2>3
      <4> QED BY <4>1 DEF LogInv, LogReplays, Between
    <3> QED BY <3>1, <3>2, <3>3 DEF cs
  <2>4. CASE b > sequence
    <3>1. past'[b] = after(b - sequence) /\ b - sequence \in 1 .. n
      BY SMTT(20), <1>1, <1>2, <1>4, <1>11, <2>0, <2>4 DEF n
    <3>2. CASE \E j \in 1 .. b - sequence : order[j] = id /\ a < sequence + j
      <4>1. PICK j \in 1 .. b - sequence : order[j] = id /\ a < sequence + j
        BY <3>2
      <4> DEFINE c == [seq |-> sequence + j, id |-> order[j], row |-> view'[order[j]]]
      <4>2. j \in 1 .. n /\ id # Other
        BY <1>2, <2>0, <3>1, <4>1 DEF LogAssumption
      <4>3. c \in added /\ c.seq = sequence + j /\ c.id = id /\ c.row = view'[id]
        BY <1>7, <4>1, <4>2 DEF n
      <4> HIDE DEF c
      <4>4. c \in cs
        BY <1>2, <2>0, <2>1, <2>4, <4>1, <4>2, <4>3
      <4>5. \A d \in cs : d.id = id => d.seq <= c.seq
        <5> SUFFICES ASSUME NEW d \in cs, d.id = id PROVE d.seq <= c.seq
          OBVIOUS
        <5>1. CASE d \in log
          BY <1>2, <4>2, <4>3, <5>1
        <5>2. CASE d \in added
          <6>1. PICK k \in 1 .. n : d.seq = sequence + k /\ d.id = order[k]
            BY <1>5, <5>2 DEF n
          <6>2. k = j
            BY <1>3, <4>1, <4>2, <6>1 DEF n
          <6> QED BY <1>2, <4>2, <4>3, <6>1, <6>2
        <5> QED BY <2>1, <5>1, <5>2
      <4>6. Apply(past'[a], cs)[id] = view'[id]
        BY <2>1, <4>3, <4>4, <4>5, ApplyLast
      <4>7. after(b - sequence)[id] = view'[id]
        BY <4>1 DEF after
      <4> QED BY <3>1, <4>6, <4>7 DEF cs
    <3>3. CASE ~ \E j \in 1 .. b - sequence : order[j] = id /\ a < sequence + j
      <4>1. \A d \in cs : d.id = id => d \in log
        <5> SUFFICES ASSUME NEW d \in cs, d.id = id, d \in added PROVE FALSE
          BY <2>1
        <5>1. PICK k \in 1 .. n : d.seq = sequence + k /\ d.id = order[k]
          BY <1>5 DEF n
        <5>2. k \in 1 .. b - sequence /\ a < sequence + k
          BY <1>2, <2>0, <2>1, <5>1
        <5> QED BY <3>3, <5>1, <5>2
      <4>2. CASE a <= sequence
        <5>1. id \notin changed(b - sequence)
          BY <1>2, <2>0, <3>1, <3>3, <4>2
        <5>2. past'[b][id] = view[id]
          BY <3>1, <5>1 DEF after
        <5>3. past'[a] = past[a] /\ Apply(past[a], Between(a, sequence))[id] = view[id]
          <6>1. a \in floor .. sequence /\ sequence \in a .. sequence /\ a \in floor' .. sequence
            BY <1>2, <1>4, <2>0, <4>2
          <6>2. Apply(past[a], Between(a, sequence)) = past[sequence]
            BY <6>1 DEF LogInv, LogReplays, Between
          <6> QED BY <1>2, <1>10, <6>1, <6>2
        <5>4. \A d : d \in cs /\ d.id = id <=> d \in Between(a, sequence) /\ d.id = id
          BY <1>2, <2>0, <2>1, <2>4, <4>1 DEF Between
        <5>5. CASE \E d \in cs : d.id = id
          <6>1. PICK c \in Between(a, sequence) : c.id = id /\ \A d \in Between(a, sequence) : d.id = id => d.seq <= c.seq
            BY <1>2, <2>2, <5>4, <5>5, LastExists
          <6>2. Apply(past[a], Between(a, sequence))[id] = c.row
            BY <2>2, <6>1, ApplyLast
          <6>3. c \in cs /\ \A d \in cs : d.id = id => d.seq <= c.seq
            BY <5>4, <6>1
          <6>4. Apply(past'[a], cs)[id] = c.row
            BY <2>1, <6>1, <6>3, ApplyLast
          <6> QED BY <5>2, <5>3, <6>2, <6>4 DEF cs
        <5>6. CASE ~ \E d \in cs : d.id = id
          <6>1. Apply(past'[a], cs)[id] = past'[a][id]
            BY <5>6, ApplyNone
          <6>2. Apply(past[a], Between(a, sequence))[id] = past[a][id]
            BY <5>4, <5>6, ApplyNone
          <6> QED BY <5>2, <5>3, <6>1, <6>2 DEF cs
        <5> QED BY <5>5, <5>6
      <4>3. CASE a > sequence
        <5>1. past'[a] = after(a - sequence) /\ a - sequence \in 1 .. n
          <6>1. a \in floor' .. sequence + n
            BY <1>2, <1>4, <2>0
          <6> QED BY <1>11, <4>3, <6>1
        <5>2. Apply(past'[a], cs)[id] = past'[a][id]
          <6>1. \A d \in cs : d.id # id
            BY <1>2, <2>0, <2>1, <4>1, <4>3
          <6> QED BY <6>1, ApplyNone
        <5>3. id \in changed(b - sequence) <=> id \in changed(a - sequence)
          <6>1. \A j \in 1 .. b - sequence : order[j] = id => j \in 1 .. a - sequence
            BY <1>2, <2>0, <3>1, <3>3, <5>1
          <6>2. \A j \in 1 .. a - sequence : j \in 1 .. b - sequence
            BY <1>2, <2>0, <3>1, <5>1
          <6> QED BY <6>1, <6>2
        <5> QED BY <3>1, <5>1, <5>2, <5>3 DEF after, cs
      <4> QED BY <1>2, <2>0, <4>2, <4>3
    <3> QED BY <3>2, <3>3
  <2> QED BY <1>2, <2>0, <2>3, <2>4
<1> QED BY <1>4, <1>10, <1>12, <1>13, <1>14 DEF LogInv


-----------------------------------------------------------------------------
\* A page of changes.

\* The log is finite.
LEMMA LogFinite ==
  ASSUME LogInv
  PROVE  IsFiniteSet(log)
<1>1. /\ sequence \in Nat /\ floor \in Nat /\ Numbered(log)
      /\ \A c \in log : c.seq \in Nat /\ c.seq > floor /\ c.seq <= sequence
  BY DEF LogInv, LogTypeOK, LogNumbered, Numbered
<1> DEFINE f == [c \in log |-> c.seq]
<1>2. f \in Injection(log, 0 .. sequence)
  <2>1. f \in [log -> 0 .. sequence]
    BY <1>1
  <2>2. \A c, d \in log : f[c] = f[d] => c = d
    BY <1>1 DEF Numbered
  <2> HIDE DEF f
  <2> QED BY <2>1, <2>2 DEF Injection, IsInjective
<1>3. IsFiniteSet(0 .. sequence)
  BY <1>1, FS_Interval
<1> HIDE DEF f
<1> QED BY <1>2, <1>3, FS_Injection

\* A page that is not the last is not empty, and no page has a gap: it is all
\* that changed between the reader's cursor and the cursor it hands out.
LEMMA PageIsBetween ==
  ASSUME LogAssumption, LogInv, NEW e, NEW after \in Nat, ~ Expired(e, after)
  PROVE  \E page \in SUBSET log, more \in BOOLEAN, s \in Nat :
            /\ SessionChanges(e, after) = [kind |-> "changes", epoch |-> epoch, changes |-> page,
                                           more |-> more, sequence |-> s]
            /\ page = Between(after, s)
            /\ floor <= after /\ after <= s /\ s <= sequence
            /\ ~ more => s = sequence
<1> DEFINE all == ChangesAfter(after)
           upTo(c) == {d \in all : d.seq <= c.seq}
           page == {c \in all : Cardinality(upTo(c)) <= ChangeLimit}
           more == page # all
           T == {c.seq : c \in page}
           s == IF more THEN Max(T) ELSE sequence
<1>1. /\ sequence \in Nat /\ floor \in Nat /\ Numbered(log) /\ ChangeLimit \in Nat \ {0}
      /\ \A c \in log : c.seq \in Nat /\ c.seq > floor /\ c.seq <= sequence
      /\ floor <= after /\ after <= sequence
  BY DEF LogInv, LogTypeOK, LogNumbered, Numbered, LogAssumption, Expired
<1>2. SessionChanges(e, after) = [kind |-> "changes", epoch |-> epoch, changes |-> page,
                                  more |-> more, sequence |-> s]
  BY DEF SessionChanges
<1>3. all \subseteq log /\ \A c : c \in all <=> c \in log /\ after < c.seq
  BY <1>1 DEF ChangesAfter
<1> HIDE DEF all
<1>4. \A c \in all : IsFiniteSet(upTo(c)) /\ Cardinality(upTo(c)) \in Nat
  <2> SUFFICES ASSUME NEW c \in all PROVE IsFiniteSet(upTo(c)) /\ Cardinality(upTo(c)) \in Nat
    OBVIOUS
  <2>1. upTo(c) \in SUBSET log
    BY <1>3
  <2> HIDE DEF upTo
  <2> QED BY <2>1, LogFinite, FS_Subset, FS_CardinalityType
<1>5. ASSUME NEW c \in page, NEW d \in all, d.seq <= c.seq PROVE d \in page
  <2>1. c \in all /\ Cardinality(upTo(c)) <= ChangeLimit
    OBVIOUS
  <2>2. upTo(d) \in SUBSET upTo(c)
    BY <1>1, <1>3, <1>5, <2>1
  <2>3. IsFiniteSet(upTo(c)) /\ Cardinality(upTo(c)) \in Nat /\ Cardinality(upTo(d)) \in Nat
    BY <1>4, <2>1
  <2>4. Cardinality(upTo(d)) <= Cardinality(upTo(c))
    <3> HIDE DEF upTo
    <3> QED BY <2>2, <2>3, FS_Subset
  <2>5. Cardinality(upTo(d)) <= ChangeLimit
    BY <1>1, <2>1, <2>3, <2>4
  <2> QED BY <2>5
<1>6. CASE ~ more
  <2>1. s = sequence /\ page = all
    BY <1>6
  <2>2. page = Between(after, s)
    BY <1>1, <1>3, <2>1 DEF Between
  <2>3. page \in SUBSET log /\ more \in BOOLEAN /\ s \in Nat
    BY <1>1, <1>3, <2>1
  <2> HIDE DEF page, more, s
  <2> USE <2>3
  <2> WITNESS page \in SUBSET log, more \in BOOLEAN, s \in Nat
  <2> QED BY <1>1, <1>2, <2>1, <2>2
<1>7. CASE more
  <2>1. \E c \in all : upTo(c) = {c}
    <3> DEFINE U == {c.seq : c \in all}
    <3>1. U \subseteq Nat /\ U # {}
      BY <1>1, <1>3, <1>7
    <3>2. PICK u \in U : \A y \in U : u <= y
      <4> HIDE DEF U
      <4> QED BY <3>1, SmallestExists
    <3>3. PICK c \in all : u = c.seq
      OBVIOUS
    <3>4. \A d \in all : c.seq <= d.seq
      BY <3>2, <3>3
    <3>5. \A d \in all : d.seq <= c.seq => d = c
      BY <1>1, <1>3, <3>4 DEF Numbered
    <3>6. upTo(c) = {c}
      BY <1>1, <1>3, <3>5
    <3> QED BY <3>6
  <2>2. page # {}
    <3>1. PICK c \in all : upTo(c) = {c}
      BY <2>1
    <3>2. Cardinality(upTo(c)) = 1
      <4> HIDE DEF upTo
      <4> QED BY <3>1, FS_Singleton
    <3>3. c \in page
      BY <1>1, <3>2
    <3> QED BY <3>3
  <2>3. T \subseteq Nat /\ T # {} /\ \A x \in T : x <= sequence
    BY <1>1, <1>3, <2>2
  <2>4. s \in T /\ \A y \in T : s >= y
    <3>1. \E x \in T : \A y \in T : x >= y
      <4> HIDE DEF T
      <4> QED BY <1>1, <2>3, LargestExists
    <3>2. s = CHOOSE x \in T : \A y \in T : x >= y
      BY <1>7 DEF Max
    <3> HIDE DEF T, s
    <3> QED BY <3>1, <3>2
  <2>5. PICK c \in page : s = c.seq
    <3> HIDE DEF s
    <3> QED BY <2>4
  <2>6. \A d \in page : d.seq <= s
    <3> SUFFICES ASSUME NEW d \in page PROVE d.seq <= s
      OBVIOUS
    <3>1. d.seq \in T
      OBVIOUS
    <3>2. s >= d.seq /\ s \in Nat /\ d.seq \in Nat
      <4> HIDE DEF s, T
      <4> QED BY <2>3, <2>4, <3>1
    <3> HIDE DEF s
    <3> QED BY <3>2
  <2>7. s \in Nat /\ after < s /\ s <= sequence
    <3>1. c \in log /\ after < c.seq
      BY <1>3
    <3> HIDE DEF s
    <3> QED BY <1>1, <2>5, <3>1
  <2>8. page = Between(after, s)
    <3> HIDE DEF s
    <3>1. \A d \in page : d \in log /\ after < d.seq
      BY <1>3
    <3>2. \A d \in all : d.seq <= s => d \in page
      BY <1>5, <2>5
    <3> HIDE DEF page
    <3> QED BY <1>3, <2>6, <3>1, <3>2 DEF Between
  <2> HIDE DEF s
  <2>9. page \in SUBSET log /\ more \in BOOLEAN /\ s \in Nat
    BY <1>3, <2>7
  <2> HIDE DEF page, more
  <2> USE <2>9
  <2> WITNESS page \in SUBSET log, more \in BOOLEAN, s \in Nat
  <2> QED BY <1>1, <1>2, <1>7, <2>7, <2>8
<1> QED BY <1>6, <1>7


-----------------------------------------------------------------------------
\* The gateway.

\* An answer of the platform, and a call of the polling goroutine.
Snapshots == [kind : {"snapshot"}, epoch : Nat, sequence : Nat, sessions : View]
Pages == [kind : {"changes"}, epoch : Nat, changes : SUBSET Change, more : BOOLEAN, sequence : Nat]
Replies == {NoResponse, Rejection, [kind |-> "gone"]} \cup Snapshots \cup Pages
Call == [pc : {"sent", "served"}, age : 0 .. Timeout, resp : Replies, epoch : Nat, after : Nat]

Shape ==
    /\ sequence <= MaxSeq
    /\ cache \in [epoch : Nat, sequence : Nat, sessions : View, age : 0 .. Stale]
    /\ poll = Idle \/ poll \in Call
    /\ lookup \in {"idle", "sent", "rejected"}
    /\ superseded \in [0 .. MaxSeq -> 0 .. LongAgo]
    /\ rejected \in BOOLEAN

\* Changes age together: what is yet to come has no age, and of two changes the
\* later one is the younger.
AgesOrdered ==
    /\ \A n \in 0 .. MaxSeq : n >= sequence => superseded[n] = 0
    /\ \A m, n \in 0 .. MaxSeq : m <= n => superseded[n] <= superseded[m]

\* The view is the table of its cursor, and its cursor one of the log's.
ViewOfCursor ==
    /\ cache.sequence <= sequence
    /\ ViewMatchesCursor

\* While a call is on its way nothing moves the cursor that it carries.
CallCarriesCursor ==
    poll.pc # "idle" => /\ poll.after = cache.sequence
                        /\ cache.epoch # 0 => poll.epoch = cache.epoch

\* What a snapshot on its way will make of the view.
SnapshotTrue ==
    Answered("snapshot") =>
        /\ poll.resp \in Snapshots
        /\ poll.resp.sequence <= sequence
        /\ poll.resp.sequence >= floor => poll.resp.sessions = past[poll.resp.sequence]
        /\ superseded[poll.resp.sequence] <= poll.age

\* What a page on its way will make of the view, if it still has one.
PageTrue ==
    Answered("changes") =>
        /\ poll.resp \in Pages
        /\ poll.after <= poll.resp.sequence /\ poll.resp.sequence <= sequence
        /\ Numbered(poll.resp.changes)
        /\ \A c \in poll.resp.changes : c.seq <= poll.resp.sequence
        /\ cache.epoch # 0 /\ poll.resp.sequence >= floor =>
              Apply(cache.sessions, poll.resp.changes) = past[poll.resp.sequence]
        /\ ~ poll.resp.more => superseded[poll.resp.sequence] <= poll.age

\* A view in use lags by its age and one call.
LagBounded == fresh(cache) => superseded[cache.sequence] <= cache.age + Timeout

SyncInv ==
    /\ LogInv /\ Shape /\ AgesOrdered /\ ViewOfCursor /\ CallCarriesCursor
    /\ SnapshotTrue /\ PageTrue /\ LagBounded


-----------------------------------------------------------------------------
\* So does every step of the platform.
LEMMA LogStep ==
  ASSUME LogAssumption, LogInv, LogNext, sequence <= MaxSeq
  PROVE  LogInv' /\ floor <= floor' /\ sequence <= sequence' /\ sequence' <= MaxSeq
         /\ \A c \in floor' .. sequence : past'[c] = past[c]
<1>1. sequence \in Nat /\ floor \in Nat
  BY DEF LogInv, LogTypeOK
<1>2. CASE CommitSome
  <2>1. PICK order \in Orders : view' \in View /\ Commit(order)
    BY <1>2 DEF CommitSome
  <2>2. LogInv' /\ floor <= floor' /\ sequence < sequence' /\ \A c \in floor' .. sequence : past'[c] = past[c]
    BY <2>1, CommitKeeps
  <2>3. sequence' <= MaxSeq
    BY <2>1 DEF Commit
  <2>4. sequence' \in Nat
    BY <2>2 DEF LogInv, LogTypeOK
  <2> QED BY <1>1, <2>2, <2>3, <2>4
<1>3. CASE Rotate
  <2>1. UNCHANGED <<view, log, sequence, floor, past>> /\ epoch' = epoch + 1
    BY <1>3 DEF Rotate
  <2>2. LogTypeOK'
    BY <2>1 DEF LogInv, LogTypeOK
  <2>3. LogNumbered'
    BY <2>1 DEF LogInv, LogNumbered
  <2>4. LogReplays'
    BY <2>1 DEF LogInv, LogReplays, Apply
  <2> QED BY <1>1, <2>1, <2>2, <2>3, <2>4 DEF LogInv
<1> QED BY <1>2, <1>3 DEF LogNext

\* The account depends on nothing of the gateway.
LEMMA LogKept ==
  ASSUME LogInv, UNCHANGED logVars
  PROVE  LogInv'
BY DEF LogInv, LogTypeOK, LogNumbered, LogReplays, Apply, logVars

\* A gateway that starts has nothing, and the platform's log is empty.
LEMMA SyncStart ==
  ASSUME LogAssumption, SyncAssumption, Init
  PROVE  SyncInv
<1>1. Nothing \in View
  BY DEF Nothing, View
<1>2. view = Nothing /\ log = {} /\ sequence = 0 /\ floor = 0 /\ epoch = 1 /\ past = [n \in {0} |-> Nothing]
  BY DEF Init, LogInit
<1>3. LogTypeOK
  <2>1. 0 .. 0 = {0}
    OBVIOUS
  <2>2. past \in [floor .. sequence -> View]
    BY <1>1, <1>2, <2>1
  <2> QED BY <1>1, <1>2, <2>2 DEF LogTypeOK
<1>4. LogNumbered
  BY <1>2 DEF LogNumbered, Numbered, LogAssumption
<1>5. LogReplays
  <2> SUFFICES ASSUME NEW a \in floor .. sequence, NEW b \in a .. sequence
               PROVE  Apply(past[a], {c \in log : a < c.seq /\ c.seq <= b}) = past[b]
    BY DEF LogReplays
  <2>1. a = 0 /\ b = 0
    BY <1>2
  <2>2. past[0] = Nothing
    BY <1>2
  <2>3. Apply(Nothing, {}) = Nothing
    BY DEF Apply, Nothing
  <2>4. {c \in log : a < c.seq /\ c.seq <= b} = {}
    BY <1>2
  <2> QED BY <2>1, <2>2, <2>3, <2>4
<1>6. cache = NewGateway /\ poll = Idle /\ lookup = "idle" /\ superseded = [n \in 0 .. MaxSeq |-> 0] /\ rejected = FALSE
  BY DEF Init
<1>7. LongAgo \in Nat /\ Stale \in Nat /\ ~ (Stale <= StaleWindow) /\ 0 \in 0 .. LongAgo /\ MaxSeq \in Nat
  BY DEF SyncAssumption, LogAssumption, LongAgo, Stale
<1>8. Shape
  <2>1. cache \in [epoch : Nat, sequence : Nat, sessions : View, age : 0 .. Stale]
    BY <1>1, <1>6, <1>7 DEF NewGateway
  <2>2. superseded \in [0 .. MaxSeq -> 0 .. LongAgo]
    BY <1>6, <1>7
  <2>3. poll = Idle /\ lookup \in {"idle", "sent", "rejected"} /\ rejected \in BOOLEAN
    BY <1>6
  <2>4. sequence <= MaxSeq
    BY <1>2, <1>7
  <2> QED BY <2>1, <2>2, <2>3, <2>4 DEF Shape
<1>9. AgesOrdered
  BY <1>6 DEF AgesOrdered
<1>10. ViewOfCursor
  BY <1>2, <1>6 DEF ViewOfCursor, ViewMatchesCursor, NewGateway
<1>11. CallCarriesCursor /\ SnapshotTrue /\ PageTrue
  BY <1>6 DEF CallCarriesCursor, SnapshotTrue, PageTrue, Answered, Idle
<1>12. LagBounded
  BY <1>6, <1>7 DEF LagBounded, fresh, NewGateway
<1> QED BY <1>3, <1>4, <1>5, <1>8, <1>9, <1>10, <1>11, <1>12 DEF SyncInv, LogInv

\* The platform moves on: what the gateway has stays true of the past.
LEMMA PlatformKeeps ==
  ASSUME LogAssumption, SyncAssumption, SyncInv, PlatformStep
  PROVE  SyncInv'
<1>1. LogInv /\ LogInv' /\ floor <= floor' /\ sequence <= sequence' /\ sequence' <= MaxSeq
      /\ \A c \in floor' .. sequence : past'[c] = past[c]
  BY LogStep DEF PlatformStep, SyncInv, Shape
<1>2. UNCHANGED <<cache, poll, lookup, superseded, rejected>>
  BY DEF PlatformStep, gatewayVars
<1>3. sequence \in Nat /\ floor \in Nat /\ sequence' \in Nat /\ floor' \in Nat
  BY <1>1 DEF LogInv, LogTypeOK
<1>4. Shape'
  BY <1>1, <1>2 DEF SyncInv, Shape
<1>5. AgesOrdered'
  <2>1. \A n \in 0 .. MaxSeq : n >= sequence' => n >= sequence
    BY <1>1, <1>3 DEF LogAssumption
  <2> QED BY <1>2, <2>1 DEF SyncInv, AgesOrdered
<1>6. ViewOfCursor'
  <2>1. cache.sequence \in Nat /\ cache.sequence <= sequence
    BY DEF SyncInv, Shape, ViewOfCursor
  <2>2. cache.sequence >= floor' => cache.sequence >= floor /\ past'[cache.sequence] = past[cache.sequence]
    BY <1>1, <1>3, <2>1
  <2> QED BY <1>1, <1>2, <1>3, <2>1, <2>2 DEF SyncInv, ViewOfCursor, ViewMatchesCursor
<1>7. CallCarriesCursor'
  BY <1>2 DEF SyncInv, CallCarriesCursor
<1>8. SnapshotTrue'
  <2> SUFFICES ASSUME Answered("snapshot") PROVE SnapshotTrue'
    BY <1>2 DEF SnapshotTrue, Answered
  <2>1. poll.resp \in Snapshots /\ poll.resp.sequence \in Nat /\ poll.resp.sequence <= sequence
    BY DEF SyncInv, SnapshotTrue, Snapshots
  <2>2. poll.resp.sequence >= floor' => poll.resp.sequence >= floor /\ past'[poll.resp.sequence] = past[poll.resp.sequence]
    BY <1>1, <1>3, <2>1
  <2>3. poll.resp.sequence <= sequence'
    BY <1>1, <1>3, <2>1
  <2> QED BY <1>2, <2>1, <2>2, <2>3 DEF SyncInv, SnapshotTrue
<1>9. PageTrue'
  <2> SUFFICES ASSUME Answered("changes") PROVE PageTrue'
    BY <1>2 DEF PageTrue, Answered
  <2>1. poll.resp \in Pages /\ poll.resp.sequence \in Nat /\ poll.resp.sequence <= sequence
    BY DEF SyncInv, PageTrue, Pages
  <2>2. poll.resp.sequence >= floor' => poll.resp.sequence >= floor /\ past'[poll.resp.sequence] = past[poll.resp.sequence]
    BY <1>1, <1>3, <2>1
  <2>3. poll.resp.sequence <= sequence'
    BY <1>1, <1>3, <2>1
  <2>4. Apply(cache.sessions, poll.resp.changes)' = Apply(cache.sessions, poll.resp.changes)
    BY <1>2 DEF Apply
  <2> QED BY <1>2, <2>1, <2>2, <2>3, <2>4 DEF SyncInv, PageTrue
<1>10. LagBounded'
  BY <1>2 DEF SyncInv, LagBounded, fresh
<1> QED BY <1>1, <1>4, <1>5, <1>6, <1>7, <1>8, <1>9, <1>10 DEF SyncInv

\* Time passes.
LEMMA TickKeeps ==
  ASSUME LogAssumption, SyncAssumption, SyncInv, Tick
  PROVE  SyncInv'
<1>1. UNCHANGED logVars /\ LogInv' /\ lookup' = lookup /\ rejected' = rejected
  BY LogKept DEF Tick, SyncInv
<1>2. UNCHANGED <<view, log, sequence, floor, epoch, past>>
  BY <1>1 DEF logVars
<1>3. /\ sequence \in Nat /\ floor \in Nat /\ sequence <= MaxSeq /\ MaxSeq \in Nat
      /\ StaleWindow \in Nat /\ Timeout \in Nat /\ Stale \in Nat /\ Stale = StaleWindow + 1
      /\ LongAgo \in Nat /\ LongAgo = StaleWindow + Timeout + 1
  BY DEF SyncInv, Shape, LogInv, LogTypeOK, SyncAssumption, LogAssumption, Stale, LongAgo
<1>4. /\ cache' = [epoch |-> cache.epoch, sequence |-> cache.sequence, sessions |-> cache.sessions,
                   age |-> IF cache.age < Stale THEN cache.age + 1 ELSE cache.age]
      /\ cache.epoch \in Nat /\ cache.sequence \in Nat /\ cache.sessions \in View /\ cache.age \in 0 .. Stale
      /\ cache.sequence <= sequence
  BY DEF Tick, SyncInv, Shape, ViewOfCursor
<1>5. \A n \in 0 .. MaxSeq : /\ superseded[n] \in 0 .. LongAgo
                             /\ superseded'[n] = IF n < sequence /\ superseded[n] < LongAgo
                                                 THEN superseded[n] + 1 ELSE superseded[n]
  BY DEF Tick, SyncInv, Shape
<1>6. poll.age < Timeout
  BY DEF Tick
<1>7. poll = Idle => poll' = Idle
  BY DEF Tick, Idle
<1>8. poll \in Call => /\ poll' = [pc |-> poll.pc, age |-> poll.age + 1, resp |-> poll.resp,
                                   epoch |-> poll.epoch, after |-> poll.after]
                       /\ poll.age \in Nat
  BY DEF Tick, Call
<1>9. Shape'
  <2>1. superseded' \in [0 .. MaxSeq -> 0 .. LongAgo]
    <3>1. \A n \in 0 .. MaxSeq : superseded'[n] \in 0 .. LongAgo
      BY <1>3, <1>5
    <3> QED BY <1>2, <3>1 DEF Tick
  <2>2. poll' = Idle \/ poll' \in Call
    <3>1. CASE poll \in Call
      <4>1. poll.age + 1 \in 0 .. Timeout
        BY <1>3, <1>6, <1>8, <3>1
      <4> QED BY <1>8, <3>1, <4>1 DEF Call
    <3> QED BY <1>7, <3>1 DEF SyncInv, Shape
  <2>3. cache' \in [epoch : Nat, sequence : Nat, sessions : View, age : 0 .. Stale]
    BY <1>3, <1>4
  <2> QED BY <1>1, <1>2, <2>1, <2>2, <2>3 DEF SyncInv, Shape
<1>10. AgesOrdered'
  BY <1>2, <1>3, <1>5 DEF SyncInv, AgesOrdered
<1>11. ViewOfCursor'
  BY <1>2, <1>4 DEF SyncInv, ViewOfCursor, ViewMatchesCursor
<1>12. CallCarriesCursor'
  <2>1. CASE poll \in Call
    BY <1>4, <1>8, <2>1 DEF SyncInv, CallCarriesCursor
  <2> QED BY <1>7, <2>1 DEF SyncInv, Shape, CallCarriesCursor, Idle
<1>13. SnapshotTrue'
  <2> SUFFICES ASSUME Answered("snapshot")' PROVE SnapshotTrue'
    BY DEF SnapshotTrue
  <2>1. poll \in Call
    BY <1>7 DEF SyncInv, Shape, Answered, Idle
  <2>2. Answered("snapshot")
    BY <1>8, <2>1 DEF Answered
  <2>3. /\ poll.resp \in Snapshots /\ poll.resp.sequence \in 0 .. MaxSeq
        /\ superseded[poll.resp.sequence] <= poll.age
    BY <1>3, <2>2 DEF SyncInv, SnapshotTrue, Snapshots
  <2>4. superseded'[poll.resp.sequence] <= poll.age + 1
    BY <1>3, <1>5, <1>8, <2>1, <2>3
  <2> QED BY <1>2, <1>8, <2>1, <2>2, <2>4 DEF SyncInv, SnapshotTrue
<1>14. PageTrue'
  <2> SUFFICES ASSUME Answered("changes")' PROVE PageTrue'
    BY DEF PageTrue
  <2>1. poll \in Call
    BY <1>7 DEF SyncInv, Shape, Answered, Idle
  <2>2. Answered("changes")
    BY <1>8, <2>1 DEF Answered
  <2>3. /\ poll.resp \in Pages /\ poll.resp.sequence \in 0 .. MaxSeq
        /\ ~ poll.resp.more => superseded[poll.resp.sequence] <= poll.age
    BY <1>3, <2>2 DEF SyncInv, PageTrue, Pages
  <2>4. ~ poll.resp.more => superseded'[poll.resp.sequence] <= poll.age + 1
    BY <1>3, <1>5, <1>8, <2>1, <2>3
  <2>5. poll'.resp = poll.resp /\ poll'.after = poll.after /\ poll'.age = poll.age + 1
    BY <1>8, <2>1
  <2>6. Apply(cache.sessions, poll.resp.changes)' = Apply(cache.sessions, poll.resp.changes)
    BY <1>4, <2>5 DEF Apply
  <2> QED BY <1>2, <1>4, <2>2, <2>4, <2>5, <2>6 DEF SyncInv, PageTrue
<1>15. LagBounded'
  <2> SUFFICES ASSUME cache.age < StaleWindow
               PROVE  superseded'[cache.sequence] <= cache.age + 1 + Timeout
    BY <1>3, <1>4 DEF LagBounded, fresh
  <2>1. superseded[cache.sequence] <= cache.age + Timeout
    BY <1>3, <1>4 DEF SyncInv, LagBounded, fresh
  <2> QED BY <1>3, <1>4, <1>5, <2>1
<1> QED BY <1>1, <1>9, <1>10, <1>11, <1>12, <1>13, <1>14, <1>15 DEF SyncInv


\* The gateway's own steps: a call is sent, served, applied or lost; a lookup
\* only reads the view or drops it; a panic or a restart starts over.
LEMMA GatewayKeeps ==
  ASSUME LogAssumption, SyncAssumption, SyncInv, GatewayStep
  PROVE  SyncInv'
<1>1. UNCHANGED logVars /\ LogInv' /\ superseded' = superseded
  BY LogKept DEF GatewayStep, SyncInv
<1>2. UNCHANGED <<view, log, sequence, floor, epoch, past>>
  BY <1>1 DEF logVars
<1>3. /\ sequence \in 0 .. MaxSeq /\ floor \in Nat /\ MaxSeq \in Nat /\ epoch \in Nat /\ view \in View
      /\ past[sequence] = view /\ log \subseteq Change /\ Numbered(log)
      /\ \A c \in log : c.seq > floor /\ c.seq <= sequence
      /\ StaleWindow \in Nat /\ Timeout \in Nat /\ Stale \in Nat /\ Stale = StaleWindow + 1
      /\ Nothing \in View
  BY DEF SyncInv, Shape, LogInv, LogTypeOK, LogNumbered, SyncAssumption, LogAssumption, Stale, Nothing, View
<1>4. AgesOrdered'
  BY <1>1, <1>2 DEF SyncInv, AgesOrdered
<1>5. superseded \in [0 .. MaxSeq -> 0 .. LongAgo] /\ LongAgo \in Nat
  BY <1>3 DEF SyncInv, Shape, LongAgo
<1>6. /\ cache \in [epoch : Nat, sequence : Nat, sessions : View, age : 0 .. Stale]
      /\ cache.sequence \in 0 .. MaxSeq /\ cache.sequence <= sequence
      /\ cache.epoch \in Nat /\ cache.sessions \in View /\ cache.age \in 0 .. Stale
  BY <1>3 DEF SyncInv, Shape, ViewOfCursor
<1> DEFINE CallPart == CallCarriesCursor' /\ SnapshotTrue' /\ PageTrue' /\ (poll' = Idle \/ poll' \in Call)
           ViewPart == ViewOfCursor' /\ LagBounded' /\ cache' \in [epoch : Nat, sequence : Nat, sessions : View, age : 0 .. Stale]
           Rest == lookup' \in {"idle", "sent", "rejected"} /\ rejected' \in BOOLEAN
<1>7. ASSUME CallPart, ViewPart, Rest PROVE SyncInv'
  BY <1>1, <1>2, <1>3, <1>4, <1>5, <1>7 DEF SyncInv, Shape
<1>8. ASSUME poll' = Idle PROVE CallPart
  BY <1>8 DEF CallCarriesCursor, SnapshotTrue, PageTrue, Answered, Idle
<1>9. ASSUME cache' = cache PROVE ViewPart
  BY <1>1, <1>2, <1>6, <1>9 DEF SyncInv, ViewOfCursor, ViewMatchesCursor, LagBounded, fresh
<1>10. ASSUME cache' = invalidate(cache) \/ cache' = NewGateway PROVE ViewPart
  <2>0. PICK n \in Nat : /\ cache' = [epoch |-> 0, sequence |-> n, sessions |-> Nothing, age |-> Stale]
                         /\ n <= sequence
    <3>1. invalidate(cache) = [epoch |-> 0, sequence |-> cache.sequence, sessions |-> Nothing, age |-> Stale]
      <4>1. PICK r : r = invalidate(cache)
        OBVIOUS
      <4>2. r = [epoch |-> 0, sequence |-> cache.sequence, sessions |-> Nothing, age |-> Stale]
        BY <1>6, <4>1 DEF invalidate
      <4> QED BY <4>1, <4>2
    <3>2. NewGateway = [epoch |-> 0, sequence |-> 0, sessions |-> Nothing, age |-> Stale]
      BY DEF NewGateway
    <3>3. cache.sequence \in Nat /\ 0 \in Nat /\ 0 <= sequence
      BY <1>3, <1>6
    <3> HIDE DEF Stale
    <3> QED BY <1>6, <1>10, <3>1, <3>2, <3>3
  <2>1. cache' \in [epoch : Nat, sequence : Nat, sessions : View, age : 0 .. Stale]
        /\ cache'.epoch = 0 /\ cache'.age = Stale /\ cache'.sequence <= sequence
    BY <1>3, <2>0
  <2>2. ViewOfCursor' /\ LagBounded'
    BY <1>2, <1>3, <2>1 DEF ViewOfCursor, ViewMatchesCursor, LagBounded, fresh
  <2> QED BY <2>1, <2>2
<1>11. ASSUME poll' = poll, cache' = cache PROVE CallPart
  <2>1. Apply(cache.sessions, poll.resp.changes)' = Apply(cache.sessions, poll.resp.changes)
    BY <1>11 DEF Apply
  <2> QED BY <1>1, <1>2, <1>11, <2>1
           DEF SyncInv, Shape, CallCarriesCursor, SnapshotTrue, PageTrue, Answered
<1>12. ASSUME poll' = poll, cache' = invalidate(cache) PROVE CallPart
  <2>1. cache'.epoch = 0 /\ cache'.sequence = cache.sequence
    BY <1>6, <1>12 DEF invalidate
  <2> QED BY <1>1, <1>2, <1>12, <2>1
           DEF SyncInv, Shape, CallCarriesCursor, SnapshotTrue, PageTrue, Answered
<1>13. ASSUME UNCHANGED <<lookup, rejected>> PROVE Rest
  BY <1>13 DEF SyncInv, Shape
<1> HIDE DEF CallPart, ViewPart, Rest
<1>14. CASE PollStart
  <2>1. poll' = [pc |-> "sent", age |-> 0, resp |-> NoResponse, epoch |-> cache.epoch, after |-> cache.sequence]
        /\ cache' = cache /\ UNCHANGED <<lookup, rejected>>
    BY <1>14 DEF PollStart
  <2>2. poll' \in Call
    BY <1>3, <1>6, <2>1 DEF Call, Replies
  <2>3. CallPart
    BY <2>1, <2>2 DEF CallPart, CallCarriesCursor, SnapshotTrue, PageTrue, Answered
  <2> QED BY <1>7, <1>9, <1>13, <2>1, <2>3
<1>15. ASSUME NEW r \in Replies, poll.pc = "sent", UNCHANGED <<cache, lookup, rejected>>,
              poll' = [poll EXCEPT !.pc = "served", !.resp = r],
              r.kind = "snapshot" => r = SessionSnapshot,
              r.kind = "changes" => \E e \in Nat, page \in SUBSET log, more \in BOOLEAN, s \in Nat :
                  /\ r = [kind |-> "changes", epoch |-> e, changes |-> page, more |-> more, sequence |-> s]
                  /\ page = Between(poll.after, s)
                  /\ floor <= poll.after /\ poll.after <= s /\ s <= sequence
                  /\ ~ more => s = sequence
       PROVE  SyncInv'
  <2>1. poll \in Call
    BY <1>15 DEF SyncInv, Shape, Idle
  <2>2. poll' = [pc |-> "served", age |-> poll.age, resp |-> r, epoch |-> poll.epoch, after |-> poll.after]
        /\ poll.age \in 0 .. Timeout /\ poll.after = cache.sequence /\ (cache.epoch # 0 => poll.epoch = cache.epoch)
    BY <1>15, <2>1 DEF Call, SyncInv, CallCarriesCursor
  <2>3. poll' \in Call
    BY <2>1, <2>2 DEF Call
  <2>4. CallCarriesCursor'
    BY <1>15, <2>2 DEF CallCarriesCursor
  <2>5. superseded[sequence] = 0
    BY <1>3 DEF SyncInv, AgesOrdered
  <2>6. SnapshotTrue'
    <3> SUFFICES ASSUME r.kind = "snapshot" PROVE SnapshotTrue'
      BY <2>2 DEF SnapshotTrue, Answered
    <3>1. r = [kind |-> "snapshot", epoch |-> epoch, sequence |-> sequence, sessions |-> view]
      BY <1>15 DEF SessionSnapshot
    <3>2. r \in Snapshots
      BY <1>3, <3>1 DEF Snapshots
    <3> QED BY <1>1, <1>2, <1>3, <2>2, <2>5, <3>1, <3>2 DEF SnapshotTrue
  <2>7. PageTrue'
    <3> SUFFICES ASSUME r.kind = "changes" PROVE PageTrue'
      BY <2>2 DEF PageTrue, Answered
    <3>1. PICK e \in Nat, page \in SUBSET log, more \in BOOLEAN, s \in Nat :
                  /\ r = [kind |-> "changes", epoch |-> e, changes |-> page, more |-> more, sequence |-> s]
                  /\ page = Between(poll.after, s)
                  /\ floor <= poll.after /\ poll.after <= s /\ s <= sequence
                  /\ ~ more => s = sequence
      BY <1>15
    <3>2. r \in Pages
      BY <1>3, <3>1 DEF Pages
    <3>3. Numbered(page) /\ \A c \in page : c.seq <= s
      BY <1>3, <3>1 DEF Numbered, Between
    <3>4. cache.epoch # 0 => Apply(cache.sessions, page) = past[s]
      <4> SUFFICES ASSUME cache.epoch # 0 PROVE Apply(cache.sessions, page) = past[s]
        OBVIOUS
      <4>1. cache.sessions = past[poll.after]
        BY <1>3, <1>6, <2>2, <3>1 DEF SyncInv, ViewOfCursor, ViewMatchesCursor
      <4>2. poll.after \in floor .. sequence /\ s \in poll.after .. sequence
        BY <1>3, <1>6, <2>2, <3>1
      <4>3. Apply(past[poll.after], Between(poll.after, s)) = past[s]
        BY <4>2 DEF SyncInv, LogInv, LogReplays, Between
      <4> QED BY <3>1, <4>1, <4>3
    <3>5. Apply(cache.sessions, poll.resp.changes)' = Apply(cache.sessions, page)
      <4>1. poll'.resp.changes = page /\ cache' = cache
        BY <1>15, <2>2, <3>1
      <4> QED BY <4>1 DEF Apply
    <3> QED BY <1>1, <1>2, <1>3, <1>15, <2>2, <2>5, <3>1, <3>2, <3>3, <3>4, <3>5 DEF PageTrue
  <2>8. CallPart
    BY <2>3, <2>4, <2>6, <2>7 DEF CallPart
  <2> QED BY <1>7, <1>9, <1>13, <1>15, <2>8
<1>16. CASE PollServe
  <2>1. poll.pc = "sent" /\ UNCHANGED <<cache, lookup, rejected>>
        /\ poll' = [poll EXCEPT !.pc = "served",
                        !.resp = IF poll.epoch = 0 THEN SessionSnapshot ELSE SessionChanges(poll.epoch, poll.after)]
    BY <1>16 DEF PollServe
  <2>2. poll.after \in Nat /\ poll.epoch \in Nat
    BY <2>1 DEF SyncInv, Shape, Idle, Call
  <2>3. CASE poll.epoch = 0
    <3>1. SessionSnapshot \in Replies /\ SessionSnapshot.kind = "snapshot"
      BY <1>3 DEF SessionSnapshot, Replies, Snapshots
    <3> QED BY <1>15, <2>1, <2>3, <3>1
  <2>4. CASE poll.epoch # 0 /\ Expired(poll.epoch, poll.after)
    <3>1. SessionChanges(poll.epoch, poll.after) = [kind |-> "gone"]
      BY <2>4 DEF SessionChanges
    <3>2. [kind |-> "gone"] \in Replies
      BY DEF Replies
    <3> QED BY <1>15, <2>1, <2>4, <3>1, <3>2
  <2>5. CASE poll.epoch # 0 /\ ~ Expired(poll.epoch, poll.after)
    <3>0. PICK a \in Nat, e \in Nat : a = poll.after /\ e = poll.epoch
      BY <2>2
    <3>1. PICK page \in SUBSET log, more \in BOOLEAN, s \in Nat :
            /\ SessionChanges(e, a) = [kind |-> "changes", epoch |-> epoch, changes |-> page,
                                       more |-> more, sequence |-> s]
            /\ page = Between(a, s)
            /\ floor <= a /\ a <= s /\ s <= sequence
            /\ ~ more => s = sequence
      <4>1. ~ Expired(e, a) /\ LogInv
        BY <2>5, <3>0 DEF SyncInv, Expired
      <4> QED BY <4>1, PageIsBetween
    <3>2. PICK r : r = SessionChanges(e, a)
      OBVIOUS
    <3>3. r \in Replies
      BY <1>3, <3>1, <3>2 DEF Replies, Pages
    <3>4. r.kind = "changes"
      BY <3>1, <3>2
    <3>5. \E ee \in Nat, page_ \in SUBSET log, more_ \in BOOLEAN, s_ \in Nat :
                  /\ r = [kind |-> "changes", epoch |-> ee, changes |-> page_, more |-> more_, sequence |-> s_]
                  /\ page_ = Between(poll.after, s_)
                  /\ floor <= poll.after /\ poll.after <= s_ /\ s_ <= sequence
                  /\ ~ more_ => s_ = sequence
      BY <1>3, <3>0, <3>1, <3>2
    <3>6. poll' = [poll EXCEPT !.pc = "served", !.resp = r]
      BY <2>1, <2>5, <3>0, <3>2
    <3> QED BY <1>15, <2>1, <3>3, <3>4, <3>5, <3>6
  <2> QED BY <2>3, <2>4, <2>5
<1>17. CASE PollReject
  <2>1. Rejection \in Replies /\ Rejection.kind = "rejected"
    BY DEF Replies, Rejection
  <2> QED BY <1>15, <1>17, <2>1 DEF PollReject
<1>18. CASE PollFail
  BY <1>7, <1>8, <1>9, <1>13, <1>18 DEF PollFail
<1>19. CASE ApplySnapshot
  <2>1. Answered("snapshot") /\ poll' = Idle /\ rejected' = FALSE /\ lookup' = lookup
        /\ cache' = [epoch |-> poll.resp.epoch, sequence |-> poll.resp.sequence,
                     sessions |-> poll.resp.sessions, age |-> 0]
    BY <1>19 DEF ApplySnapshot
  <2>2. /\ poll.resp.epoch \in Nat /\ poll.resp.sequence \in Nat /\ poll.resp.sessions \in View
        /\ poll.resp.sequence <= sequence
        /\ poll.resp.sequence >= floor => poll.resp.sessions = past[poll.resp.sequence]
        /\ superseded[poll.resp.sequence] <= poll.age
    BY <2>1 DEF SyncInv, SnapshotTrue, Snapshots
  <2>3. poll.age \in 0 .. Timeout
    BY <2>1 DEF SyncInv, Shape, Call, Idle, Answered
  <2>4. superseded[poll.resp.sequence] <= 0 + Timeout
    BY <1>3, <1>5, <2>2, <2>3
  <2>5. ViewPart
    BY <1>1, <1>2, <1>3, <2>1, <2>2, <2>4 DEF ViewPart, ViewOfCursor, ViewMatchesCursor, LagBounded
  <2>6. Rest
    BY <2>1 DEF Rest, SyncInv, Shape
  <2> QED BY <1>7, <1>8, <2>1, <2>5, <2>6
<1>20. CASE ApplyGone
  BY <1>7, <1>8, <1>10, <1>13, <1>20 DEF ApplyGone
<1>21. CASE ApplyRejection
  <2>1. Rest
    BY <1>21 DEF ApplyRejection, Rest, SyncInv, Shape
  <2> QED BY <1>7, <1>8, <1>10, <1>21, <2>1 DEF ApplyRejection
<1>22. CASE ApplyChanges
  <2>1. Answered("changes") /\ poll' = Idle /\ UNCHANGED <<lookup, rejected>> /\ cache' = Advanced(poll.resp)
    BY <1>22 DEF ApplyChanges
  <2>2. cache' = [epoch |-> cache.epoch, sequence |-> poll.resp.sequence,
                  sessions |-> Apply(cache.sessions, poll.resp.changes),
                  age |-> IF poll.resp.more THEN cache.age ELSE 0]
    BY <1>6, <2>1 DEF Advanced
  <2>3. /\ poll.resp.sequence \in 0 .. MaxSeq /\ poll.resp.changes \in SUBSET Change /\ poll.resp.more \in BOOLEAN
        /\ poll.after <= poll.resp.sequence /\ poll.resp.sequence <= sequence
        /\ Numbered(poll.resp.changes)
        /\ \A c \in poll.resp.changes : c.seq <= poll.resp.sequence
        /\ cache.epoch # 0 /\ poll.resp.sequence >= floor =>
              Apply(cache.sessions, poll.resp.changes) = past[poll.resp.sequence]
        /\ ~ poll.resp.more => superseded[poll.resp.sequence] <= poll.age
    BY <1>3, <2>1 DEF SyncInv, PageTrue, Pages
  <2>4. poll.age \in 0 .. Timeout /\ poll.after = cache.sequence
    BY <2>1 DEF SyncInv, Shape, Call, Idle, Answered, CallCarriesCursor
  <2>5. Apply(cache.sessions, poll.resp.changes) \in View
    <3>1. PICK m \in View, cs \in SUBSET Change, n \in Nat :
             m = cache.sessions /\ cs = poll.resp.changes /\ n = poll.resp.sequence
      BY <1>6, <2>3
    <3>2. Apply(m, cs) \in View
      BY <2>3, <3>1, ApplyTyped
    <3> QED BY <3>1, <3>2
  <2>6. cache' \in [epoch : Nat, sequence : Nat, sessions : View, age : 0 .. Stale]
    BY <1>3, <1>6, <2>2, <2>3, <2>5
  <2>7. ViewOfCursor'
    BY <1>2, <2>2, <2>3 DEF ViewOfCursor, ViewMatchesCursor
  <2>8. LagBounded'
    <3>1. CASE poll.resp.more
      <4>1. superseded[poll.resp.sequence] <= superseded[cache.sequence]
        BY <1>6, <2>3, <2>4 DEF SyncInv, AgesOrdered
      <4>2. cache.age <= StaleWindow => superseded[poll.resp.sequence] <= cache.age + Timeout
        BY SMTT(20), <1>3, <1>5, <1>6, <2>3, <4>1 DEF SyncInv, LagBounded, fresh
      <4> QED BY <1>1, <2>2, <3>1, <4>2 DEF LagBounded, fresh
    <3>2. CASE ~ poll.resp.more
      <4>1. superseded[poll.resp.sequence] <= 0 + Timeout
        BY <1>3, <1>5, <2>3, <2>4, <3>2
      <4> QED BY <1>1, <2>2, <3>2, <4>1 DEF LagBounded, fresh
    <3> QED BY <3>1, <3>2
  <2>9. ViewPart
    BY <2>6, <2>7, <2>8 DEF ViewPart
  <2> QED BY <1>7, <1>8, <1>13, <2>1, <2>9
<1>23. ASSUME Restart PROVE SyncInv'
  <2>1. Rest
    BY <1>23 DEF Restart, Rest
  <2> QED BY <1>7, <1>8, <1>10, <1>23, <2>1 DEF Restart
<1>24. CASE PanicInSync
  BY <1>23, <1>24 DEF PanicInSync
<1>25. ASSUME NEW id \in Ids, LookupStart(id) PROVE SyncInv'
  <2>1. Rest
    BY <1>25 DEF LookupStart, Rest, SyncInv, Shape
  <2> QED BY <1>7, <1>9, <1>11, <1>25, <2>1 DEF LookupStart
<1>26. CASE LookupReject
  <2>1. Rest
    BY <1>26 DEF LookupReject, Rest, SyncInv, Shape
  <2> QED BY <1>7, <1>9, <1>11, <1>26, <2>1 DEF LookupReject
<1>27. CASE LookupDone
  <2>1. Rest
    BY <1>27 DEF LookupDone, Rest, SyncInv, Shape
  <2> QED BY <1>7, <1>9, <1>11, <1>27, <2>1 DEF LookupDone
<1>28. CASE LookupRejected
  <2>1. Rest
    BY <1>28 DEF LookupRejected, Rest
  <2> QED BY <1>7, <1>10, <1>12, <1>28, <2>1 DEF LookupRejected
<1> QED BY <1>14, <1>16, <1>17, <1>18, <1>19, <1>20, <1>21, <1>22, <1>23, <1>24, <1>25, <1>26, <1>27, <1>28
        DEF GatewayStep

\* Nothing happens.
LEMMA SyncStutter ==
  ASSUME SyncInv, UNCHANGED vars
  PROVE  SyncInv'
<1>1. UNCHANGED logVars /\ LogInv' /\ UNCHANGED <<cache, poll, lookup, superseded, rejected>>
  BY LogKept DEF vars, gatewayVars, SyncInv
<1>2. UNCHANGED <<view, log, sequence, floor, epoch, past>>
  BY <1>1 DEF logVars
<1>3. Apply(cache.sessions, poll.resp.changes)' = Apply(cache.sessions, poll.resp.changes)
  BY <1>1 DEF Apply
<1> QED BY <1>1, <1>2, <1>3 DEF SyncInv, Shape, AgesOrdered, ViewOfCursor, ViewMatchesCursor, CallCarriesCursor,
                                SnapshotTrue, PageTrue, LagBounded, Answered, fresh

\* What the run checks follows.
LEMMA SyncGives ==
  ASSUME LogAssumption, SyncAssumption, SyncInv
  PROVE  ViewSound
<1>1. TypeOK
  <2>1. poll.pc \in {"idle", "sent", "served"} /\ poll.age \in 0 .. Timeout
    BY DEF SyncInv, Shape, Idle, Call, SyncAssumption
  <2> QED BY <2>1 DEF TypeOK, SyncInv, Shape, LogInv, View
<1>2. BoundedStaleness
  <2> SUFFICES ASSUME fresh(cache) PROVE superseded[cache.sequence] <= StaleWindow + Timeout
    BY DEF BoundedStaleness
  <2>1. /\ cache.age \in Nat /\ cache.age <= StaleWindow /\ StaleWindow \in Nat /\ Timeout \in Nat
        /\ cache.sequence \in 0 .. MaxSeq /\ superseded[cache.sequence] <= cache.age + Timeout
    BY DEF fresh, SyncInv, Shape, SyncAssumption, LogAssumption, LagBounded, ViewOfCursor, LogInv, LogTypeOK
  <2>2. superseded[cache.sequence] \in 0 .. LongAgo /\ LongAgo \in Nat
    BY <2>1 DEF SyncInv, Shape, LongAgo
  <2> QED BY <2>1, <2>2
<1> QED BY <1>1, <1>2 DEF ViewSound, SyncInv, LogInv, ViewOfCursor

\* A gateway never concludes too much from its cache: its view is the table of
\* its cursor, and one that it uses lags by no more than the window and a call.
THEOREM ViewIsSound == Spec => []ViewSound
<1>1. Init => SyncInv
  BY SyncStart, LogAssumption, SyncAssumption
<1>2. SyncInv /\ [Next]_vars => SyncInv'
  BY PlatformKeeps, TickKeeps, GatewayKeeps, SyncStutter, LogAssumption, SyncAssumption DEF Next
<1>3. SyncInv => ViewSound
  BY SyncGives, LogAssumption, SyncAssumption
<1> QED BY <1>1, <1>2, <1>3, PTL DEF Spec
=============================================================================
