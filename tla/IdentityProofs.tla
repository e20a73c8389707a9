---------------------------- MODULE IdentityProofs ----------------------------
(***************************************************************************)
(* Proofs about accounts, tokens and downstream credentials, for any       *)
(* numbers of people, teams, addresses, resolutions, forms and Pods, and   *)
(* all limits.                                                             *)
(*                                                                         *)
(* HandOutsAreSound (CredentialBroker).  HandOutInv adds to the property   *)
(* what a resolution carries and what backs it: the value fetched is the   *)
(* one its snapshot's source names (Carried), and from the second read on  *)
(* the snapshot is current and stays so under the lock, and every part     *)
(* asked for since the provider answered has stood (Backed).               *)
(*                                                                         *)
(* SignInsAreSound (SignIn).  A subject's values are what its own form     *)
(* submitted.  SignInInv follows a subject from its form (FormsInv, no two *)
(* forms share one) to its code (CodesInv), to the store (StoredInv) and   *)
(* to the calls that carry it (CallsInv), and counts for each request the  *)
(* attempts made and the one that won (RequestsInv).                       *)
(*                                                                         *)
(* ReviewsAreSound (CredentialBroker).  A verdict is honoured for a        *)
(* bounded time because what is remembered of a stopped Pod was learnt at  *)
(* most a review's time after it stopped (RememberedLately, ReviewSound).  *)
(*                                                                         *)
(* TokensAreBounded (PlatformTokens).  A scope that a token names is the   *)
(* person's, or was taken away so lately that the token's remaining life   *)
(* and the time since the loss add up to no more than a lifetime           *)
(* (TokenSound, HeldLately).                                               *)
(*                                                                         *)
(* LocksAreKept (LoginLockout).  A lock never lasts longer than its        *)
(* failures earn (BucketSound), and the doubling never shrinks             *)
(* (LockoutGrows): a late failure can only lengthen it.                    *)
(*                                                                         *)
(* AccountsAreSound (Accounts).  The run's invariants are inductive; the   *)
(* two action properties follow from them, step by step                    *)
(* (AccountsStepSound).                                                    *)
(***************************************************************************)
EXTENDS Accounts, LoginLockout, PlatformTokens, SignIn, CredentialBroker,
        TLAPS, FiniteSetTheorems, NaturalsInduction, WellFoundedInduction
-----------------------------------------------------------------------------
\* The credential broker's hand-outs.

\* What a resolution carries, and what has stood for it: a fetched value is the one its snapshot's source names,
\* under the lock the snapshot is current, and each phase after the second read adds a part that has stood.
Carried(x) ==
    /\ x.phase \in {"none", "source", "server", "grant", "binding", "read", "check", "commit", "done", "denied"}
    /\ x.locked \in BOOLEAN
    /\ x.phase = "commit" => x.locked
    /\ x.phase = "check" \/ x.locked => x.value = x.snapshot.source.resource
    /\ x.locked => x.phase \in {"server", "grant", "binding", "commit"}
Backed(x, st) ==
    /\ x.phase = "check" \/ x.locked => authority \subseteq st
    /\ x.locked => /\ x.snapshot = Snapshot /\ Stored \subseteq authority
                   /\ "expiry" \in st
                   /\ x.phase # "server" => "server" \in st
                   /\ x.phase = "binding" \/ x.phase = "commit" => "grant" \in st
HandOutInv ==
    /\ DOMAIN sources = SourceNames /\ \A s \in SourceNames : sources[s].revision \in 0..MaxRevision
    /\ binding = NoBinding \/ (sources[binding.source] # NoSource /\ binding.source \in SourceNames)
    /\ authority \subseteq Parts /\ stood \in [Resolutions -> SUBSET Parts]
    /\ DOMAIN resolutions = Resolutions
    /\ \A r \in Resolutions : Carried(resolutions[r]) /\ Backed(resolutions[r], stood[r])
    /\ {r \in Resolutions : resolutions[r].phase = "done"} = audits
    /\ HandedIsCurrent /\ HandedInForce

\* At the start no resolution is under way.
LEMMA HandOutInitially == BrokerInit => HandOutInv
<1> SUFFICES ASSUME BrokerInit PROVE HandOutInv
  OBVIOUS
<1>1. \A s \in SourceNames : sources[s].revision = 0
  BY DEF BrokerInit, NoSource
<1>2. \A st : Carried(AtRest) /\ Backed(AtRest, st) /\ AtRest.phase = "none"
  BY DEF Carried, Backed, AtRest
<1>3. \A r \in Resolutions : Carried(resolutions[r]) /\ Backed(resolutions[r], stood[r]) /\ resolutions[r].phase = "none"
  BY <1>2 DEF BrokerInit
<1>4. {r \in Resolutions : resolutions[r].phase = "done"} = audits
  BY <1>3 DEF BrokerInit
<1>5. HandedIsCurrent /\ HandedInForce
  BY DEF BrokerInit, HandedIsCurrent, HandedInForce, NotHanded
<1>6. DOMAIN sources = SourceNames /\ DOMAIN resolutions = Resolutions
  BY DEF BrokerInit
<1>7. binding = NoBinding \/ (sources[binding.source] # NoSource /\ binding.source \in SourceNames)
  BY DEF BrokerInit
<1>8. \A s \in SourceNames : sources[s].revision \in 0..MaxRevision
  BY <1>1, BrokerAssumption
<1>9. authority \subseteq Parts /\ stood \in [Resolutions -> SUBSET Parts]
  BY DEF BrokerInit
<1> QED
  BY <1>3, <1>4, <1>5, <1>6, <1>7, <1>8, <1>9 DEF HandOutInv

\* What management changes, while nobody has the lock: sources and the binding.
LEMMA ManagementKept ==
  ASSUME HandOutInv, Unlocked, UNCHANGED <<authority, resolutions, stood, audits, handed>>,
         DOMAIN sources' = SourceNames, \A s \in SourceNames : sources'[s].revision \in 0..MaxRevision,
         binding' = NoBinding \/ (sources'[binding'.source] # NoSource /\ binding'.source \in SourceNames)
  PROVE  HandOutInv'
<1>1. \A r \in Resolutions : ~resolutions[r].locked
  BY DEF Unlocked
<1>2. \A r \in Resolutions : Backed(resolutions[r], stood[r])'
  BY <1>1 DEF Backed, HandOutInv
<1>3. \A r \in Resolutions : Carried(resolutions[r])'
  BY DEF Carried, HandOutInv
<1> QED
  BY <1>2, <1>3 DEF HandOutInv, HandedIsCurrent, HandedInForce

\* Moving one resolution to what is carried and backed keeps the invariant, if audits and hand-outs follow.
LEMMA AdvanceKept ==
  ASSUME HandOutInv, UNCHANGED <<sources, binding, authority>>, NEW r \in Resolutions, NEW x, NEW st \in SUBSET Parts,
         resolutions' = [resolutions EXCEPT ![r] = x], stood' = [stood EXCEPT ![r] = st],
         Carried(x), Backed(x, st), resolutions[r].phase # "done",
         audits' = (IF x.phase = "done" THEN audits \cup {r} ELSE audits), HandedIsCurrent', HandedInForce'
  PROVE  HandOutInv'
<1>1. DOMAIN resolutions' = Resolutions /\ \A q \in Resolutions : resolutions'[q] = (IF q = r THEN x ELSE resolutions[q])
  BY DEF HandOutInv
<1>2. stood' \in [Resolutions -> SUBSET Parts] /\ \A q \in Resolutions : stood'[q] = (IF q = r THEN st ELSE stood[q])
  BY DEF HandOutInv
<1>3. ASSUME NEW q \in Resolutions
      PROVE  Carried(resolutions[q])' /\ Backed(resolutions[q], stood[q])'
  <2>1. PICK y, s : y = resolutions'[q] /\ s = stood'[q]
    OBVIOUS
  <2>2. Carried(y) /\ Backed(y, s)
    BY <1>1, <1>2, <2>1 DEF HandOutInv
  <2>3. Snapshot' = Snapshot
    BY DEF Snapshot
  <2> QED
    BY <2>1, <2>2, <2>3 DEF Carried, Backed
<1>4. {q \in Resolutions : resolutions'[q].phase = "done"} = audits'
  BY <1>1 DEF HandOutInv
<1> QED
  BY <1>1, <1>2, <1>3, <1>4 DEF HandOutInv

\* A step of a resolution that neither ends it nor hands anything out.
LEMMA MoveKept ==
  ASSUME HandOutInv, UNCHANGED RestOf, UNCHANGED stood, NEW r \in Resolutions,
         NEW phase, NEW locked, NEW snapshot, NEW value, Advance(r, phase, locked, snapshot, value),
         resolutions[r].phase # "done", phase # "done",
         \A x : x = [phase |-> phase, locked |-> locked, snapshot |-> snapshot, value |-> value] =>
                  Carried(x) /\ Backed(x, stood[r])
  PROVE  HandOutInv'
<1>1. PICK x : x = [phase |-> phase, locked |-> locked, snapshot |-> snapshot, value |-> value]
  OBVIOUS
<1>2. resolutions' = [resolutions EXCEPT ![r] = x] /\ x.phase = phase
  BY <1>1 DEF Advance
<1>3. PICK st : st = stood[r]
  OBVIOUS
<1>4. st \in SUBSET Parts /\ stood' = [stood EXCEPT ![r] = st]
  BY <1>3 DEF HandOutInv
<1>5. HandedIsCurrent' /\ HandedInForce'
  BY DEF HandOutInv, HandedIsCurrent, HandedInForce, RestOf
<1>6. UNCHANGED <<sources, binding, authority>> /\ audits' = audits
  BY DEF RestOf
<1>7. Carried(x) /\ Backed(x, st)
  BY <1>1, <1>3
<1> QED
  BY <1>2, <1>4, <1>5, <1>6, <1>7, AdvanceKept

\* Asking Kubernetes: the part that answers is in force now, and so has stood for a fetched value.
LEMMA AskKept ==
  ASSUME HandOutInv, NEW r \in Resolutions, NEW phase, NEW part, NEW next, AskFor(r, phase, part, next),
         \/ phase = "server" /\ part = "server" /\ next = "grant"
         \/ phase = "grant" /\ part = "grant" /\ next = "binding"
         \/ phase = "binding" /\ part = "server" /\ next = (IF resolutions[r].locked THEN "commit" ELSE "read")
  PROVE  HandOutInv'
<1>1. PICK locked, snapshot, value :
        locked = resolutions[r].locked /\ snapshot = resolutions[r].snapshot /\ value = resolutions[r].value
  OBVIOUS
<1>2. /\ Advance(r, next, locked, snapshot, value) /\ UNCHANGED RestOf /\ UNCHANGED stood
      /\ resolutions[r].phase = phase /\ part \in authority
  BY <1>1 DEF AskFor, Move
<1>3. Carried(resolutions[r]) /\ Backed(resolutions[r], stood[r])
  BY DEF HandOutInv
<1>4. /\ locked \in BOOLEAN /\ phase # "done" /\ next # "done"
      /\ next = "grant" \/ next = "binding" \/ (next = "commit" /\ locked) \/ (next = "read" /\ ~locked)
  BY <1>1, <1>3 DEF Carried
<1>5. locked => value = snapshot.source.resource
  BY <1>1, <1>3 DEF Carried
<1>6. locked => /\ authority \subseteq stood[r] /\ snapshot = Snapshot /\ Stored \subseteq authority /\ "expiry" \in stood[r]
                /\ "server" \in stood[r]
                /\ next # "grant" => "grant" \in stood[r]
  BY <1>1, <1>2, <1>3 DEF Backed
<1>7. ASSUME NEW x, x = [phase |-> next, locked |-> locked, snapshot |-> snapshot, value |-> value]
      PROVE  Carried(x) /\ Backed(x, stood[r])
  <2>1. x.phase = next /\ x.locked = locked /\ x.snapshot = snapshot /\ x.value = value
    BY <1>7
  <2>2. Carried(x)
    BY <2>1, <1>4, <1>5 DEF Carried
  <2>3. Backed(x, stood[r])
    BY <2>1, <1>4, <1>6 DEF Backed
  <2> QED
    BY <2>2, <2>3
<1> QED
  BY <1>2, <1>4, <1>7, MoveKept

\* Every step of the broker keeps the invariant: the second read compares with the snapshot that was taken,
\* and what it compared stays under the lock.
LEMMA HandOutKept ==
  ASSUME HandOutInv, [BrokerNext]_brokerVars
  PROVE  HandOutInv'
<1>1. ASSUME NEW s \in SourceNames, NEW rev \in 0..MaxRevision, PutBinding(s, rev)
      PROVE  HandOutInv'
  <2>1. UNCHANGED <<sources, authority, resolutions, stood, audits, handed>> /\ binding' = [revision |-> rev + 1, source |-> s]
        /\ sources[s] # NoSource /\ Unlocked
    BY <1>1 DEF PutBinding
  <2>2. binding'.source = s
    BY <2>1
  <2> QED
    BY <2>1, <2>2, ManagementKept DEF HandOutInv
<1>2. ASSUME NEW s \in SourceNames, NEW rev \in 0..MaxRevision, NEW x \in Resources, NEW ok \in BOOLEAN,
             PutSource(s, rev, x, ok)
      PROVE  HandOutInv'
  <2>1. PICK n : n = [revision |-> rev + 1, resource |-> x, approves |-> ok]
    OBVIOUS
  <2>2. sources' = [sources EXCEPT ![s] = n] /\ UNCHANGED <<binding, authority, resolutions, stood, audits, handed>>
        /\ rev < MaxRevision /\ Unlocked
    BY <1>2, <2>1 DEF PutSource, ExactRevision
  <2>3. n.revision \in 1..MaxRevision
    BY <2>1, <2>2, BrokerAssumption
  <2>4. n # NoSource
    BY <2>3 DEF NoSource
  <2>5. DOMAIN sources' = SourceNames /\ \A t \in SourceNames : sources'[t] = (IF t = s THEN n ELSE sources[t])
    BY <2>2 DEF HandOutInv
  <2>6. /\ \A t \in SourceNames : sources'[t].revision \in 0..MaxRevision
        /\ binding = NoBinding \/ (sources'[binding.source] # NoSource /\ binding.source \in SourceNames)
    BY <2>3, <2>4, <2>5 DEF HandOutInv
  <2> QED
    BY <2>2, <2>5, <2>6, ManagementKept
<1>3. ASSUME NEW s \in SourceNames, DeleteSource(s)
      PROVE  HandOutInv'
  <2>1. sources' = [sources EXCEPT ![s] = NoSource] /\ UNCHANGED <<binding, authority, resolutions, stood, audits, handed>>
        /\ binding.source # s /\ Unlocked
    BY <1>3 DEF DeleteSource
  <2>2. DOMAIN sources' = SourceNames /\ \A t \in SourceNames : sources'[t] = (IF t = s THEN NoSource ELSE sources[t])
    BY <2>1 DEF HandOutInv
  <2>3. NoSource.revision = 0
    BY DEF NoSource
  <2>4. /\ \A t \in SourceNames : sources'[t].revision \in 0..MaxRevision
        /\ binding = NoBinding \/ (sources'[binding.source] # NoSource /\ binding.source \in SourceNames)
    BY <2>1, <2>2, <2>3, BrokerAssumption DEF HandOutInv
  <2> QED
    BY <2>1, <2>2, <2>4, ManagementKept
<1>4. CASE DeleteBinding
  <2>1. UNCHANGED <<sources, authority, resolutions, stood, audits, handed>> /\ binding' = NoBinding /\ Unlocked
    BY <1>4 DEF DeleteBinding
  <2>2. binding' = NoBinding \/ (sources'[binding'.source] # NoSource /\ binding'.source \in SourceNames)
    BY <2>1
  <2>3. DOMAIN sources' = SourceNames /\ \A s \in SourceNames : sources'[s].revision \in 0..MaxRevision
    BY <2>1 DEF HandOutInv
  <2> QED
    BY <2>1, <2>2, <2>3, ManagementKept
<1>5. ASSUME NEW p \in Parts, TurnAuthority(p)
      PROVE  HandOutInv'
  <2>1. /\ UNCHANGED <<sources, binding, resolutions, audits, handed>> /\ authority' \subseteq Parts
        /\ p \in Stored => Unlocked
        /\ authority' = authority \ {p} \/ authority' = authority \cup {p}
    BY <1>5 DEF TurnAuthority, MayTurn, HandOutInv
  <2>2. stood' = [r \in Resolutions |-> IF Fetched(r) THEN stood[r] \cup authority' ELSE stood[r]]
    BY <1>5 DEF TurnAuthority
  <2>3. stood' \in [Resolutions -> SUBSET Parts]
    BY <2>1, <2>2 DEF HandOutInv
  <2>4. ASSUME NEW r \in Resolutions
        PROVE  Carried(resolutions[r])' /\ Backed(resolutions[r], stood[r])'
    <3>1. PICK x, old, new : x = resolutions[r] /\ old = stood[r] /\ new = stood'[r]
      OBVIOUS
    <3>2. Carried(x) /\ Backed(x, old) /\ x = resolutions'[r] /\ Snapshot' = Snapshot
      BY <3>1, <2>1 DEF HandOutInv, Snapshot
    <3>3. x.phase = "check" \/ x.locked => new = old \cup authority'
      BY <3>1, <2>2 DEF Fetched
    <3>4. x.locked => Stored \subseteq authority'
      <4>1. SUFFICES ASSUME x.locked PROVE Stored \subseteq authority'
        OBVIOUS
      <4>2. ~Unlocked
        BY <4>1, <3>1 DEF Unlocked
      <4>3. p \notin Stored
        BY <4>2, <2>1
      <4>4. Stored \subseteq authority
        BY <4>1, <3>2 DEF Backed
      <4> QED
        BY <4>3, <4>4, <2>1
    <3>5. Backed(x, new)'
      BY <3>2, <3>3, <3>4 DEF Backed
    <3> QED
      BY <3>1, <3>2, <3>5 DEF Carried, Backed
  <2>5. HandedIsCurrent' /\ HandedInForce'
    BY <2>1 DEF HandOutInv, HandedIsCurrent, HandedInForce
  <2> QED
    BY <2>1, <2>3, <2>4, <2>5 DEF HandOutInv
<1>6. ASSUME NEW r \in Resolutions, TakeSnapshot(r) \/ ReadSource(r)
      PROVE  HandOutInv'
  <2>1. PICK phase, snapshot :
          (phase = "source" \/ phase = "server") /\ Advance(r, phase, FALSE, snapshot, "none")
    BY <1>6 DEF TakeSnapshot, ReadSource
  <2>2. UNCHANGED RestOf /\ UNCHANGED stood /\ resolutions[r].phase # "done"
    BY <1>6 DEF TakeSnapshot, ReadSource
  <2>3. \A x : x = [phase |-> phase, locked |-> FALSE, snapshot |-> snapshot, value |-> "none"] =>
                 Carried(x) /\ Backed(x, stood[r])
    BY <2>1 DEF Carried, Backed
  <2> QED
    BY <2>1, <2>2, <2>3, MoveKept
<1>7. ASSUME NEW r \in Resolutions, GetServer(r) \/ GetGrant(r) \/ checkBinding(r)
      PROVE  HandOutInv'
  BY <1>7, AskKept DEF GetServer, GetGrant, checkBinding
<1>8. ASSUME NEW r \in Resolutions, FetchValue(r)
      PROVE  HandOutInv'
  <2>1. PICK x : x = [phase |-> "check", locked |-> FALSE, snapshot |-> resolutions[r].snapshot,
                      value |-> resolutions[r].snapshot.source.resource]
    OBVIOUS
  <2>2. /\ resolutions' = [resolutions EXCEPT ![r] = x] /\ stood' = [stood EXCEPT ![r] = authority]
        /\ UNCHANGED <<sources, binding, authority, audits, handed>> /\ resolutions[r].phase # "done"
    BY <1>8, <2>1 DEF FetchValue, Advance, RestOf
  <2>3. x.phase = "check" /\ x.locked = FALSE /\ x.value = x.snapshot.source.resource
    BY <2>1
  <2>4. Carried(x) /\ Backed(x, authority) /\ authority \in SUBSET Parts /\ audits' = audits /\ x.phase # "done"
    BY <2>2, <2>3 DEF Carried, Backed, HandOutInv
  <2>5. HandedIsCurrent' /\ HandedInForce'
    BY <2>2 DEF HandOutInv, HandedIsCurrent, HandedInForce
  <2> QED
    BY <2>2, <2>4, <2>5, AdvanceKept
<1>9. ASSUME NEW r \in Resolutions, Reread(r)
      PROVE  HandOutInv'
  <2>1. PICK snapshot, value : snapshot = resolutions[r].snapshot /\ value = resolutions[r].value
    OBVIOUS
  <2>2. /\ Advance(r, "server", TRUE, snapshot, value) /\ UNCHANGED RestOf /\ UNCHANGED stood
        /\ resolutions[r].phase = "check" /\ snapshot = Snapshot /\ Stored \cup {"expiry"} \subseteq authority
    BY <1>9, <2>1 DEF Reread, Unchanged, SameCredentialMetadata, Loadable
  <2>3. value = snapshot.source.resource /\ authority \subseteq stood[r]
    BY <2>1, <2>2 DEF HandOutInv, Carried, Backed
  <2>4. \A x : x = [phase |-> "server", locked |-> TRUE, snapshot |-> snapshot, value |-> value] =>
                 Carried(x) /\ Backed(x, stood[r])
    BY <2>2, <2>3 DEF Carried, Backed
  <2> QED
    BY <2>2, <2>4, MoveKept
<1>10. ASSUME NEW r \in Resolutions, Withhold(r)
       PROVE  HandOutInv'
  <2>1. PICK x : x = [phase |-> "denied", locked |-> FALSE, snapshot |-> NoSnapshot, value |-> "none"]
    OBVIOUS
  <2>2. /\ resolutions' = [resolutions EXCEPT ![r] = x] /\ stood' = [stood EXCEPT ![r] = {}]
        /\ UNCHANGED <<sources, binding, authority, audits, handed>> /\ resolutions[r].phase # "done"
    BY <1>10, <2>1 DEF Withhold, End, Advance, RestOf
  <2>3. x.phase = "denied" /\ x.locked = FALSE
    BY <2>1
  <2>4. Carried(x) /\ Backed(x, {}) /\ audits' = audits /\ x.phase # "done"
    BY <2>2, <2>3 DEF Carried, Backed
  <2>5. HandedIsCurrent' /\ HandedInForce'
    BY <2>2 DEF HandOutInv, HandedIsCurrent, HandedInForce
  <2> QED
    BY <2>2, <2>4, <2>5, AdvanceKept
<1>11. ASSUME NEW r \in Resolutions, HandOut(r)
       PROVE  HandOutInv'
  <2>1. PICK x : x = [phase |-> "done", locked |-> FALSE, snapshot |-> NoSnapshot, value |-> "none"]
    OBVIOUS
  <2>2. /\ resolutions' = [resolutions EXCEPT ![r] = x] /\ stood' = [stood EXCEPT ![r] = {}]
        /\ UNCHANGED <<sources, binding, authority>> /\ audits' = audits \cup {r} /\ resolutions[r].phase = "commit"
    BY <1>11, <2>1 DEF HandOut, End, Advance
  <2>3. x.phase = "done" /\ x.locked = FALSE
    BY <2>1
  <2>4. Carried(x) /\ Backed(x, {}) /\ resolutions[r].phase # "done"
    BY <2>2, <2>3 DEF Carried, Backed
  <2>5. PICK y, st : y = resolutions[r] /\ st = stood[r]
    OBVIOUS
  <2>6. Carried(y) /\ Backed(y, st) /\ y.phase = "commit" /\ st \subseteq Parts
    BY <2>2, <2>5 DEF HandOutInv
  <2>7. y.locked /\ y.value = y.snapshot.source.resource
    BY <2>6 DEF Carried
  <2>8. y.snapshot = Snapshot /\ Stored \subseteq authority /\ authority \subseteq st /\ {"expiry", "server", "grant"} \subseteq st
    BY <2>6, <2>7 DEF Backed
  <2>9. handed' = [read |-> y.value, named |-> sources[binding.source].resource,
                   standing |-> authority \cap Stored, stood |-> st]
    BY <1>11, <2>5 DEF HandOut
  <2>10. HandedIsCurrent'
    BY <2>7, <2>8, <2>9 DEF HandedIsCurrent, Snapshot
  <2>11. authority \cap Stored = Stored /\ st = Parts
    BY <2>6, <2>8 DEF Parts
  <2>12. HandedInForce'
    BY <2>9, <2>11 DEF HandedInForce
  <2> QED
    BY <2>2, <2>3, <2>4, <2>10, <2>12, AdvanceKept
<1>12. CASE UNCHANGED brokerVars
  <2>1. UNCHANGED <<sources, binding, authority, resolutions, stood, audits, handed>>
    BY <1>12 DEF brokerVars
  <2>2. Snapshot' = Snapshot
    BY <2>1 DEF Snapshot
  <2>3. \A r \in Resolutions : Carried(resolutions[r])' /\ Backed(resolutions[r], stood[r])'
    BY <2>1, <2>2 DEF HandOutInv, Carried, Backed
  <2> QED
    BY <2>1, <2>3 DEF HandOutInv, HandedIsCurrent, HandedInForce
<1> QED
  BY <1>1, <1>2, <1>3, <1>4, <1>5, <1>6, <1>7, <1>8, <1>9, <1>10, <1>11, <1>12 DEF BrokerNext

\* A credential is handed out only while its session, its subjects, its binding and its source stand; the value is
\* the one the binding names at that moment, and the rest has stood at some moment since the provider answered.
THEOREM HandOutsAreSound == BrokerSpec => []HandOutsSound
<1>1. HandOutInv => HandOutsSound
  BY DEF HandOutInv, HandOutsSound, BrokerTypeOK, Carried
<1> QED
  BY <1>1, HandOutInitially, HandOutKept, PTL DEF BrokerSpec

-----------------------------------------------------------------------------
\* Sign-ins.

\* A set of naturals has a smallest member, and a finite one a largest.
LEMMA SmallestExists ==
  ASSUME NEW T, T \subseteq Nat, T # {}
  PROVE  \E x \in T : \A y \in T : x <= y
<1> DEFINE R == OpToRel(<, Nat)
<1>1. R = {ss \in Nat \X Nat : ss[1] < ss[2]}
  BY DEF OpToRel
<1>2. IsWellFoundedOn(R, Nat)
  BY NatLessThanWellFounded
<1> HIDE DEF R
<1>3. PICK x \in T : \A y \in T : ~ (<<y, x>> \in R)
  BY <1>2, WFMin
<1>4. \A y \in T : ~(y < x)
  BY <1>1, <1>3
<1> QED
  BY <1>4

\* By the least size of a finite set that has no largest member.
LEMMA LargestExists ==
  ASSUME NEW T, T \subseteq Nat, T # {}, IsFiniteSet(T)
  PROVE  \E x \in T : \A y \in T : x >= y
<1> DEFINE HasMax(S) == \E x \in S : \A y \in S : x >= y
           Bad == {n \in Nat : \E S \in SUBSET Nat : IsFiniteSet(S) /\ S # {} /\ Cardinality(S) = n /\ ~HasMax(S)}
<1>1. SUFFICES Bad = {}
  <2>1. Cardinality(T) \in Nat
    BY FS_CardinalityType
  <2> QED
    BY <1>1, <2>1
<1>2. SUFFICES ASSUME Bad # {} PROVE FALSE
  OBVIOUS
<1>3. PICK n \in Bad : \A m \in Bad : n <= m
  <2> HIDE DEF Bad
  <2>1. Bad \subseteq Nat
    BY DEF Bad
  <2> QED
    BY <1>2, <2>1, SmallestExists
<1>4. PICK S \in SUBSET Nat : IsFiniteSet(S) /\ S # {} /\ Cardinality(S) = n /\ ~HasMax(S)
  BY <1>3
<1>5. PICK x \in S : TRUE
  BY <1>4
<1>6. PICK U : U = S \ {x}
  OBVIOUS
<1>7. IsFiniteSet(U) /\ Cardinality(U) = n - 1 /\ n - 1 \in Nat /\ n \in Nat /\ U \in SUBSET Nat
  <2>1. IsFiniteSet(U) /\ Cardinality(U) = Cardinality(S) - 1
    BY <1>4, <1>5, <1>6, FS_RemoveElement
  <2>2. Cardinality(U) \in Nat /\ n \in Nat
    BY <1>4, <2>1, FS_CardinalityType
  <2>3. U \in SUBSET Nat
    BY <1>6
  <2> QED
    BY <1>4, <2>1, <2>2, <2>3
<1>8. U = {} => HasMax(S)
  BY <1>5, <1>6
<1>9. U # {}
  BY <1>4, <1>8
<1>10. HasMax(U)
  <2>1. n - 1 \notin Bad
    <3> HIDE DEF Bad
    <3> QED
      BY <1>3, <1>7
  <2> QED
    BY <1>7, <1>9, <2>1
<1>11. PICK m \in U : \A y \in U : m >= y
  BY <1>10
<1>12. PICK z : z = IF m >= x THEN m ELSE x
  OBVIOUS
<1>13. z \in S /\ \A y \in S : z >= y
  BY <1>5, <1>6, <1>7, <1>11, <1>12
<1> QED
  BY <1>4, <1>13

\* A request counts the attempts made upstream for it, and is over once one of them stored its values.
RequestsInv ==
    /\ DOMAIN requests = LoginIds /\ tries \in [LoginIds -> Nat] /\ commits \in [LoginIds -> {0, 1}]
    /\ \A i \in LoginIds :
          /\ requests[i] = [attempts |-> requests[i].attempts, left |-> requests[i].left]
          /\ requests[i].attempts \in 0..MaxAttempts /\ requests[i].left \in 0..RequestTTL
          /\ tries[i] = requests[i].attempts
          /\ commits[i] = 1 => requests[i].left = 0 /\ tries[i] > 0

\* A form under way has made its request an attempt; no two forms are given one subject.
FormsInv ==
    /\ minted \in 0..MaxSubjects /\ DOMAIN forms = Submissions
    /\ \A f \in Submissions :
          /\ forms[f] = [id |-> forms[f].id, phase |-> forms[f].phase, subject |-> forms[f].subject]
          /\ forms[f].phase # "none" => forms[f].id \in LoginIds /\ tries[forms[f].id] > 0
          /\ forms[f].subject \in 0..minted
          /\ forms[f].phase \in {"none", "validating"} => forms[f].subject = 0
          /\ forms[f].phase = "accepted" => forms[f].subject > 0
    /\ \A f, g \in Submissions : forms[f].subject > 0 /\ forms[f].subject = forms[g].subject => f = g

\* A code is of a form that is done and has redeemed none; a form has one code.
CodesInv ==
    /\ DOMAIN redeemed = Submissions /\ \A f \in Submissions : redeemed[f] \in {0, 1}
    /\ \A f \in Submissions : redeemed[f] = 1 => forms[f].phase = "done"
    /\ \A c \in codes :
          /\ c = [subject |-> c.subject, form |-> c.form, left |-> c.left] /\ c.form \in Submissions
          /\ forms[c.form].phase = "done" /\ redeemed[c.form] = 0
    /\ \A c, d \in codes : c.form = d.form => c = d

\* What is stored, and what calls carry, is what the subject's own form submitted.
Submitted(s, f) == f \in Submissions /\ forms[f].subject = s /\ s \in 1..minted
StoredInv ==
    /\ IsFiniteSet(stored) /\ Cardinality(stored) <= StoreMax
    /\ \A e \in stored : /\ e = [subject |-> e.subject, values |-> e.values, rank |-> e.rank, left |-> e.left]
                         /\ e.rank \in Nat /\ Submitted(e.subject, e.values)
CallsInv ==
    /\ \A c \in calls : /\ c = [subject |-> c.subject, values |-> c.values, jti |-> c.jti]
                        /\ c.jti \in seen /\ Submitted(c.subject, c.values)
    /\ \A c, d \in calls : c.jti = d.jti => c = d
SignInInv == RequestsInv /\ FormsInv /\ CodesInv /\ StoredInv /\ CallsInv /\ NewSignInKept

\* The image of a finite set is finite and no larger.
LEMMA ImageBound ==
  ASSUME NEW S, NEW f, IsFiniteSet(S), DOMAIN f = S, f = [x \in S |-> f[x]]
  PROVE  /\ IsFiniteSet({f[x] : x \in S})
         /\ Cardinality({f[x] : x \in S}) <= Cardinality(S)
<1> DEFINE T == {f[x] : x \in S}
<1>1. f \in [S -> T] /\ \A t \in T : \E x \in S : f[x] = t
  OBVIOUS
<1>2. f \in Surjection(S, T)
  BY <1>1 DEF Surjection
<1> HIDE DEF T
<1>3. IsFiniteSet(T) /\ Cardinality(T) <= Cardinality(S)
  BY <1>2, FS_Surjection
<1> QED
  BY <1>3 DEF T

\* What ageing leaves are entries of before, a tick older and otherwise the same.
LEMMA AgedIsOlder ==
  ASSUME NEW S, NEW e \in Aged(S)
  PROVE  \E x \in S : e = [x EXCEPT !.left = @ - 1]
BY DEF Aged

\* Ageing leaves no more entries than there were.
LEMMA AgedIsFewer ==
  ASSUME NEW S, IsFiniteSet(S)
  PROVE  IsFiniteSet(Aged(S)) /\ Cardinality(Aged(S)) <= Cardinality(S)
<1> DEFINE U == {x \in S : x.left > 1}
           f == [e \in U |-> [e EXCEPT !.left = @ - 1]]
<1>1. U \in SUBSET S /\ IsFiniteSet(U) /\ Cardinality(U) <= Cardinality(S)
  BY FS_Subset
<1>2. Aged(S) = {f[x] : x \in U}
  BY DEF Aged
<1>3. DOMAIN f = U /\ f = [x \in U |-> f[x]]
  OBVIOUS
<1> HIDE DEF f, U
<1>4. IsFiniteSet({f[x] : x \in U}) /\ Cardinality({f[x] : x \in U}) <= Cardinality(U)
  BY <1>1, <1>3, ImageBound
<1>5. Cardinality(S) \in Nat /\ Cardinality(U) \in Nat /\ Cardinality({f[x] : x \in U}) \in Nat
  BY <1>1, <1>4, FS_CardinalityType
<1> QED
  BY <1>1, <1>2, <1>4, <1>5

\* The rank of a new entry is a number.
LEMMA NextRankIsNatural ==
  ASSUME StoredInv
  PROVE  NextRank \in Nat
<1>1. CASE stored = {}
  BY <1>1 DEF NextRank
<1>2. CASE stored # {}
  <2> DEFINE f == [e \in stored |-> e.rank]
  <2>1. Ranks = {f[x] : x \in stored}
    BY DEF Ranks
  <2>2. Ranks \subseteq Nat /\ Ranks # {}
    BY <1>2 DEF Ranks, StoredInv
  <2>3. DOMAIN f = stored /\ f = [x \in stored |-> f[x]]
    OBVIOUS
  <2> HIDE DEF f
  <2>4. IsFiniteSet(Ranks)
    BY SMTT(20), <2>1, <2>3, ImageBound DEF StoredInv
  <2>5. \E x \in Ranks : \A y \in Ranks : x >= y
    BY <2>2, <2>4, LargestExists
  <2>6. Max(Ranks) \in Ranks
    BY <2>5 DEF Max
  <2>7. PICK m : m = Max(Ranks)
    OBVIOUS
  <2>8. m \in Nat
    BY <2>2, <2>6, <2>7
  <2> QED
    BY <1>2, <2>7, <2>8 DEF NextRank
<1> QED
  BY <1>1, <1>2

\* Storing a subject's values keeps the store within its size.
LEMMA PutSound ==
  ASSUME StoredInv, NEW s, NEW f
  PROVE  /\ IsFiniteSet(Put(s, f)) /\ Cardinality(Put(s, f)) <= StoreMax
         /\ \A e \in Put(s, f) : e \in stored \/ (e = [subject |-> s, values |-> f, rank |-> NextRank, left |-> StoreTTL])
<1> DEFINE old == {e \in stored : e.left > 0 /\ e.subject # s}
           new == [subject |-> s, values |-> f, rank |-> NextRank, left |-> StoreTTL]
           live == old \cup {new}
           oldest == CHOOSE e \in live : \A x \in live : e.rank <= x.rank
<1>1. IsFiniteSet(old) /\ Cardinality(old) <= StoreMax /\ Cardinality(old) \in Nat
  <2>1. old \in SUBSET stored /\ IsFiniteSet(stored) /\ Cardinality(stored) <= StoreMax
    BY DEF StoredInv
  <2> HIDE DEF old
  <2>2. IsFiniteSet(old) /\ Cardinality(old) <= Cardinality(stored)
    BY <2>1, FS_Subset
  <2>3. Cardinality(old) \in Nat /\ Cardinality(stored) \in Nat /\ StoreMax \in Nat
    BY <2>1, <2>2, FS_CardinalityType, SignInAssumption
  <2> QED
    BY <2>1, <2>2, <2>3
<1>2. IsFiniteSet(live) /\ Cardinality(live) <= StoreMax + 1 /\ Cardinality(live) \in Nat /\ StoreMax \in Nat
  <2> HIDE DEF old, new
  <2>1. IsFiniteSet(live) /\ (Cardinality(live) = Cardinality(old) \/ Cardinality(live) = Cardinality(old) + 1)
    BY <1>1, FS_AddElement
  <2> QED
    BY <1>1, <2>1, SignInAssumption
<1>3. \A e \in live : e.rank \in Nat
  <2>1. new.rank \in Nat
    BY NextRankIsNatural
  <2> QED
    BY <2>1 DEF StoredInv
<1>4. oldest \in live
  <2> DEFINE R == {e.rank : e \in live}
  <2>1. R \subseteq Nat /\ R # {}
    BY <1>3
  <2>2. PICK n \in R : \A m \in R : n <= m
    <3> HIDE DEF R
    <3> QED
      BY <2>1, SmallestExists
  <2>3. \E e \in live : \A x \in live : e.rank <= x.rank
    BY <2>2
  <2> HIDE DEF live
  <2> QED
    BY <2>3
<1>5. Put(s, f) = IF Cardinality(live) <= StoreMax THEN live ELSE live \ {oldest}
  BY DEF Put
<1>6. \A e \in live : e \in stored \/ e = new
  OBVIOUS
<1> HIDE DEF oldest, live, old
<1>7. IsFiniteSet(live \ {oldest}) /\ Cardinality(live \ {oldest}) = Cardinality(live) - 1
  BY <1>2, <1>4, FS_RemoveElement
<1>8. IsFiniteSet(Put(s, f)) /\ Cardinality(Put(s, f)) <= StoreMax
  BY <1>2, <1>5, <1>7
<1>9. \A e \in Put(s, f) : e \in live
  BY <1>5
<1> QED
  BY <1>6, <1>8, <1>9

\* Forms move on: a subject that was given stays, and what is done stays done.
FormsAdvance ==
    /\ minted \in Nat /\ minted' \in Nat /\ minted <= minted'
    /\ \A f \in Submissions : /\ forms[f].subject > 0 => forms'[f].subject = forms[f].subject
                              /\ forms[f].phase = "done" => forms'[f].phase = "done"

\* A subject that was minted stays its form's, whatever forms are added.
LEMMA SubmittedKept ==
  ASSUME FormsAdvance, NEW s, NEW f, Submitted(s, f)
  PROVE  Submitted(s, f)'
<1>1. f \in Submissions /\ forms[f].subject = s /\ s \in 1..minted
  BY DEF Submitted
<1>2. forms'[f].subject = s /\ s \in 1..minted'
  BY <1>1 DEF FormsAdvance
<1> QED
  BY <1>1, <1>2 DEF Submitted

\* Codes depend on forms and redemptions alone.
LEMMA CodesKept ==
  ASSUME CodesInv, FormsAdvance, UNCHANGED <<codes, redeemed>>
  PROVE  CodesInv'
BY DEF CodesInv, FormsAdvance

\* The store depends on forms and the subjects minted.
LEMMA StoredKept ==
  ASSUME StoredInv, FormsAdvance, UNCHANGED stored
  PROVE  StoredInv'
BY SubmittedKept DEF StoredInv

\* So do the calls, together with the identifiers seen.
LEMMA CallsKept ==
  ASSUME CallsInv, FormsAdvance, calls' \subseteq calls, UNCHANGED seen
  PROVE  CallsInv'
<1>1. ASSUME NEW c \in calls'
      PROVE  /\ c = [subject |-> c.subject, values |-> c.values, jti |-> c.jti]
             /\ c.jti \in seen' /\ Submitted(c.subject, c.values)'
  BY <1>1, SubmittedKept DEF CallsInv
<1>2. \A c, d \in calls' : c.jti = d.jti => c = d
  BY DEF CallsInv
<1> QED
  BY <1>1, <1>2 DEF CallsInv

\* Forms depend on the requests' attempts.
LEMMA FormsKept ==
  ASSUME FormsInv, UNCHANGED <<forms, tries, minted>>
  PROVE  FormsInv' /\ FormsAdvance
BY SignInAssumption DEF FormsInv, FormsAdvance

\* One form's record changes; it keeps its subject, or is given the next one.
LEMMA FormMoved ==
  ASSUME SignInInv, NEW f \in Submissions, NEW phase, NEW id, NEW s, id \in LoginIds, tries'[id] > 0,
         forms' = [forms EXCEPT ![f] = [id |-> id, phase |-> phase, subject |-> s]],
         \/ s = forms[f].subject /\ minted' = minted
         \/ forms[f].subject = 0 /\ minted < MaxSubjects /\ s = NewSubject /\ minted' = NewSubject,
         phase # "none", forms[f].phase # "done", phase = "validating" => s = 0, phase = "accepted" => s > 0,
         \A i \in LoginIds : tries[i] > 0 => tries'[i] > 0
  PROVE  FormsInv' /\ FormsAdvance
<1>1. PICK x : x = [id |-> id, phase |-> phase, subject |-> s]
  OBVIOUS
<1>2. x.id = id /\ x.phase = phase /\ x.subject = s /\ x = [id |-> x.id, phase |-> x.phase, subject |-> x.subject]
  BY <1>1
<1>3. FormsInv /\ minted \in Nat /\ minted <= MaxSubjects
  BY SignInAssumption DEF SignInInv, FormsInv
<1>4. DOMAIN forms' = Submissions /\ \A g \in Submissions : forms'[g] = (IF g = f THEN x ELSE forms[g])
  BY <1>1, <1>3 DEF FormsInv
<1>5. minted' \in 0..MaxSubjects /\ minted <= minted' /\ s \in 0..minted'
  BY <1>3, SignInAssumption DEF FormsInv, NewSubject
<1>6. ASSUME NEW g \in Submissions
      PROVE  /\ forms'[g] = [id |-> forms'[g].id, phase |-> forms'[g].phase, subject |-> forms'[g].subject]
             /\ forms'[g].phase # "none" => forms'[g].id \in LoginIds /\ tries'[forms'[g].id] > 0
             /\ forms'[g].subject \in 0..minted'
             /\ forms'[g].phase \in {"none", "validating"} => forms'[g].subject = 0
             /\ forms'[g].phase = "accepted" => forms'[g].subject > 0
  <2>1. CASE g = f
    BY <1>2, <1>4, <1>5, <2>1
  <2>2. CASE g # f
    BY <1>3, <1>4, <1>5, <2>2 DEF FormsInv
  <2> QED
    BY <2>1, <2>2
<1>7. \A g, h \in Submissions : forms'[g].subject > 0 /\ forms'[g].subject = forms'[h].subject => g = h
  <2>1. CASE s = forms[f].subject
    <3>1. \A g \in Submissions : forms'[g].subject = forms[g].subject
      BY <1>2, <1>4, <2>1
    <3> QED
      BY <1>3, <3>1 DEF FormsInv
  <2>2. CASE s = minted + 1
    <3>1. \A g \in Submissions : forms[g].subject < s
      BY <1>3, <2>2 DEF FormsInv
    <3>2. \A g \in Submissions : forms'[g].subject = (IF g = f THEN s ELSE forms[g].subject)
      BY <1>2, <1>4
    <3> QED
      BY <1>3, <3>1, <3>2 DEF FormsInv
  <2> QED
    BY <2>1, <2>2 DEF NewSubject
<1>8. FormsInv'
  BY <1>4, <1>5, <1>6, <1>7 DEF FormsInv
<1>9. FormsAdvance
  BY <1>2, <1>3, <1>4, <1>5 DEF FormsAdvance
<1> QED
  BY <1>8, <1>9

\* One request's record changes, and its counts with it.
LEMMA RequestMoved ==
  ASSUME RequestsInv, NEW i \in LoginIds, NEW attempts, NEW left, NEW n,
         requests' = [requests EXCEPT ![i] = [attempts |-> attempts, left |-> left]],
         tries' = [tries EXCEPT ![i] = attempts], commits' = [commits EXCEPT ![i] = n],
         attempts \in 0..MaxAttempts, left \in 0..RequestTTL, n \in {0, 1}, n = 1 => left = 0 /\ attempts > 0
  PROVE  RequestsInv'
<1>1. PICK q : q = [attempts |-> attempts, left |-> left]
  OBVIOUS
<1>2. q.attempts = attempts /\ q.left = left /\ q = [attempts |-> q.attempts, left |-> q.left]
  BY <1>1
<1>3. /\ DOMAIN requests' = LoginIds /\ tries' \in [LoginIds -> Nat] /\ commits' \in [LoginIds -> {0, 1}]
      /\ \A j \in LoginIds : /\ requests'[j] = (IF j = i THEN q ELSE requests[j])
                             /\ tries'[j] = (IF j = i THEN attempts ELSE tries[j])
                             /\ commits'[j] = (IF j = i THEN n ELSE commits[j])
  <2>1. attempts \in Nat
    BY SignInAssumption
  <2> QED
    BY <1>1, <2>1 DEF RequestsInv
<1>4. ASSUME NEW j \in LoginIds
      PROVE  /\ requests'[j] = [attempts |-> requests'[j].attempts, left |-> requests'[j].left]
             /\ requests'[j].attempts \in 0..MaxAttempts /\ requests'[j].left \in 0..RequestTTL
             /\ tries'[j] = requests'[j].attempts
             /\ commits'[j] = 1 => requests'[j].left = 0 /\ tries'[j] > 0
  <2>1. CASE j = i
    BY <1>2, <1>3, <2>1
  <2>2. CASE j # i
    BY <1>3, <2>2 DEF RequestsInv
  <2> QED
    BY <2>1, <2>2
<1> QED
  BY <1>3, <1>4 DEF RequestsInv

\* A sign-in request is opened: nothing else is touched.
LEMMA AuthorizeStep ==
  ASSUME SignInInv, NEW i \in LoginIds, authorize(i)
  PROVE  SignInInv'
<1>1. RequestsInv /\ FormsInv /\ CodesInv /\ StoredInv /\ CallsInv
  BY DEF SignInInv
<1>2. tries[i] = 0 /\ commits[i] = 0
  BY <1>1 DEF authorize, RequestsInv
<1>3. tries' = [tries EXCEPT ![i] = 0] /\ commits' = [commits EXCEPT ![i] = 0]
  BY <1>1, <1>2 DEF authorize, RequestsInv
<1>4. requests' = [requests EXCEPT ![i] = [attempts |-> 0, left |-> RequestTTL]]
  BY DEF authorize
<1>5. 0 \in 0..MaxAttempts /\ RequestTTL \in 0..RequestTTL
  BY SignInAssumption
<1>6. RequestsInv'
  <2>1. PICK z : z = 0
    OBVIOUS
  <2>2. z \in {0, 1} /\ (z = 1 => RequestTTL = 0 /\ 0 > 0)
    BY <2>1
  <2> QED
    BY <1>1, <1>3, <1>4, <1>5, <2>1, <2>2, RequestMoved
<1>7. UNCHANGED <<forms, codes, stored, minted, calls, seen, tries, redeemed, wrongly>>
  BY DEF authorize
<1>8. FormsInv' /\ FormsAdvance
  BY <1>1, <1>7, FormsKept
<1> QED
  BY <1>1, <1>6, <1>7, <1>8, CodesKept, StoredKept, CallsKept DEF SignInInv, NewSignInKept

\* A form is submitted: an attempt is counted for its request.
LEMMA ApproveStep ==
  ASSUME SignInInv, NEW i \in LoginIds, NEW f \in Submissions, approve(f, i)
  PROVE  SignInInv'
<1>1. RequestsInv /\ FormsInv /\ CodesInv /\ StoredInv /\ CallsInv
  BY DEF SignInInv
<1>2. PICK q : q = requests[i]
  OBVIOUS
<1>3. /\ q = [attempts |-> q.attempts, left |-> q.left] /\ tries[i] = q.attempts /\ q.attempts \in 0..MaxAttempts
      /\ q.left > 0 /\ q.left \in 0..RequestTTL /\ commits[i] \in {0, 1} /\ (commits[i] = 1 => q.left = 0)
      /\ q.attempts < MaxAttempts
  BY <1>1, <1>2 DEF RequestsInv, approve, Attempt, Open
<1>4. PICK n : n = q.attempts + 1
  OBVIOUS
<1>5. n \in 1..MaxAttempts
  BY <1>3, <1>4, SignInAssumption
<1>6. requests' = [requests EXCEPT ![i] = [attempts |-> n, left |-> q.left]]
  <2>1. requests' = [requests EXCEPT ![i].attempts = @ + 1]
    BY DEF approve, Attempt
  <2>2. [q EXCEPT !.attempts = @ + 1] = [attempts |-> n, left |-> q.left]
    <3>1. PICK x : x = [q EXCEPT !.attempts = @ + 1]
      OBVIOUS
    <3>2. x = [attempts |-> n, left |-> q.left]
      BY <1>3, <1>4, <3>1
    <3> QED
      BY <3>1, <3>2
  <2> QED
    BY <1>2, <2>1, <2>2
<1>7. tries' = [tries EXCEPT ![i] = n] /\ commits' = [commits EXCEPT ![i] = 0]
  <2>1. commits[i] = 0
    BY <1>3
  <2> QED
    BY <1>1, <1>3, <1>4, <2>1 DEF approve, RequestsInv
<1>8. RequestsInv'
  <2>1. PICK z : z = 0
    OBVIOUS
  <2>2. z \in {0, 1} /\ (z = 1 => q.left = 0 /\ n > 0) /\ n \in 0..MaxAttempts
    BY <1>5, <2>1, SignInAssumption
  <2> QED
    BY <1>1, <1>3, <1>6, <1>7, <2>1, <2>2, RequestMoved
<1>9. UNCHANGED <<codes, stored, minted, calls, seen, redeemed, wrongly>>
  BY DEF approve
<1>10. tries'[i] > 0 /\ \A j \in LoginIds : tries[j] > 0 => tries'[j] > 0
  BY <1>1, <1>5, <1>7 DEF RequestsInv
<1>11. forms[f].subject = 0 /\ forms[f].phase = "none"
  BY DEF approve, NoForm
<1>12. forms' = [forms EXCEPT ![f] = [id |-> i, phase |-> "validating", subject |-> 0]]
  BY DEF approve
<1>13. FormsInv' /\ FormsAdvance
  <2>1. PICK z, p : z = 0 /\ p = "validating"
    OBVIOUS
  <2>2. p # "none" /\ (p = "validating" => z = 0) /\ (p = "accepted" => z > 0) /\ forms[f].phase # "done"
    BY <1>11, <2>1
  <2>3. forms' = [forms EXCEPT ![f] = [id |-> i, phase |-> p, subject |-> z]] /\ z = forms[f].subject /\ minted' = minted
    BY <1>9, <1>11, <1>12, <2>1
  <2> QED
    BY <1>10, <2>2, <2>3, FormMoved
<1> QED
  BY <1>1, <1>8, <1>9, <1>13, CodesKept, StoredKept, CallsKept DEF SignInInv, NewSignInKept

\* A form that is refused or given up.
Turns(f, phase) == forms' = [forms EXCEPT ![f].phase = phase]
\* A form that turns without touching a code or a value keeps the invariant.
LEMMA PhaseMoved ==
  ASSUME SignInInv, NEW f \in Submissions, NEW phase, phase \in {"refused", "done"}, Turns(f, phase),
         forms[f].phase \in {"validating", "accepted", "refused"},
         UNCHANGED <<requests, codes, stored, minted, calls, seen, commits, tries, redeemed, wrongly>>
  PROVE  SignInInv'
<1>1. RequestsInv /\ FormsInv /\ CodesInv /\ StoredInv /\ CallsInv
  BY DEF SignInInv
<1>2. PICK y : y = forms[f]
  OBVIOUS
<1>3. /\ y = [id |-> y.id, phase |-> y.phase, subject |-> y.subject]
      /\ y.id \in LoginIds /\ tries[y.id] > 0
  BY <1>1, <1>2, SignInAssumption DEF FormsInv
<1>4. PICK x : x = [y EXCEPT !.phase = phase]
  OBVIOUS
<1>5. x = [id |-> y.id, phase |-> phase, subject |-> y.subject]
  BY <1>3, <1>4
<1>6. PICK s, i : s = y.subject /\ i = y.id
  OBVIOUS
<1>7. forms' = [forms EXCEPT ![f] = [id |-> i, phase |-> phase, subject |-> s]]
  BY <1>2, <1>4, <1>5, <1>6 DEF Turns
<1>8. FormsInv' /\ FormsAdvance
  <2>1. phase # "none" /\ (phase = "validating" => s = 0) /\ (phase = "accepted" => s > 0) /\ forms[f].phase # "done"
    OBVIOUS
  <2>2. i \in LoginIds /\ tries'[i] > 0 /\ \A j \in LoginIds : tries[j] > 0 => tries'[j] > 0
    BY <1>3, <1>6
  <2>3. s = forms[f].subject /\ minted' = minted
    BY <1>2, <1>6
  <2> QED
    BY <1>7, <2>1, <2>2, <2>3, FormMoved
<1>9. RequestsInv'
  BY <1>1 DEF RequestsInv
<1> QED
  BY <1>1, <1>8, <1>9, CodesKept, StoredKept, CallsKept DEF SignInInv, NewSignInKept

\* A form is answered: one that is accepted is given a subject no other has.
LEMMA ValidateStep ==
  ASSUME SignInInv, NEW f \in Submissions, validateForm(f)
  PROVE  SignInInv'
<1>1. CASE forms' = [forms EXCEPT ![f].phase = "refused"] /\ UNCHANGED minted
  BY <1>1, PhaseMoved DEF validateForm, Turns
<1>2. CASE /\ minted < MaxSubjects /\ minted' = NewSubject
           /\ forms' = [forms EXCEPT ![f] = [id |-> @.id, phase |-> "accepted", subject |-> NewSubject]]
  <2>1. RequestsInv /\ FormsInv /\ CodesInv /\ StoredInv /\ CallsInv
    BY DEF SignInInv
  <2>2. forms[f].phase = "validating" /\ UNCHANGED <<requests, codes, stored, calls, seen, commits, tries, redeemed, wrongly>>
    BY DEF validateForm
  <2>3. PICK i : i = forms[f].id
    OBVIOUS
  <2>4. i \in LoginIds /\ tries[i] > 0 /\ forms[f].subject = 0
    BY <2>1, <2>2, <2>3 DEF FormsInv
  <2>5. PICK s : s = NewSubject
    OBVIOUS
  <2>6. s > 0
    BY <2>1, <2>5, SignInAssumption DEF FormsInv, NewSubject
  <2>7. forms' = [forms EXCEPT ![f] = [id |-> i, phase |-> "accepted", subject |-> s]]
    BY <1>2, <2>1, <2>3, <2>5 DEF FormsInv
  <2>8. FormsInv' /\ FormsAdvance
    BY <1>2, <2>2, <2>4, <2>5, <2>6, <2>7, FormMoved
  <2>9. RequestsInv'
    BY <2>1, <2>2 DEF RequestsInv
  <2> QED
    BY <2>1, <2>2, <2>8, <2>9, CodesKept, StoredKept, CallsKept DEF SignInInv, NewSignInKept
<1> QED
  BY <1>1, <1>2 DEF validateForm

\* The submission that wins the request: its values stored under its subject, one code.
LEMMA CommitStep ==
  ASSUME SignInInv, NEW f \in Submissions, commit(f)
  PROVE  SignInInv'
<1>1. RequestsInv /\ FormsInv /\ CodesInv /\ StoredInv /\ CallsInv
  BY DEF SignInInv
<1>2. PICK y : y = forms[f]
  OBVIOUS
<1>3. /\ y = [id |-> y.id, phase |-> y.phase, subject |-> y.subject] /\ y.phase = "accepted"
      /\ y.id \in LoginIds /\ tries[y.id] > 0
  BY <1>1, <1>2, SignInAssumption DEF FormsInv, commit
<1>4. PICK i : i = y.id
  OBVIOUS
<1>5. PICK q : q = requests[i]
  OBVIOUS
<1>6. /\ i \in LoginIds /\ q = [attempts |-> q.attempts, left |-> q.left] /\ q.attempts = tries[i] /\ tries[i] > 0
      /\ q.attempts \in 0..MaxAttempts /\ q.left > 0 /\ commits[i] = 0
  BY <1>1, <1>2, <1>3, <1>4, <1>5 DEF RequestsInv, commit, Wins, Open
<1>7. requests' = [requests EXCEPT ![i] = [attempts |-> q.attempts, left |-> 0]]
  <2>1. requests' = [requests EXCEPT ![i].left = 0]
    BY <1>2, <1>4 DEF commit
  <2>2. [q EXCEPT !.left = 0] = [attempts |-> q.attempts, left |-> 0]
    <3>1. PICK x : x = [q EXCEPT !.left = 0]
      OBVIOUS
    <3>2. x = [attempts |-> q.attempts, left |-> 0]
      BY <1>6, <3>1
    <3> QED
      BY <3>1, <3>2
  <2> QED
    BY <1>5, <2>1, <2>2
<1>8. tries' = [tries EXCEPT ![i] = q.attempts] /\ commits' = [commits EXCEPT ![i] = 1]
  BY <1>1, <1>2, <1>4, <1>6 DEF commit, RequestsInv
<1>9. RequestsInv'
  <2>1. 0 \in 0..RequestTTL /\ q.attempts > 0
    BY <1>6, SignInAssumption
  <2> QED
    BY <1>1, <1>6, <1>7, <1>8, <2>1, RequestMoved
<1>10. PICK s : s = y.subject
  OBVIOUS
<1>11. s \in 1..minted /\ minted' = minted /\ minted \in Nat
  BY <1>1, <1>2, <1>3, <1>10, SignInAssumption DEF commit, FormsInv
<1>12. PICK x : x = [id |-> i, phase |-> "done", subject |-> s]
  OBVIOUS
<1>13. forms' = [forms EXCEPT ![f] = x]
  <2>1. PICK w : w = [y EXCEPT !.phase = "done"]
    OBVIOUS
  <2>2. w = x
    BY <1>3, <1>4, <1>10, <1>12, <2>1
  <2> QED
    BY <1>2, <2>1, <2>2 DEF commit
<1>14. x.id = i /\ x.phase = "done" /\ x.subject = s /\ x = [id |-> x.id, phase |-> x.phase, subject |-> x.subject]
  BY <1>12
<1>15. DOMAIN forms' = Submissions /\ \A g \in Submissions : forms'[g] = (IF g = f THEN x ELSE forms[g])
  BY <1>1, <1>13 DEF FormsInv
<1>16. tries' = tries
  BY DEF commit
<1>17. FormsInv' /\ FormsAdvance
  <2>1. PICK p : p = "done"
    OBVIOUS
  <2>2. p # "none" /\ (p = "validating" => s = 0) /\ (p = "accepted" => s > 0) /\ forms[f].phase # "done"
    BY <1>2, <1>3, <2>1
  <2>3. forms' = [forms EXCEPT ![f] = [id |-> i, phase |-> p, subject |-> s]] /\ s = forms[f].subject
    BY <1>2, <1>10, <1>12, <1>13, <2>1
  <2>4. i \in LoginIds /\ tries'[i] > 0 /\ \A j \in LoginIds : tries[j] > 0 => tries'[j] > 0
    BY <1>6, <1>16
  <2>5. minted' = minted
    BY <1>11
  <2> QED
    BY <2>2, <2>3, <2>4, <2>5, FormMoved
<1>18. FormsAdvance
  BY <1>17
<1>19. \A c \in codes : c.form # f
  BY <1>1, <1>2, <1>3 DEF CodesInv
<1>20. redeemed[f] = 0
  BY <1>1, <1>2, <1>3 DEF CodesInv
<1>21. CodesInv'
  <2>1. PICK c : c = [subject |-> s, form |-> f, left |-> CodeTTL]
    OBVIOUS
  <2>2. c.form = f /\ c = [subject |-> c.subject, form |-> c.form, left |-> c.left]
    BY <2>1
  <2>3. codes' = codes \cup {c} /\ redeemed' = redeemed
    BY <1>2, <1>10, <2>1 DEF commit
  <2>4. \A g \in Submissions : forms[g].phase = "done" => forms'[g].phase = "done"
    BY <1>18 DEF FormsAdvance
  <2>5. forms'[f].phase = "done"
    BY <1>14, <1>15
  <2>6. ASSUME NEW d \in codes'
        PROVE  /\ d = [subject |-> d.subject, form |-> d.form, left |-> d.left] /\ d.form \in Submissions
               /\ forms'[d.form].phase = "done" /\ redeemed'[d.form] = 0
    <3>1. CASE d = c
      BY <1>20, <2>2, <2>3, <2>5, <3>1
    <3>2. CASE d \in codes
      BY <1>1, <2>3, <2>4, <3>2 DEF CodesInv
    <3> QED
      BY <2>3, <3>1, <3>2
  <2>7. \A d, e \in codes' : d.form = e.form => d = e
    BY <1>1, <1>19, <2>2, <2>3 DEF CodesInv
  <2>8. \A g \in Submissions : redeemed'[g] = 1 => forms'[g].phase = "done"
    BY <1>1, <2>3, <2>4 DEF CodesInv
  <2> QED
    BY <1>1, <2>3, <2>6, <2>7, <2>8 DEF CodesInv
<1>22. StoredInv'
  <2>1. stored' = Put(s, f)
    BY <1>2, <1>10 DEF commit
  <2>2. PICK new : new = [subject |-> s, values |-> f, rank |-> NextRank, left |-> StoreTTL]
    OBVIOUS
  <2>3. NextRank \in Nat
    BY <1>1, NextRankIsNatural
  <2>4. /\ new.subject = s /\ new.values = f /\ new.rank \in Nat
        /\ new = [subject |-> new.subject, values |-> new.values, rank |-> new.rank, left |-> new.left]
    BY <2>2, <2>3
  <2>5. Submitted(s, f)'
    BY <1>11, <1>14, <1>15 DEF Submitted
  <2>6. /\ IsFiniteSet(stored') /\ Cardinality(stored') <= StoreMax
        /\ \A e \in stored' : e \in stored \/ e = new
    BY <1>1, <2>1, <2>2, PutSound
  <2>7. ASSUME NEW e \in stored'
        PROVE  /\ e = [subject |-> e.subject, values |-> e.values, rank |-> e.rank, left |-> e.left]
               /\ e.rank \in Nat /\ Submitted(e.subject, e.values)'
    <3>1. CASE e \in stored
      BY <1>1, <1>18, <3>1, SubmittedKept DEF StoredInv
    <3>2. CASE e = new
      BY <2>4, <2>5, <3>2
    <3> QED
      BY <2>6, <3>1, <3>2
  <2> QED
    BY <2>6, <2>7 DEF StoredInv
<1>23. UNCHANGED <<calls, seen, wrongly>>
  BY DEF commit
<1>24. CallsInv'
  BY <1>1, <1>18, <1>23, CallsKept
<1> QED
  BY <1>9, <1>17, <1>21, <1>22, <1>23, <1>24 DEF SignInInv, NewSignInKept

\* A code that is spent is gone, and its form has no other.
LEMMA TokenStep ==
  ASSUME SignInInv, NEW c \in codes, token(c)
  PROVE  SignInInv'
<1>1. RequestsInv /\ FormsInv /\ CodesInv /\ StoredInv /\ CallsInv
  BY DEF SignInInv
<1>2. /\ codes' = codes \ {c} /\ redeemed' = [redeemed EXCEPT ![c.form] = @ + 1]
      /\ UNCHANGED <<requests, forms, stored, minted, calls, seen, commits, tries, wrongly>>
  BY DEF token, Spend
<1>3. PICK f : f = c.form
  OBVIOUS
<1>4. f \in Submissions /\ forms[f].phase = "done" /\ redeemed[f] = 0
  BY <1>1, <1>3 DEF CodesInv
<1>5. DOMAIN redeemed' = Submissions /\ \A g \in Submissions : redeemed'[g] = (IF g = f THEN 1 ELSE redeemed[g])
  BY <1>1, <1>2, <1>3, <1>4 DEF CodesInv
<1>6. FormsInv' /\ FormsAdvance
  BY <1>1, <1>2, FormsKept
<1>7. \A d \in codes' : d \in codes /\ d.form # f
  BY <1>1, <1>2, <1>3 DEF CodesInv
<1>8. CodesInv'
  BY <1>1, <1>2, <1>4, <1>5, <1>7 DEF CodesInv
<1>9. RequestsInv'
  BY <1>1, <1>2 DEF RequestsInv
<1> QED
  BY <1>1, <1>2, <1>6, <1>8, <1>9, StoredKept, CallsKept DEF SignInInv, NewSignInKept

\* A call carries what is stored for its subject, under an assertion nobody has consumed.
LEMMA CallStep ==
  ASSUME SignInInv, NEW s \in SignedIn, NEW j \in Jtis, Authorize(s, j)
  PROVE  SignInInv'
<1>1. RequestsInv /\ FormsInv /\ CodesInv /\ StoredInv /\ CallsInv
  BY DEF SignInInv
<1>2. /\ j \notin seen /\ seen' = seen \cup {j}
      /\ UNCHANGED <<requests, forms, codes, stored, minted, commits, tries, redeemed, wrongly>>
  BY DEF Authorize, consume
<1>3. FormsInv' /\ FormsAdvance
  BY <1>1, <1>2, FormsKept
<1>4. \A d \in calls : /\ d = [subject |-> d.subject, values |-> d.values, jti |-> d.jti]
                       /\ d.jti \in seen' /\ Submitted(d.subject, d.values)' /\ d.jti # j
  BY <1>1, <1>2, <1>3, SubmittedKept DEF CallsInv
<1>5. CallsInv'
  <2>1. CASE UNCHANGED calls
    BY <1>1, <1>4, <2>1 DEF CallsInv
  <2>2. ASSUME NEW e \in stored, e.subject = s, calls' = calls \cup {[subject |-> s, values |-> e.values, jti |-> j]}
        PROVE  CallsInv'
    <3>1. PICK c : c = [subject |-> s, values |-> e.values, jti |-> j]
      OBVIOUS
    <3>2. c.subject = s /\ c.values = e.values /\ c.jti = j /\ c = [subject |-> c.subject, values |-> c.values, jti |-> c.jti]
      BY <3>1
    <3>3. Submitted(c.subject, c.values)'
      BY <1>1, <1>3, <2>2, <3>2, SubmittedKept DEF StoredInv
    <3>4. calls' = calls \cup {c}
      BY <2>2, <3>1
    <3>5. ASSUME NEW d \in calls'
          PROVE  /\ d = [subject |-> d.subject, values |-> d.values, jti |-> d.jti]
                 /\ d.jti \in seen' /\ Submitted(d.subject, d.values)'
      <4>1. CASE d = c
        BY <1>2, <3>2, <3>3, <4>1
      <4>2. CASE d \in calls
        BY <1>4, <4>2
      <4> QED
        BY <3>4, <4>1, <4>2
    <3>6. \A d, x \in calls' : d.jti = x.jti => d = x
      BY <1>1, <1>4, <3>2, <3>4 DEF CallsInv
    <3> QED
      BY <3>5, <3>6 DEF CallsInv
  <2> QED
    BY <2>1, <2>2 DEF Authorize
<1>6. RequestsInv'
  BY <1>1, <1>2 DEF RequestsInv
<1> QED
  BY <1>1, <1>2, <1>3, <1>5, <1>6, CodesKept, StoredKept DEF SignInInv, NewSignInKept

\* The values a rejection is about are those of its subject's only sign-in.
LEMMA AnswerStep ==
  ASSUME SignInInv, NEW c \in calls, finish(c) \/ rejectedUpstream(c)
  PROVE  SignInInv'
<1>1. RequestsInv /\ FormsInv /\ CodesInv /\ StoredInv /\ CallsInv /\ NewSignInKept
  BY DEF SignInInv
<1>2. /\ calls' \subseteq calls /\ stored' \subseteq stored
      /\ UNCHANGED <<requests, forms, codes, minted, seen, commits, tries, redeemed>>
  BY DEF finish, rejectedUpstream
<1>3. FormsInv' /\ FormsAdvance
  BY <1>1, <1>2, FormsKept
<1>4. StoredInv'
  <2>1. IsFiniteSet(stored') /\ Cardinality(stored') <= StoreMax
    <3>1. IsFiniteSet(stored) /\ Cardinality(stored) <= StoreMax
      BY <1>1 DEF StoredInv
    <3>2. IsFiniteSet(stored') /\ Cardinality(stored') <= Cardinality(stored)
      BY <1>2, <3>1, FS_Subset
    <3>3. Cardinality(stored) \in Nat /\ Cardinality(stored') \in Nat /\ StoreMax \in Nat
      BY <3>1, <3>2, FS_CardinalityType, SignInAssumption
    <3> QED
      BY <3>1, <3>2, <3>3
  <2> QED
    BY <1>1, <1>2, <1>3, <2>1, SubmittedKept DEF StoredInv
<1>5. NewSignInKept'
  <2>1. \A e \in stored : e.subject = c.subject => e.values = c.values
    BY <1>1 DEF StoredInv, CallsInv, FormsInv, Submitted
  <2>2. CASE finish(c)
    BY <1>1, <2>2 DEF finish, NewSignInKept
  <2>3. CASE rejectedUpstream(c)
    BY <1>1, <2>1, <2>3 DEF rejectedUpstream, NewSignInKept
  <2> QED
    BY <2>2, <2>3
<1>6. RequestsInv'
  BY <1>1, <1>2 DEF RequestsInv
<1> QED
  BY <1>1, <1>2, <1>3, <1>4, <1>5, <1>6, CodesKept, CallsKept DEF SignInInv

\* Time ages requests, codes and entries; none of them changes hands.
LEMMA SignInTickStep ==
  ASSUME SignInInv, SignInTick
  PROVE  SignInInv'
<1>1. RequestsInv /\ FormsInv /\ CodesInv /\ StoredInv /\ CallsInv
  BY DEF SignInInv
<1>2. /\ codes' = Aged(codes) /\ stored' = Aged(stored)
      /\ UNCHANGED <<forms, minted, calls, seen, commits, tries, redeemed, wrongly>>
  BY DEF SignInTick
<1>3. FormsInv' /\ FormsAdvance
  BY <1>1, <1>2, FormsKept
<1>4. RequestsInv'
  <2>1. requests' = [i \in LoginIds |-> [requests[i] EXCEPT !.left = IF @ > 0 THEN @ - 1 ELSE 0]]
    BY DEF SignInTick
  <2>2. ASSUME NEW i \in LoginIds
        PROVE  /\ requests'[i] = [attempts |-> requests'[i].attempts, left |-> requests'[i].left]
               /\ requests'[i].attempts \in 0..MaxAttempts /\ requests'[i].left \in 0..RequestTTL
               /\ tries'[i] = requests'[i].attempts
               /\ commits'[i] = 1 => requests'[i].left = 0 /\ tries'[i] > 0
    <3>1. PICK q : q = requests[i]
      OBVIOUS
    <3>2. PICK z : z = [q EXCEPT !.left = IF @ > 0 THEN @ - 1 ELSE 0]
      OBVIOUS
    <3>3. /\ q = [attempts |-> q.attempts, left |-> q.left] /\ q.attempts \in 0..MaxAttempts /\ q.left \in 0..RequestTTL
          /\ tries[i] = q.attempts /\ (commits[i] = 1 => q.left = 0 /\ tries[i] > 0)
      BY <1>1, <3>1 DEF RequestsInv
    <3>4. PICK n : n = IF q.left > 0 THEN q.left - 1 ELSE 0
      OBVIOUS
    <3>5. n \in 0..RequestTTL /\ (q.left = 0 => n = 0)
      BY <3>3, <3>4, SignInAssumption
    <3>6. z = [attempts |-> q.attempts, left |-> n]
      BY <3>2, <3>3, <3>4
    <3>7. requests'[i] = z
      BY <2>1, <3>1, <3>2
    <3> QED
      BY <1>2, <3>3, <3>5, <3>6, <3>7
  <2> QED
    BY <1>1, <1>2, <2>1, <2>2 DEF RequestsInv
<1>5. CodesInv'
  <2>1. ASSUME NEW d \in codes'
        PROVE  \E c \in codes : /\ d = [c EXCEPT !.left = @ - 1] /\ d.form = c.form
                                /\ d = [subject |-> d.subject, form |-> d.form, left |-> d.left]
    <3>1. PICK c \in codes : d = [c EXCEPT !.left = @ - 1]
      BY <1>2, <2>1, AgedIsOlder
    <3>2. c = [subject |-> c.subject, form |-> c.form, left |-> c.left]
      BY <1>1 DEF CodesInv
    <3>3. d = [subject |-> c.subject, form |-> c.form, left |-> c.left - 1]
      BY <3>1, <3>2
    <3> QED
      BY <3>1, <3>3
  <2>2. ASSUME NEW d \in codes', NEW e \in codes', d.form = e.form
        PROVE  d = e
    BY <1>1, <2>1, <2>2 DEF CodesInv
  <2>3. \A d \in codes' : /\ d = [subject |-> d.subject, form |-> d.form, left |-> d.left] /\ d.form \in Submissions
                          /\ forms'[d.form].phase = "done" /\ redeemed'[d.form] = 0
    BY <1>1, <1>2, <2>1 DEF CodesInv
  <2> QED
    BY <1>1, <1>2, <2>2, <2>3 DEF CodesInv
<1>6. StoredInv'
  <2>1. IsFiniteSet(stored') /\ Cardinality(stored') <= StoreMax
    <3>1. IsFiniteSet(stored) /\ Cardinality(stored) <= StoreMax
      BY <1>1 DEF StoredInv
    <3>2. IsFiniteSet(stored') /\ Cardinality(stored') <= Cardinality(stored)
      BY <1>2, <3>1, AgedIsFewer
    <3>3. Cardinality(stored) \in Nat /\ Cardinality(stored') \in Nat /\ StoreMax \in Nat
      BY <3>1, <3>2, FS_CardinalityType, SignInAssumption
    <3> QED
      BY <3>1, <3>2, <3>3
  <2>2. ASSUME NEW d \in stored'
        PROVE  /\ d = [subject |-> d.subject, values |-> d.values, rank |-> d.rank, left |-> d.left]
               /\ d.rank \in Nat /\ Submitted(d.subject, d.values)'
    <3>1. PICK e \in stored : d = [e EXCEPT !.left = @ - 1]
      BY <1>2, <2>2, AgedIsOlder
    <3>2. e = [subject |-> e.subject, values |-> e.values, rank |-> e.rank, left |-> e.left]
          /\ e.rank \in Nat /\ Submitted(e.subject, e.values)
      BY <1>1 DEF StoredInv
    <3>3. d = [subject |-> e.subject, values |-> e.values, rank |-> e.rank, left |-> e.left - 1]
      BY <3>1, <3>2
    <3>4. d.subject = e.subject /\ d.values = e.values /\ d.rank = e.rank
          /\ d = [subject |-> d.subject, values |-> d.values, rank |-> d.rank, left |-> d.left]
      BY <3>3
    <3> QED
      BY <1>3, <3>2, <3>4, SubmittedKept
  <2> QED
    BY <2>1, <2>2 DEF StoredInv
<1> QED
  BY <1>1, <1>2, <1>3, <1>4, <1>5, <1>6, CallsKept DEF SignInInv, NewSignInKept

\* At the start nobody has signed in.
LEMMA SignInInitially == SignInInit => SignInInv
<1> SUFFICES ASSUME SignInInit PROVE SignInInv
  OBVIOUS
<1>1. RequestsInv
  <2>1. PICK q : q = NoRequest
    OBVIOUS
  <2>2. q.attempts = 0 /\ q.left = 0 /\ q = [attempts |-> q.attempts, left |-> q.left]
    BY <2>1 DEF NoRequest
  <2>3. DOMAIN requests = LoginIds /\ \A i \in LoginIds : requests[i] = q /\ tries[i] = 0 /\ commits[i] = 0
    BY <2>1 DEF SignInInit
  <2>4. tries \in [LoginIds -> Nat] /\ commits \in [LoginIds -> {0, 1}]
    BY DEF SignInInit
  <2> QED
    BY <2>2, <2>3, <2>4, SignInAssumption DEF RequestsInv
<1>2. FormsInv
  <2>1. PICK x : x = NoForm
    OBVIOUS
  <2>2. x.phase = "none" /\ x.subject = 0 /\ x = [id |-> x.id, phase |-> x.phase, subject |-> x.subject]
    BY <2>1 DEF NoForm
  <2>3. DOMAIN forms = Submissions /\ minted = 0 /\ \A f \in Submissions : forms[f] = x
    BY <2>1 DEF SignInInit
  <2> QED
    BY <2>2, <2>3, SignInAssumption DEF FormsInv
<1>3. CodesInv
  BY DEF SignInInit, CodesInv
<1>4. StoredInv /\ CallsInv /\ NewSignInKept
  BY FS_EmptySet, SignInAssumption DEF SignInInit, StoredInv, CallsInv, NewSignInKept
<1> QED
  BY <1>1, <1>2, <1>3, <1>4 DEF SignInInv

\* Every step keeps the invariant.
LEMMA SignInKept ==
  ASSUME SignInInv, [SignInNext]_signInVars
  PROVE  SignInInv'
<1>1. ASSUME NEW f \in Submissions, validateForm(f) \/ commit(f) \/ giveUp(f)
      PROVE  SignInInv'
  <2>1. CASE giveUp(f)
    BY <2>1, PhaseMoved DEF giveUp, Turns
  <2> QED
    BY <1>1, <2>1, ValidateStep, CommitStep
<1>2. CASE UNCHANGED signInVars
  BY <1>2 DEF signInVars, SignInInv, RequestsInv, FormsInv, CodesInv, StoredInv, CallsInv, Submitted, NewSignInKept
<1> QED
  BY <1>1, <1>2, AuthorizeStep, ApproveStep, TokenStep, CallStep, AnswerStep, SignInTickStep DEF SignInNext

\* Parallel forms of a sign-in have one winner, codes and assertions are spent once, and a late rejection
\* of old values leaves those of a sign-in made since alone.
THEOREM SignInsAreSound == SignInSpec => []SignInSound
<1>1. SignInInv => SignInSound
  <2> SUFFICES ASSUME SignInInv PROVE SignInSound
    OBVIOUS
  <2>1. RequestsInv /\ FormsInv /\ CodesInv /\ StoredInv /\ CallsInv /\ NewSignInKept
    BY DEF SignInInv
  <2>2. SignInTypeOK
    BY <2>1 DEF SignInTypeOK, RequestsInv, FormsInv, StoredInv
  <2>3. OneWinner
    BY <2>1, SignInAssumption DEF OneWinner, RequestsInv
  <2>4. SingleUse
    BY <2>1 DEF SingleUse, CodesInv, CallsInv
  <2> QED
    BY <2>1, <2>2, <2>3, <2>4 DEF SignInSound
<1> QED
  BY <1>1, SignInInitially, SignInKept, PTL DEF SignInSpec

-----------------------------------------------------------------------------
\* The credential broker's cache of verdicts.

\* A review is a record; a good verdict is about a Pod that ran when the review started.
ReviewSound(v) ==
    /\ v = [token |-> v.token, verdict |-> v.verdict, age |-> v.age]
    /\ v.token \in PodTokens /\ v.verdict \in BOOLEAN /\ v.age \in 0..ReviewTime
    /\ v.verdict => v.token \in alive \/ dead[v.token] <= v.age

\* What is remembered of a stopped Pod was learnt at most a review's time after it stopped.
RememberedLately ==
    \A t \in PodTokens \ alive : good[t] > 0 => dead[t] + good[t] <= RenewWindow + ReviewTime

BrokerAuthInv ==
    /\ BrokerAuthTypeOK /\ VerdictStaleness /\ KnownCallerNotStarved
    /\ alive \subseteq PodTokens /\ dead \in [PodTokens -> 0..Forgotten] /\ \A t \in alive : dead[t] = 0
    /\ RememberedLately
    /\ \A v \in reviews : ReviewSound(v)
    /\ admitted.how # "none" => admitted.token \in PodTokens

\* Entries counts two finite sets.
Held(f) == {t \in PodTokens : f[t] > 0}

\* What is held by a cache of finitely many tokens is counted by a number.
LEMMA HeldIsFinite ==
  ASSUME NEW f
  PROVE  IsFiniteSet(Held(f)) /\ Cardinality(Held(f)) \in Nat
<1>1. Held(f) \in SUBSET PodTokens
  BY DEF Held
<1> QED
  BY <1>1, FS_Subset, FS_CardinalityType, BrokerAuthAssumption

\* Entries of both kinds are counted together.
LEMMA EntriesSplit ==
  ASSUME NEW g, NEW b
  PROVE  Entries(g, b) \in Nat /\ Entries(g, b) = Cardinality(Held(g)) + Cardinality(Held(b))
<1>1. Entries(g, b) = Cardinality(Held(g)) + Cardinality(Held(b))
  BY DEF Entries, Held
<1>2. Cardinality(Held(g)) \in Nat /\ Cardinality(Held(b)) \in Nat
  BY HeldIsFinite
<1> QED
  BY <1>1, <1>2

\* Fewer entries count for no more, and one new entry counts for one.
LEMMA CountShrinks ==
  ASSUME NEW g, NEW h, \A t \in PodTokens : h[t] > 0 => g[t] > 0
  PROVE  Cardinality(Held(h)) <= Cardinality(Held(g))
<1>1. Held(h) \in SUBSET Held(g)
  BY DEF Held
<1> QED
  BY <1>1, HeldIsFinite, FS_Subset

\* One more member counts for one.
LEMMA CountGrows ==
  ASSUME NEW g, NEW h, NEW x,
         \A t \in PodTokens : h[t] > 0 => g[t] > 0 \/ t = x
  PROVE  Cardinality(Held(h)) <= Cardinality(Held(g)) + 1
<1>1. Held(h) \in SUBSET (Held(g) \cup {x})
  BY DEF Held
<1>2. IsFiniteSet(Held(g)) /\ Cardinality(Held(g)) \in Nat /\ Cardinality(Held(h)) \in Nat
  BY HeldIsFinite
<1>3. /\ IsFiniteSet(Held(g) \cup {x})
      /\ Cardinality(Held(g) \cup {x}) = IF x \in Held(g) THEN Cardinality(Held(g)) ELSE Cardinality(Held(g)) + 1
  BY <1>2, FS_AddElement
<1>4. Cardinality(Held(h)) <= Cardinality(Held(g) \cup {x})
  BY <1>1, <1>3, FS_Subset
<1> QED
  BY <1>2, <1>3, <1>4

\* The same of both kinds together.
LEMMA EntriesShrink ==
  ASSUME NEW g, NEW b, NEW h, NEW c,
         \A t \in PodTokens : (h[t] > 0 => g[t] > 0) /\ (c[t] > 0 => b[t] > 0)
  PROVE  Entries(h, c) <= Entries(g, b)
<1>1. Cardinality(Held(h)) <= Cardinality(Held(g)) /\ Cardinality(Held(c)) <= Cardinality(Held(b))
  BY CountShrinks
<1>2. /\ Cardinality(Held(h)) \in Nat /\ Cardinality(Held(g)) \in Nat
      /\ Cardinality(Held(c)) \in Nat /\ Cardinality(Held(b)) \in Nat
  BY HeldIsFinite
<1>3. /\ Entries(h, c) = Cardinality(Held(h)) + Cardinality(Held(c))
      /\ Entries(g, b) = Cardinality(Held(g)) + Cardinality(Held(b))
  BY EntriesSplit
<1> QED
  BY <1>1, <1>2, <1>3

\* One new entry, of either kind, counts for one.
LEMMA EntriesGrow ==
  ASSUME NEW g, NEW b, NEW h, NEW c, NEW x,
         \/ \A t \in PodTokens : (h[t] > 0 => g[t] > 0 \/ t = x) /\ (c[t] > 0 => b[t] > 0)
         \/ \A t \in PodTokens : (h[t] > 0 => g[t] > 0) /\ (c[t] > 0 => b[t] > 0 \/ t = x)
  PROVE  Entries(h, c) <= Entries(g, b) + 1
<1>1. \/ Cardinality(Held(h)) <= Cardinality(Held(g)) + 1 /\ Cardinality(Held(c)) <= Cardinality(Held(b))
      \/ Cardinality(Held(h)) <= Cardinality(Held(g)) /\ Cardinality(Held(c)) <= Cardinality(Held(b)) + 1
  <2>1. CASE \A t \in PodTokens : (h[t] > 0 => g[t] > 0 \/ t = x) /\ (c[t] > 0 => b[t] > 0)
    BY <2>1, CountGrows, CountShrinks
  <2>2. CASE \A t \in PodTokens : (h[t] > 0 => g[t] > 0) /\ (c[t] > 0 => b[t] > 0 \/ t = x)
    BY <2>2, CountGrows, CountShrinks
  <2> QED
    BY <2>1, <2>2
<1>2. /\ Cardinality(Held(h)) \in Nat /\ Cardinality(Held(g)) \in Nat
      /\ Cardinality(Held(c)) \in Nat /\ Cardinality(Held(b)) \in Nat
  BY HeldIsFinite
<1>3. /\ Entries(h, c) = Cardinality(Held(h)) + Cardinality(Held(c))
      /\ Entries(g, b) = Cardinality(Held(g)) + Cardinality(Held(b))
  BY EntriesSplit
<1> QED
  BY <1>1, <1>2, <1>3

\* After a shedding there is room for one more.
LEMMA ShedMakesRoom ==
  ASSUME NEW g \in [PodTokens -> 0..RenewWindow], bad \in [PodTokens -> 0..BadTTL], NEW x \in Sheds(g)
  PROVE  /\ Entries(Without(g, x[1]), Without(bad, x[2])) <= CacheMax - 1
         /\ x[1] # {} => x[2] = Rejected
<1>1. CacheMax \in Nat
  BY BrokerAuthAssumption
<1>2. CASE Entries(g, bad) < CacheMax
  <2>1. x = <<{}, {}>>
    BY <1>2 DEF Sheds
  <2>2. Without(g, {}) = g /\ Without(bad, {}) = bad
    BY DEF Without
  <2> QED
    <3>1. Entries(Without(g, x[1]), Without(bad, x[2])) = Entries(g, bad) /\ x[1] = {}
      BY <2>1, <2>2
    <3>2. Entries(g, bad) \in Nat
      BY EntriesSplit
    <3> QED
      BY <1>1, <1>2, <3>1, <3>2
<1>3. CASE ~(Entries(g, bad) < CacheMax)
  <2>1. Entries(Without(g, x[1]), Without(bad, x[2])) = CacheMax - 1 /\ (x[1] # {} => x[2] = Rejected)
    BY <1>3 DEF Sheds
  <2> QED
    BY <1>1, <2>1
<1> QED
  BY <1>2, <1>3

\* At the start nothing is remembered.
LEMMA ReviewsInitially == BrokerAuthInit => BrokerAuthInv
<1> SUFFICES ASSUME BrokerAuthInit PROVE BrokerAuthInv
  OBVIOUS
<1>1. \A t \in PodTokens : good[t] = 0 /\ bad[t] = 0
  BY DEF BrokerAuthInit
<1>2. Entries(good, bad) = 0
  <2>1. {t \in PodTokens : good[t] > 0} = {} /\ {t \in PodTokens : bad[t] > 0} = {}
    BY <1>1
  <2> QED
    BY <2>1, FS_EmptySet DEF Entries
<1>3. /\ GoodTTL \in Nat /\ RenewWindow \in Nat /\ BadTTL \in Nat /\ CacheMax \in Nat /\ ColdBurst \in Nat
      /\ RenewBurst \in Nat /\ ReviewTime \in Nat /\ GoodTokens \subseteq PodTokens /\ Forgotten \in Nat
  BY BrokerAuthAssumption DEF Forgotten
<1>4. BrokerAuthTypeOK
  BY <1>2, <1>3 DEF BrokerAuthInit, BrokerAuthTypeOK
<1>5. admitted.how = "none" /\ reviews = {} /\ alive = GoodTokens
  BY DEF BrokerAuthInit, NotAdmitted
<1>6. dead \in [PodTokens -> 0..Forgotten] /\ \A t \in alive : dead[t] = 0
  BY <1>3 DEF BrokerAuthInit
<1> QED
  BY <1>1, <1>3, <1>4, <1>5, <1>6 DEF BrokerAuthInv, VerdictStaleness, KnownCallerNotStarved, RememberedLately

\* What a request does that changes no verdict keeps what is remembered.
LEMMA RequestStep ==
  ASSUME BrokerAuthInv, NEW t \in PodTokens, AdmitCached(t) \/ StartReview(t) \/ RateLimited(t)
  PROVE  BrokerAuthInv'
<1>1. UNCHANGED <<alive, dead, good, bad>>
  BY DEF AdmitCached, StartReview, RateLimited
<1>2. RememberedLately' /\ alive' \subseteq PodTokens /\ dead' \in [PodTokens -> 0..Forgotten] /\ \A s \in alive' : dead'[s] = 0
  BY <1>1 DEF BrokerAuthInv, RememberedLately
<1>3. /\ GoodTTL \in Nat /\ RenewWindow \in Nat /\ BadTTL \in Nat /\ CacheMax \in Nat /\ ColdBurst \in Nat
      /\ RenewBurst \in Nat /\ ReviewTime \in Nat /\ GoodTTL <= RenewWindow
  BY BrokerAuthAssumption
<1>4. CASE AdmitCached(t)
  <2>1. admitted' = [token |-> t, how |-> "admitted"] /\ UNCHANGED <<cold, renewal, reviews>> /\ good[t] > RenewWindow - GoodTTL
    BY <1>4 DEF AdmitCached, CachedAuth
  <2>2. t \in alive \/ dead[t] <= GoodTTL + ReviewTime
    <3> SUFFICES ASSUME t \notin alive PROVE dead[t] <= GoodTTL + ReviewTime
      OBVIOUS
    <3>1. good[t] \in Nat /\ dead[t] \in Nat
      BY <1>3 DEF BrokerAuthInv, BrokerAuthTypeOK
    <3>2. good[t] > 0
      BY <1>3, <2>1, <3>1
    <3>3. dead[t] + good[t] <= RenewWindow + ReviewTime
      BY <3>2 DEF BrokerAuthInv, RememberedLately
    <3> QED
      BY <1>3, <2>1, <3>1, <3>3
  <2>3. VerdictStaleness' /\ KnownCallerNotStarved'
    BY <1>1, <2>1, <2>2 DEF VerdictStaleness, KnownCallerNotStarved
  <2>4. BrokerAuthTypeOK'
    BY <1>1, <2>1 DEF BrokerAuthInv, BrokerAuthTypeOK
  <2>5. \A v \in reviews' : ReviewSound(v)'
    BY <1>1, <2>1 DEF BrokerAuthInv, ReviewSound
  <2> QED
    BY <1>2, <2>1, <2>3, <2>4, <2>5 DEF BrokerAuthInv
<1>5. CASE RateLimited(t)
  <2>1. admitted' = [token |-> t, how |-> CachedAuth(t)] /\ UNCHANGED <<cold, renewal, reviews>> /\ CachedAuth(t) # "admitted"
    BY <1>5 DEF RateLimited
  <2>2. CachedAuth(t) = "renewable" => renewal[t] = 0
    BY <1>5 DEF RateLimited, Remaining, Charged
  <2>3. VerdictStaleness' /\ KnownCallerNotStarved'
    BY <2>1, <2>2 DEF VerdictStaleness, KnownCallerNotStarved
  <2>4. BrokerAuthTypeOK'
    BY <1>1, <2>1 DEF BrokerAuthInv, BrokerAuthTypeOK
  <2>5. \A v \in reviews' : ReviewSound(v)'
    BY <1>1, <2>1 DEF BrokerAuthInv, ReviewSound
  <2> QED
    BY <1>2, <2>1, <2>3, <2>4, <2>5 DEF BrokerAuthInv
<1>6. CASE StartReview(t)
  <2>0. PICK asked : asked = [token |-> t, verdict |-> t \in alive, age |-> 0]
    OBVIOUS
  <2>1. /\ renewal' = [renewal EXCEPT ![t] = IF Charged(t) = "own" THEN @ - 1 ELSE @]
        /\ cold' = IF Charged(t) = "cold" THEN cold - 1 ELSE cold
        /\ reviews' = reviews \cup {asked} /\ admitted' = admitted /\ Remaining(t) > 0
    BY <1>6, <2>0 DEF StartReview
  <2>2. cold \in 0..ColdBurst /\ renewal \in [PodTokens -> 0..RenewBurst]
    BY DEF BrokerAuthInv, BrokerAuthTypeOK
  <2>3. (Charged(t) = "own" => renewal[t] > 0) /\ (Charged(t) = "cold" => cold > 0)
    BY <2>1 DEF Remaining
  <2>4. cold' \in 0..ColdBurst /\ renewal' \in [PodTokens -> 0..RenewBurst]
    BY <1>3, <2>1, <2>2, <2>3
  <2>5. BrokerAuthTypeOK'
    BY <1>1, <2>4 DEF BrokerAuthInv, BrokerAuthTypeOK
  <2>6. \A p \in PodTokens : renewal[p] = 0 => renewal'[p] = 0
    BY <2>1, <2>2, <2>3
  <2>7. VerdictStaleness' /\ KnownCallerNotStarved'
    BY <1>1, <2>1, <2>6 DEF BrokerAuthInv, VerdictStaleness, KnownCallerNotStarved
  <2>8. /\ asked.token = t /\ asked.age = 0 /\ asked.verdict \in BOOLEAN /\ (asked.verdict => t \in alive)
        /\ asked = [token |-> asked.token, verdict |-> asked.verdict, age |-> asked.age]
    <3>1. CASE t \in alive
      <4>1. asked = [token |-> t, verdict |-> TRUE, age |-> 0]
        BY <2>0, <3>1, Zenon
      <4> QED
        BY <3>1, <4>1
    <3>2. CASE t \notin alive
      <4>1. asked = [token |-> t, verdict |-> FALSE, age |-> 0]
        <5>1. (t \in alive) = FALSE
          BY <3>2
        <5> QED
          BY <2>0, <5>1, Zenon
      <4> QED
        BY <4>1
    <3> QED
      BY <3>1, <3>2
  <2>9. \A v \in reviews' : ReviewSound(v)'
    <3>1. ReviewSound(asked)'
      BY <1>1, <1>3, <2>8 DEF ReviewSound
    <3>2. \A v \in reviews : ReviewSound(v)'
      BY <1>1 DEF BrokerAuthInv, ReviewSound
    <3> QED
      BY <2>1, <3>1, <3>2
  <2> QED
    BY <1>2, <2>1, <2>5, <2>7, <2>9 DEF BrokerAuthInv
<1> QED
  BY <1>4, <1>5, <1>6

\* A Pod that stops has been gone for no time yet.
LEMMA StopPodStep ==
  ASSUME BrokerAuthInv, NEW t \in PodTokens, StopPod(t)
  PROVE  BrokerAuthInv'
<1>1. t \in alive /\ alive' = alive \ {t} /\ UNCHANGED <<dead, good, bad, cold, renewal, reviews, admitted>>
  BY DEF StopPod
<1>2. dead[t] = 0 /\ good[t] \in 0..RenewWindow
  BY <1>1 DEF BrokerAuthInv, BrokerAuthTypeOK
<1>3. GoodTTL \in Nat /\ RenewWindow \in Nat /\ ReviewTime \in Nat
  BY BrokerAuthAssumption
<1>4. BrokerAuthTypeOK' /\ KnownCallerNotStarved'
  BY <1>1 DEF BrokerAuthInv, BrokerAuthTypeOK, KnownCallerNotStarved
<1>5. VerdictStaleness'
  BY <1>1, <1>2, <1>3 DEF BrokerAuthInv, VerdictStaleness
<1>6. RememberedLately'
  <2> SUFFICES ASSUME NEW p \in PodTokens \ alive', good'[p] > 0 PROVE dead'[p] + good'[p] <= RenewWindow + ReviewTime
    BY DEF RememberedLately
  <2>1. CASE p = t
    BY <1>1, <1>2, <1>3, <2>1
  <2>2. CASE p # t
    BY <1>1, <2>2 DEF BrokerAuthInv, RememberedLately
  <2> QED
    BY <2>1, <2>2
<1>7. ASSUME NEW v \in reviews' PROVE ReviewSound(v)'
  <2>1. ReviewSound(v)
    BY <1>1, <1>7 DEF BrokerAuthInv
  <2>2. v.token = t => dead[v.token] <= v.age
    BY <1>2, <1>3, <2>1 DEF ReviewSound
  <2> QED
    BY <1>1, <2>1, <2>2 DEF ReviewSound
<1> QED
  BY <1>1, <1>4, <1>5, <1>6, <1>7 DEF BrokerAuthInv

\* A verdict is recorded within the cache's size.
LEMMA EndReviewStep ==
  ASSUME BrokerAuthInv, NEW v \in reviews, EndReview(v)
  PROVE  BrokerAuthInv'
<1>1. /\ GoodTTL \in Nat /\ RenewWindow \in Nat \ {0} /\ BadTTL \in Nat \ {0} /\ CacheMax \in Nat /\ ReviewTime \in Nat
      /\ GoodTTL <= RenewWindow
  BY BrokerAuthAssumption
<1>2. reviews' = reviews \ {v} /\ UNCHANGED <<alive, dead, cold, renewal>>
  BY DEF EndReview
<1>3. ReviewSound(v) /\ v.token \in PodTokens
  BY DEF BrokerAuthInv, ReviewSound
<1>4. \A w \in reviews' : ReviewSound(w)'
  BY <1>2 DEF BrokerAuthInv, ReviewSound
<1>5. good \in [PodTokens -> 0..RenewWindow] /\ bad \in [PodTokens -> 0..BadTTL] /\ dead \in [PodTokens -> 0..Forgotten]
  BY DEF BrokerAuthInv, BrokerAuthTypeOK
<1>6. CASE v.verdict
  <2>1. PICK x \in Sheds(good) : /\ good' = [Without(good, x[1]) EXCEPT ![v.token] = RenewWindow]
                                 /\ bad' = Without(bad, x[2])
    BY <1>6 DEF EndReview
  <2>2. admitted' = [token |-> v.token, how |-> "admitted"]
    BY <1>6 DEF EndReview
  <2>3. Entries(Without(good, x[1]), Without(bad, x[2])) <= CacheMax - 1
    BY <1>5, ShedMakesRoom
  <2>4. good' \in [PodTokens -> 0..RenewWindow] /\ bad' \in [PodTokens -> 0..BadTTL]
    <3>1. Without(good, x[1]) \in [PodTokens -> 0..RenewWindow] /\ Without(bad, x[2]) \in [PodTokens -> 0..BadTTL]
      BY <1>1, <1>5 DEF Without
    <3>2. RenewWindow \in 0..RenewWindow
      BY <1>1
    <3> QED
      BY <2>1, <3>1, <3>2
  <2>5. Entries(good', bad') <= Entries(Without(good, x[1]), Without(bad, x[2])) + 1
    <3>1. \A t \in PodTokens : good'[t] > 0 => Without(good, x[1])[t] > 0 \/ t = v.token
      BY <1>3, <2>1 DEF Without
    <3> QED
      BY <2>1, <3>1, EntriesGrow
  <2>6. Entries(good', bad') <= CacheMax
    <3>1. Entries(good', bad') \in Nat /\ Entries(Without(good, x[1]), Without(bad, x[2])) \in Nat
      BY EntriesSplit
    <3> QED
      BY <1>1, <2>3, <2>5, <3>1
  <2>7. BrokerAuthTypeOK'
    BY <1>2, <2>4, <2>6 DEF BrokerAuthInv, BrokerAuthTypeOK
  <2>8. v.token \in alive \/ dead[v.token] <= ReviewTime
    BY <1>1, <1>3, <1>5, <1>6 DEF ReviewSound, Forgotten
  <2>9. VerdictStaleness' /\ KnownCallerNotStarved'
    BY <1>1, <1>2, <1>3, <1>5, <2>2, <2>8 DEF VerdictStaleness, KnownCallerNotStarved, Forgotten
  <2>10. RememberedLately'
    <3> SUFFICES ASSUME NEW p \in PodTokens \ alive', good'[p] > 0 PROVE dead'[p] + good'[p] <= RenewWindow + ReviewTime
      BY DEF RememberedLately
    <3>1. CASE p = v.token
      BY <1>1, <1>2, <1>5, <2>1, <2>4, <2>8, <3>1 DEF Without, Forgotten
    <3>2. CASE p # v.token
      <4>1. good'[p] = good[p]
        BY <1>5, <2>1, <3>2 DEF Without
      <4> QED
        BY <1>2, <4>1 DEF BrokerAuthInv, RememberedLately
    <3> QED
      BY <3>1, <3>2
  <2> QED
    BY <1>2, <1>3, <1>4, <2>2, <2>7, <2>9, <2>10 DEF BrokerAuthInv
<1>7. CASE ~v.verdict
  <2> DEFINE g == Without(good, {v.token})
  <2>1. PICK x \in Sheds(g) : /\ good' = Without(good, x[1] \cup {v.token})
                              /\ bad' = [Without(bad, x[2]) EXCEPT ![v.token] = BadTTL]
    BY <1>7 DEF EndReview
  <2>2. admitted' = admitted
    BY <1>7 DEF EndReview
  <2>3. g \in [PodTokens -> 0..RenewWindow]
    BY <1>1, <1>5 DEF Without
  <2>4. Entries(Without(g, x[1]), Without(bad, x[2])) <= CacheMax - 1
    BY <1>5, <2>3, ShedMakesRoom
  <2>5. good' \in [PodTokens -> 0..RenewWindow] /\ bad' \in [PodTokens -> 0..BadTTL]
    <3>1. Without(good, x[1] \cup {v.token}) \in [PodTokens -> 0..RenewWindow] /\ Without(bad, x[2]) \in [PodTokens -> 0..BadTTL]
      BY <1>1, <1>5 DEF Without
    <3>2. BadTTL \in 0..BadTTL
      BY <1>1
    <3> QED
      BY <2>1, <3>1, <3>2
  <2>6. good' = Without(g, x[1])
    BY <1>5, <2>1 DEF Without
  <2>7. Entries(good', bad') <= Entries(Without(g, x[1]), Without(bad, x[2])) + 1
    <3>1. \A t \in PodTokens : bad'[t] > 0 => Without(bad, x[2])[t] > 0 \/ t = v.token
      BY <1>3, <2>1 DEF Without
    <3> HIDE DEF g
    <3> QED
      BY <2>6, <3>1, EntriesGrow
  <2>8. Entries(good', bad') <= CacheMax
    <3> HIDE DEF g
    <3>1. Entries(good', bad') \in Nat /\ Entries(Without(g, x[1]), Without(bad, x[2])) \in Nat
      BY EntriesSplit
    <3> QED
      BY <1>1, <2>4, <2>7, <3>1
  <2>9. BrokerAuthTypeOK'
    BY <1>2, <2>5, <2>8 DEF BrokerAuthInv, BrokerAuthTypeOK
  <2>10. VerdictStaleness' /\ KnownCallerNotStarved'
    BY <1>2, <2>2 DEF BrokerAuthInv, VerdictStaleness, KnownCallerNotStarved
  <2>11. RememberedLately'
    <3> SUFFICES ASSUME NEW p \in PodTokens \ alive', good'[p] > 0 PROVE dead'[p] + good'[p] <= RenewWindow + ReviewTime
      BY DEF RememberedLately
    <3>1. good'[p] = good[p]
      BY <1>5, <2>1 DEF Without
    <3> QED
      BY <1>2, <3>1 DEF BrokerAuthInv, RememberedLately
  <2> QED
    BY <1>2, <1>3, <1>4, <2>2, <2>9, <2>10, <2>11 DEF BrokerAuthInv
<1> QED
  BY <1>6, <1>7

\* Time ages what is remembered and the Pods that stopped alike.
LEMMA BrokerAuthTickStep ==
  ASSUME BrokerAuthInv, BrokerAuthTick
  PROVE  BrokerAuthInv'
<1>1. /\ GoodTTL \in Nat /\ RenewWindow \in Nat /\ BadTTL \in Nat /\ CacheMax \in Nat /\ ReviewTime \in Nat
      /\ ColdBurst \in Nat /\ RenewBurst \in Nat /\ Forgotten = GoodTTL + ReviewTime + 1
  BY BrokerAuthAssumption DEF Forgotten
<1>2. /\ dead' = [t \in PodTokens |-> IF t \in alive \/ dead[t] = Forgotten THEN dead[t] ELSE dead[t] + 1]
      /\ good' = [t \in PodTokens |-> Down(good[t])]
      /\ bad' = [t \in PodTokens |-> Down(bad[t])]
      /\ cold' = IF cold < ColdBurst THEN cold + 1 ELSE cold
      /\ renewal' = [t \in PodTokens |-> IF renewal[t] < RenewBurst THEN renewal[t] + 1 ELSE renewal[t]]
      /\ admitted' = NotAdmitted /\ alive' = alive
  BY DEF BrokerAuthTick
<1>3. /\ good \in [PodTokens -> 0..RenewWindow] /\ bad \in [PodTokens -> 0..BadTTL] /\ dead \in [PodTokens -> 0..Forgotten]
      /\ cold \in 0..ColdBurst /\ renewal \in [PodTokens -> 0..RenewBurst] /\ Entries(good, bad) <= CacheMax
      /\ alive \subseteq PodTokens /\ \A t \in alive : dead[t] = 0
  BY DEF BrokerAuthInv, BrokerAuthTypeOK
<1>4. /\ good' \in [PodTokens -> 0..RenewWindow] /\ bad' \in [PodTokens -> 0..BadTTL]
      /\ cold' \in 0..ColdBurst /\ renewal' \in [PodTokens -> 0..RenewBurst]
  BY <1>1, <1>2, <1>3 DEF Down
<1>5. dead' \in [PodTokens -> 0..Forgotten] /\ (\A t \in alive' : dead'[t] = 0) /\ alive' \subseteq PodTokens
  BY <1>1, <1>2, <1>3
<1>6. Entries(good', bad') <= CacheMax
  <2>1. \A t \in PodTokens : (good'[t] > 0 => good[t] > 0) /\ (bad'[t] > 0 => bad[t] > 0)
    BY <1>2, <1>3 DEF Down
  <2>2. Entries(good', bad') <= Entries(good, bad)
    BY <2>1, EntriesShrink
  <2> QED
    <3>1. Entries(good', bad') \in Nat /\ Entries(good, bad) \in Nat
      BY EntriesSplit
    <3> QED
      BY <1>1, <1>3, <2>2, <3>1
<1>7. RememberedLately'
  <2> SUFFICES ASSUME NEW p \in PodTokens \ alive', good'[p] > 0 PROVE dead'[p] + good'[p] <= RenewWindow + ReviewTime
    BY DEF RememberedLately
  <2>1. good[p] > 0 /\ good'[p] = good[p] - 1
    BY <1>2, <1>3 DEF Down
  <2>2. dead[p] + good[p] <= RenewWindow + ReviewTime
    BY <1>2, <2>1 DEF BrokerAuthInv, RememberedLately
  <2> QED
    BY <1>1, <1>2, <1>3, <2>1, <2>2
<1>8. ASSUME NEW w \in reviews' PROVE ReviewSound(w)'
  <2>1. PICK v \in reviews : w = [v EXCEPT !.age = @ + 1]
    BY <1>8 DEF BrokerAuthTick
  <2>2. ReviewSound(v) /\ v.age < ReviewTime
    BY DEF BrokerAuthInv, BrokerAuthTick
  <2>3. w = [token |-> v.token, verdict |-> v.verdict, age |-> v.age + 1]
    BY <2>1, <2>2 DEF ReviewSound
  <2>4. w.token = v.token /\ w.verdict = v.verdict /\ w.age = v.age + 1
        /\ w = [token |-> w.token, verdict |-> w.verdict, age |-> w.age]
    BY <2>3
  <2>5. w.age \in 0..ReviewTime
    BY <1>1, <2>2, <2>4 DEF ReviewSound
  <2>6. w.verdict => w.token \in alive' \/ dead'[w.token] <= w.age
    BY <1>1, <1>2, <1>3, <2>2, <2>4 DEF ReviewSound
  <2> QED
    BY <2>2, <2>4, <2>5, <2>6 DEF ReviewSound
<1>9. admitted'.how = "none"
  BY <1>2 DEF NotAdmitted
<1> QED
  BY <1>4, <1>5, <1>6, <1>7, <1>8, <1>9 DEF BrokerAuthInv, BrokerAuthTypeOK, VerdictStaleness, KnownCallerNotStarved

\* Every step keeps the invariant.
LEMMA ReviewsKept == BrokerAuthInv /\ [BrokerAuthNext]_brokerAuthVars => BrokerAuthInv'
<1> SUFFICES ASSUME BrokerAuthInv, [BrokerAuthNext]_brokerAuthVars PROVE BrokerAuthInv'
  OBVIOUS
<1>1. CASE UNCHANGED brokerAuthVars
  BY <1>1 DEF brokerAuthVars, BrokerAuthInv, BrokerAuthTypeOK, VerdictStaleness, KnownCallerNotStarved, RememberedLately,
              ReviewSound
<1>2. ASSUME NEW v \in reviews, ReviewUnavailable(v) PROVE BrokerAuthInv'
  BY <1>2 DEF ReviewUnavailable, BrokerAuthInv, BrokerAuthTypeOK, VerdictStaleness, KnownCallerNotStarved, RememberedLately,
              ReviewSound
<1> QED
  BY <1>1, <1>2, RequestStep, StopPodStep, EndReviewStep, BrokerAuthTickStep DEF BrokerAuthNext

\* The oldest review is older after a tick: no tick looks like the end of a review.
LEMMA TickEndsNoReview ==
  ASSUME BrokerAuthInv, BrokerAuthTick, NEW v \in reviews
  PROVE  reviews' # reviews \ {v}
<1> DEFINE ages == {w.age : w \in reviews}
<1>1. \A w \in reviews : w.age \in 0..ReviewTime
  BY DEF BrokerAuthInv, ReviewSound
<1>2. ReviewTime \in Nat
  BY BrokerAuthAssumption
<1>3. ages \in SUBSET Nat /\ ages # {} /\ \A n \in ages : n <= ReviewTime
  BY <1>1, <1>2
<1>4. PICK n \in ages : \A m \in ages : n >= m
  <2> HIDE DEF ages
  <2>1. IsFiniteSet(ages)
    BY <1>2, <1>3, FS_BoundedSetOfNaturals
  <2> QED
    BY <1>3, <2>1, LargestExists
<1>5. PICK w \in reviews : w.age = n
  BY <1>4
<1>6. [w EXCEPT !.age = @ + 1] \in reviews'
  BY <1>5 DEF BrokerAuthTick
<1>7. [w EXCEPT !.age = @ + 1].age = n + 1
  <2>1. w = [token |-> w.token, verdict |-> w.verdict, age |-> w.age]
    BY DEF BrokerAuthInv, ReviewSound
  <2>2. PICK r : r = [w EXCEPT !.age = @ + 1]
    OBVIOUS
  <2>3. r.age = n + 1
    BY <1>5, <2>1, <2>2
  <2> QED
    BY <2>2, <2>3
<1>8. [w EXCEPT !.age = @ + 1] \notin reviews
  <2>1. PICK r : r = [w EXCEPT !.age = @ + 1]
    OBVIOUS
  <2>2. r.age = n + 1
    BY <1>7, <2>1
  <2>3. r \notin reviews
    <3>1. SUFFICES ASSUME r \in reviews PROVE FALSE
      OBVIOUS
    <3>2. r.age \in ages
      BY <3>1
    <3> HIDE DEF ages
    <3> QED
      BY <1>3, <1>4, <2>2, <3>2
  <2> QED
    BY <2>1, <2>3
<1> QED
  BY <1>6, <1>8

\* The cache sheds rejected tokens before it forgets another caller.
LEMMA ShedsInOrder ==
  ASSUME BrokerAuthInv, BrokerAuthNext,
         NEW v \in reviews, NEW t \in PodTokens, reviews' = reviews \ {v}, t # v.token, good[t] > 0, good'[t] = 0,
         NEW p \in PodTokens \ {v.token}
  PROVE  bad'[p] = 0
<1>1. good \in [PodTokens -> 0..RenewWindow] /\ bad \in [PodTokens -> 0..BadTTL] /\ BadTTL \in Nat /\ RenewWindow \in Nat
  BY BrokerAuthAssumption DEF BrokerAuthInv, BrokerAuthTypeOK
<1>2. good' # good
  BY <1>1
<1>3. PICK w \in reviews : EndReview(w)
  BY <1>2, TickEndsNoReview DEF BrokerAuthNext, AdmitCached, StartReview, RateLimited, StopPod, ReviewUnavailable
<1>4. w = v
  BY <1>3 DEF EndReview
<1>5. v.token \in PodTokens
  BY DEF BrokerAuthInv, ReviewSound
<1>6. ASSUME NEW x, x[2] = Rejected PROVE Without(bad, x[2])[p] = 0
  BY <1>1, <1>6 DEF Without, Rejected
<1>7. CASE v.verdict
  <2>1. PICK x \in Sheds(good) : /\ good' = [Without(good, x[1]) EXCEPT ![v.token] = RenewWindow]
                                 /\ bad' = Without(bad, x[2])
    BY <1>3, <1>4, <1>7 DEF EndReview
  <2>2. t \in x[1]
    BY <1>1, <2>1 DEF Without
  <2>3. x[2] = Rejected
    BY <1>1, <2>2, ShedMakesRoom
  <2> QED
    BY <1>6, <2>1, <2>3
<1>8. CASE ~v.verdict
  <2> DEFINE g == Without(good, {v.token})
  <2>1. PICK x \in Sheds(g) : /\ good' = Without(good, x[1] \cup {v.token})
                              /\ bad' = [Without(bad, x[2]) EXCEPT ![v.token] = BadTTL]
    BY <1>3, <1>4, <1>8 DEF EndReview
  <2>2. t \in x[1]
    BY <1>1, <2>1 DEF Without
  <2>3. g \in [PodTokens -> 0..RenewWindow]
    BY <1>1 DEF Without
  <2>4. x[2] = Rejected
    BY <1>1, <2>2, <2>3, ShedMakesRoom
  <2>5. bad'[p] = Without(bad, x[2])[p]
    BY <2>1 DEF Without
  <2> QED
    BY <1>6, <2>4, <2>5
<1> QED
  BY <1>7, <1>8

\* Cached verdicts are honoured for a bounded time, and known callers suffer nothing from a flood.
THEOREM ReviewsAreSound == BrokerAuthSpec => ReviewsSound
<1>1. BrokerAuthInv => BrokerAuthTypeOK /\ VerdictStaleness /\ KnownCallerNotStarved
  BY DEF BrokerAuthInv
<1>2. BrokerAuthInv /\ [BrokerAuthNext]_brokerAuthVars =>
        [\A v \in reviews, t \in PodTokens :
           reviews' = reviews \ {v} /\ t # v.token /\ good[t] > 0 /\ good'[t] = 0 /\ dead' = dead =>
             \A x \in PodTokens \ {v.token} : bad'[x] = 0]_brokerAuthVars
  BY ShedsInOrder
<1> QED
  BY <1>1, <1>2, ReviewsInitially, ReviewsKept, PTL DEF BrokerAuthSpec, ReviewsSound, RejectedShedFirst

-----------------------------------------------------------------------------
\* Tokens of the platform and of the registry.

\* A scope the person still has, or lost so lately that a token with k ticks to go may be honoured for it.
HeldLately(scope, k) ==
    \/ scope \in OpenScopes \cup person.teams
    \/ scope \in TeamScopes /\ lost[scope] + k <= Lifetime
TokenSound(t) ==
    /\ t = [aud |-> t.aud, sub |-> t.sub, access |-> t.access, left |-> t.left, root |-> t.root]
    /\ t.left \in 1..SessionTTL \cup 1..Lifetime /\ t.root \in Nat /\ t.left <= t.root /\ t.access \subseteq Accesses
    /\ t.sub \in {"person", "node"} /\ (t.aud = "registry" => t.left <= Lifetime)
    /\ t.aud = "registry" /\ t.sub = "node" => \A a \in t.access : a[2] = "pull" /\ NodeAllows(a[1])
    /\ t.aud = "registry" /\ t.sub # "node" => \A a \in t.access : HeldLately(Scope[a[1]], t.left)
TokensInv ==
    /\ TokensTypeOK /\ \A t \in tokens : TokenSound(t)
    /\ answer.says = FALSE
    /\ RegistryStaleness /\ NodesOnlyPull /\ RevokedKeyRefused

\* At the start there is no token and nothing was lost.
LEMMA TokensInitially == TokensInit => TokensInv
<1> SUFFICES ASSUME TokensInit PROVE TokensInv
  OBVIOUS
<1>1. TokensTypeOK
  BY TokensAssumption DEF TokensInit, TokensTypeOK, NoAnswer, Recently
<1>2. answer.says = FALSE
  BY DEF TokensInit, NoAnswer
<1>3. RegistryStaleness /\ NodesOnlyPull /\ RevokedKeyRefused
  BY DEF TokensInit, Nothing, RegistryStaleness, NodesOnlyPull, RevokedKeyRefused
<1> QED
  BY <1>1, <1>2, <1>3 DEF TokensInv, TokensInit

\* A token more, that says what it may.
LEMMA IssueKept ==
  ASSUME TokensInv, NEW t, Issue(t), UNCHANGED <<person, pullKey, answer, lost, honoured>>, TokenSound(t)
  PROVE  TokensInv'
<1>1. ASSUME NEW x \in tokens'
      PROVE  TokenSound(x)'
  <2>1. TokenSound(x)
    BY DEF Issue, TokensInv
  <2> QED
    BY <2>1 DEF TokenSound, HeldLately
<1>2. TokensTypeOK'
  BY DEF TokensInv, TokensTypeOK, TokenSound, Issue
<1> QED
  BY <1>1, <1>2 DEF TokensInv, RegistryStaleness, NodesOnlyPull, RevokedKeyRefused

\* A token is issued over scopes the person has at that time.
LEMMA IssueStep ==
  ASSUME TokensInv,
         \/ CreateAccessToken \/ \E t \in tokens : Exchange(t)
         \/ \E sub \in {"person", "node"}, access \in kSubset(1, Accesses) \cup kSubset(2, Accesses) : HandleToken(sub, access)
  PROVE  TokensInv'
<1>1. SessionTTL \in Nat \ {0} /\ ExchangeTTL \in Nat \ {0} /\ Lifetime \in Nat \ {0}
  BY TokensAssumption
<1>2. CASE CreateAccessToken
  <2>1. PICK t : t = Token("platform", "person", {}, SessionTTL, SessionTTL)
    OBVIOUS
  <2>2. /\ t.aud = "platform" /\ t.sub = "person" /\ t.access = {} /\ t.left = SessionTTL /\ t.root = SessionTTL
        /\ t = [aud |-> t.aud, sub |-> t.sub, access |-> t.access, left |-> t.left, root |-> t.root]
    BY <2>1 DEF Token
  <2>3. TokenSound(t)
    BY <1>1, <2>2 DEF TokenSound
  <2> QED
    BY <1>2, <2>1, <2>3, IssueKept DEF CreateAccessToken
<1>3. ASSUME NEW s \in tokens, Exchange(s)
      PROVE  TokensInv'
  <2>1. TokenSound(s)
    BY DEF TokensInv
  <2>2. PICK left : left = IF ExchangeTTL < s.left THEN ExchangeTTL ELSE s.left
    OBVIOUS
  <2>3. PICK t : t = Token("runtime", s.sub, {}, left, s.left)
    OBVIOUS
  <2>4. /\ t.aud = "runtime" /\ t.sub = s.sub /\ t.access = {} /\ t.left = left /\ t.root = s.left
        /\ t = [aud |-> t.aud, sub |-> t.sub, access |-> t.access, left |-> t.left, root |-> t.root]
    BY <2>3 DEF Token
  <2>5. s.left \in Nat /\ left \in 1..SessionTTL \cup 1..Lifetime /\ left <= s.left
    BY <1>1, <2>1, <2>2 DEF TokenSound
  <2>6. TokenSound(t)
    BY <2>1, <2>4, <2>5 DEF TokenSound
  <2> QED
    BY <1>3, <2>2, <2>3, <2>6, IssueKept DEF Exchange
<1>4. ASSUME NEW sub \in {"person", "node"}, NEW access \in kSubset(1, Accesses) \cup kSubset(2, Accesses), HandleToken(sub, access)
      PROVE  TokensInv'
  <2>1. PICK t : t = Token("registry", sub, access, Lifetime, Lifetime)
    OBVIOUS
  <2>2. /\ t.aud = "registry" /\ t.sub = sub /\ t.access = access /\ t.left = Lifetime /\ t.root = Lifetime
        /\ t = [aud |-> t.aud, sub |-> t.sub, access |-> t.access, left |-> t.left, root |-> t.root]
    BY <2>1 DEF Token
  <2>3. access \subseteq Accesses
    BY DEF kSubset
  <2>4. ASSUME sub = "node", NEW a \in access
        PROVE  a[2] = "pull" /\ NodeAllows(a[1])
    BY <1>4, <2>4 DEF HandleToken, MayHold
  <2>5. ASSUME sub # "node", NEW a \in access
        PROVE  HeldLately(Scope[a[1]], Lifetime)
    BY <1>4, <2>5 DEF HandleToken, MayHold, CanAccessScope, HeldLately
  <2>6. TokenSound(t)
    BY <1>1, <2>2, <2>3, <2>4, <2>5 DEF TokenSound
  <2> QED
    BY <1>4, <2>1, <2>6, IssueKept DEF HandleToken
<1> QED
  BY <1>2, <1>3, <1>4

\* A request that is honoured, or refused.
LEMMA HonouredKept ==
  ASSUME TokensInv, UNCHANGED <<person, pullKey, tokens, lost>>,
         answer' \in [says : {FALSE}, left : 0..CacheTTL],
         RegistryStaleness', NodesOnlyPull', RevokedKeyRefused'
  PROVE  TokensInv'
<1>1. \A t \in tokens : TokenSound(t)'
  BY DEF TokensInv, TokenSound, HeldLately
<1>2. TokensTypeOK'
  BY DEF TokensInv, TokensTypeOK
<1> QED
  BY <1>1, <1>2 DEF TokensInv

\* A service's answer is about the token presented, or at most CacheTTL old.
LEMMA ServiceStep ==
  ASSUME TokensInv, ResolveAPIKey \/ \E t \in tokens, aud \in {"platform", "runtime"} : AuthenticateJWT(t, aud)
  PROVE  TokensInv'
<1>1. answer \in [says : {FALSE}, left : 0..CacheTTL]
  <2>1. answer \in [says : BOOLEAN, left : 0..CacheTTL] /\ answer.says = FALSE
    BY DEF TokensInv, TokensTypeOK
  <2> QED
    BY <2>1
<1>2. ASSUME NEW t \in tokens, NEW aud \in {"platform", "runtime"}, AuthenticateJWT(t, aud)
      PROVE  TokensInv'
  <2>1. honoured' = [with |-> aud, at |-> aud, did |-> {}] /\ UNCHANGED <<person, pullKey, tokens, answer, lost>>
    BY <1>2 DEF AuthenticateJWT
  <2>2. honoured'.with \in {"platform", "runtime"}
    BY <2>1
  <2>3. RegistryStaleness' /\ NodesOnlyPull' /\ RevokedKeyRefused'
    BY <2>2 DEF RegistryStaleness, NodesOnlyPull, RevokedKeyRefused
  <2> QED
    BY <1>1, <2>1, <2>3, HonouredKept
<1>3. CASE ResolveAPIKey
  <2> DEFINE fresh == answer.left > 0
             ok == IF fresh THEN answer.says ELSE Known
  <2>1. /\ answer' = IF fresh THEN answer ELSE Remember(ok)
        /\ honoured' = IF ~ok THEN Nothing ELSE [with |-> IF Known THEN "key" ELSE "dead key", at |-> "runtime", did |-> {}]
        /\ UNCHANGED <<person, pullKey, tokens, lost>>
    BY <1>3 DEF ResolveAPIKey
  <2>2. ok => Known
    BY <1>1
  <2>3. honoured'.with \in {"none", "key"}
    BY <2>1, <2>2 DEF Nothing
  <2>4. RegistryStaleness' /\ NodesOnlyPull' /\ RevokedKeyRefused'
    BY <2>3 DEF RegistryStaleness, NodesOnlyPull, RevokedKeyRefused
  <2>5. answer' \in [says : {FALSE}, left : 0..CacheTTL]
    <3>1. CASE fresh
      BY <1>1, <2>1, <3>1
    <3>2. CASE ~fresh
      <4>1. answer' = Remember(Known)
        BY <2>1, <3>2
      <4>2. CASE Known
        <5>1. Remember(Known) = [says |-> FALSE, left |-> 0]
          BY <4>2 DEF Remember, NoAnswer
        <5> QED
          BY <4>1, <5>1, TokensAssumption
      <4>3. CASE ~Known
        <5>1. PICK known : known = Known
          OBVIOUS
        <5>2. known = FALSE
          BY <4>3, <5>1 DEF Known
        <5>3. Remember(known) = [says |-> FALSE, left |-> CacheTTL]
          BY <5>2 DEF Remember
        <5> QED
          BY <4>1, <5>1, <5>3, TokensAssumption
      <4> QED
        BY <4>2, <4>3
    <3> QED
      BY <3>1, <3>2
  <2> QED
    BY <2>1, <2>4, <2>5, HonouredKept
<1> QED
  BY <1>2, <1>3

\* What the registry honours: a token's own access, a node's prefixes, a person's current teams.
LEMMA RegistryStep ==
  ASSUME TokensInv, NEW want \in Accesses,
         \/ ForwardPullCredential(want)
         \/ \E from \in kSubset(0, Repos) \cup kSubset(1, Repos) :
              HandleAuthz(want, from) \/ \E t \in tokens : ForwardBearer(t, want, from)
  PROVE  TokensInv'
<1>1. answer \in [says : {FALSE}, left : 0..CacheTTL]
  <2>1. answer \in [says : BOOLEAN, left : 0..CacheTTL] /\ answer.says = FALSE
    BY DEF TokensInv, TokensTypeOK
  <2> QED
    BY <2>1
<1>2. ASSUME NEW sub, NEW did, honoured' = [with |-> sub, at |-> "registry", did |-> did], sub # "dead key",
             UNCHANGED <<person, pullKey, tokens, answer, lost>>,
             sub = "node" => \A a \in did : a[2] = "pull" /\ NodeAllows(a[1]),
             sub # "node" => \A a \in did : \E k \in Nat : HeldLately(Scope[a[1]], k)
      PROVE  TokensInv'
  <2>1. honoured'.with = sub /\ honoured'.did = did
    BY <1>2
  <2>2. NodesOnlyPull' /\ RevokedKeyRefused'
    BY <1>2, <2>1 DEF NodesOnlyPull, RevokedKeyRefused
  <2>3. ASSUME sub = "person", NEW a \in did
        PROVE  \/ Scope[a[1]] \in OpenScopes \cup person.teams
               \/ Scope[a[1]] \in TeamScopes /\ lost[Scope[a[1]]] <= Lifetime
    <3>1. PICK k \in Nat : HeldLately(Scope[a[1]], k)
      BY <1>2, <2>3
    <3>2. lost \in [TeamScopes -> 0..Recently] /\ Recently \in Int /\ Lifetime \in Int
      BY TokensAssumption DEF TokensInv, TokensTypeOK, Recently
    <3> QED
      BY <3>1, <3>2 DEF HeldLately
  <2>4. RegistryStaleness'
    BY <1>2, <2>1, <2>3 DEF RegistryStaleness
  <2> QED
    BY <1>1, <1>2, <2>2, <2>4, HonouredKept
<1>3. CASE ForwardPullCredential(want)
  <2>1. PICK did : did = {want}
    OBVIOUS
  <2>2. \A a \in did : a[2] = "pull" /\ NodeAllows(a[1])
    BY <1>3, <2>1 DEF ForwardPullCredential
  <2> QED
    BY <1>2, <1>3, <2>1, <2>2 DEF ForwardPullCredential
<1>4. ASSUME NEW from, HandleAuthz(want, from)
      PROVE  TokensInv'
  <2>1. PICK did : did = {want} \cup {<<r, "pull">> : r \in from}
    OBVIOUS
  <2>2. ASSUME NEW a \in did PROVE CanAccessScope(a[1])
    <3>1. CASE a = want
      BY <1>4, <3>1 DEF HandleAuthz
    <3>2. ASSUME NEW r \in from, a = <<r, "pull">> PROVE CanAccessScope(a[1])
      <4>1. a[1] = r
        BY <3>2
      <4> QED
        BY <1>4, <4>1 DEF HandleAuthz
    <3> QED
      BY <2>1, <3>1, <3>2
  <2>3. \A a \in did : HeldLately(Scope[a[1]], 0)
    BY <2>2 DEF CanAccessScope, HeldLately
  <2>4. \A a \in did : \E k \in Nat : HeldLately(Scope[a[1]], k)
    BY <2>3
  <2> QED
    <3>1. PICK sub : sub = "person"
      OBVIOUS
    <3>2. honoured' = [with |-> sub, at |-> "registry", did |-> did] /\ UNCHANGED <<person, pullKey, tokens, answer, lost>>
      BY <1>4, <2>1, <3>1 DEF HandleAuthz
    <3>3. sub # "dead key" /\ sub # "node"
      BY <3>1
    <3> QED
      BY <1>2, <2>4, <3>2, <3>3
<1>5. ASSUME NEW from, NEW t \in tokens, ForwardBearer(t, want, from)
      PROVE  TokensInv'
  <2>1. PICK did : did = {want} \cup {<<r, "pull">> : r \in from}
    OBVIOUS
  <2>2. \A a \in did : a \in t.access
    BY <1>5, <2>1 DEF ForwardBearer
  <2>3. TokenSound(t) /\ t.aud = "registry"
    BY <1>5 DEF TokensInv, ForwardBearer
  <2>4. t.left \in Nat /\ (t.sub = "node" => \A a \in did : a[2] = "pull" /\ NodeAllows(a[1]))
        /\ (t.sub # "node" => \A a \in did : HeldLately(Scope[a[1]], t.left))
    BY <2>2, <2>3, TokensAssumption DEF TokenSound
  <2>5. honoured' = [with |-> t.sub, at |-> "registry", did |-> did] /\ UNCHANGED <<person, pullKey, tokens, answer, lost>>
    BY <1>5, <2>1 DEF ForwardBearer
  <2>6. t.sub # "dead key"
    BY <2>3 DEF TokenSound
  <2>7. t.sub # "node" => \A a \in did : \E k \in Nat : HeldLately(Scope[a[1]], k)
    BY <2>4
  <2> QED
    BY <1>2, <2>4, <2>5, <2>6, <2>7
<1> QED
  BY <1>3, <1>4, <1>5

\* What a person loses is lost from then on: tokens signed before run out within a lifetime.
LEMMA LossKept ==
  ASSUME TokensInv, UNCHANGED <<pullKey, tokens, answer, honoured>>,
         person' \in [active : BOOLEAN, teams : SUBSET person.teams, key : {"none", "live", "revoked"}],
         lost' \in [TeamScopes -> 0..Recently],
         \A t \in TeamScopes : IF t \in person.teams \ person'.teams THEN lost'[t] = 0 ELSE lost'[t] = lost[t]
  PROVE  TokensInv'
<1>1. person \in [active : BOOLEAN, teams : SUBSET TeamScopes, key : {"none", "live", "revoked"}]
  BY DEF TokensInv, TokensTypeOK
<1>2. person'.teams \subseteq person.teams
  OBVIOUS
<1>3. ASSUME NEW scope, NEW k \in Nat, k <= Lifetime, HeldLately(scope, k)
      PROVE  HeldLately(scope, k)'
  <2>1. CASE scope \in OpenScopes \cup person'.teams
    BY <2>1 DEF HeldLately
  <2>2. CASE scope \in TeamScopes /\ scope \in person.teams \ person'.teams
    <3>1. lost'[scope] = 0
      BY <2>2
    <3> QED
      BY <1>3, <2>2, <3>1 DEF HeldLately
  <2>3. CASE scope \in TeamScopes /\ scope \notin person.teams /\ lost[scope] + k <= Lifetime
    <3>1. lost'[scope] = lost[scope]
      BY <2>3
    <3> QED
      BY <2>3, <3>1 DEF HeldLately
  <2> QED
    BY <1>1, <1>3, <2>1, <2>2, <2>3 DEF HeldLately
<1>4. ASSUME NEW t \in tokens'
      PROVE  TokenSound(t)'
  <2>1. TokenSound(t)
    BY DEF TokensInv
  <2>2. t.left \in Nat
    BY <2>1, TokensAssumption DEF TokenSound
  <2> QED
    BY <1>3, <2>1, <2>2 DEF TokenSound
<1>5. TokensTypeOK'
  BY <1>1 DEF TokensInv, TokensTypeOK
<1>6. RegistryStaleness'
  <2>1. ASSUME honoured.with = "person", honoured.at = "registry", NEW a \in honoured.did
        PROVE  \/ Scope[a[1]] \in OpenScopes \cup person'.teams
               \/ Scope[a[1]] \in TeamScopes /\ lost'[Scope[a[1]]] <= Lifetime
    <3>1. \/ Scope[a[1]] \in OpenScopes \cup person.teams
          \/ Scope[a[1]] \in TeamScopes /\ lost[Scope[a[1]]] <= Lifetime
      BY <2>1 DEF TokensInv, RegistryStaleness
    <3>2. 0 <= Lifetime
      BY TokensAssumption
    <3>3. CASE Scope[a[1]] \in person.teams \ person'.teams
      <4>1. Scope[a[1]] \in TeamScopes /\ lost'[Scope[a[1]]] = 0
        BY <1>1, <3>3
      <4> QED
        BY <3>2, <4>1
    <3>4. CASE Scope[a[1]] \notin person.teams \ person'.teams
      <4>1. Scope[a[1]] \in TeamScopes => lost'[Scope[a[1]]] = lost[Scope[a[1]]]
        BY <3>4
      <4> QED
        BY <3>1, <3>4, <4>1
    <3> QED
      BY <3>3, <3>4
  <2> QED
    BY <2>1 DEF RegistryStaleness
<1> QED
  BY <1>4, <1>5, <1>6 DEF TokensInv, NodesOnlyPull, RevokedKeyRefused

\* Losing a team or the account starts the clock of each scope lost.
LEMMA AccountStep ==
  ASSUME TokensInv, CreateKey \/ RevokeKey \/ Deactivate \/ \E t \in TeamScopes : LeaveTeam(t)
  PROVE  TokensInv'
<1>1. /\ person \in [active : BOOLEAN, teams : SUBSET TeamScopes, key : {"none", "live", "revoked"}]
      /\ lost \in [TeamScopes -> 0..Recently] /\ 0 \in 0..Recently
  BY TokensAssumption DEF TokensInv, TokensTypeOK, Recently
<1>2. ASSUME NEW key \in {"live", "revoked"}, person' = [person EXCEPT !.key = key], UNCHANGED <<pullKey, tokens, answer, lost, honoured>>
      PROVE  TokensInv'
  <2>1. /\ person' \in [active : BOOLEAN, teams : SUBSET person.teams, key : {"none", "live", "revoked"}]
        /\ person'.teams = person.teams
    BY <1>1, <1>2
  <2> QED
    BY <1>1, <1>2, <2>1, LossKept
<1>3. ASSUME NEW t \in TeamScopes, LeaveTeam(t)
      PROVE  TokensInv'
  <2>1. PICK rest : rest = person.teams \ {t}
    OBVIOUS
  <2>2. person' = [person EXCEPT !.teams = rest] /\ lost' = [lost EXCEPT ![t] = 0] /\ t \in person.teams
        /\ UNCHANGED <<pullKey, tokens, answer, honoured>>
    BY <1>3, <2>1 DEF LeaveTeam
  <2>3. /\ person' \in [active : BOOLEAN, teams : SUBSET person.teams, key : {"none", "live", "revoked"}]
        /\ person'.teams = rest
    BY <1>1, <2>1, <2>2
  <2>4. lost' \in [TeamScopes -> 0..Recently]
    BY <1>1, <2>2
  <2>5. \A x \in TeamScopes : IF x \in person.teams \ person'.teams THEN lost'[x] = 0 ELSE lost'[x] = lost[x]
    BY <1>1, <2>1, <2>2, <2>3
  <2> QED
    BY <2>2, <2>3, <2>4, <2>5, LossKept
<1>4. CASE Deactivate
  <2>1. PICK key : key = IF person.key = "live" THEN "revoked" ELSE person.key
    OBVIOUS
  <2>2. /\ person' = [active |-> FALSE, teams |-> {}, key |-> key]
        /\ lost' = [x \in TeamScopes |-> IF x \in person.teams THEN 0 ELSE lost[x]]
        /\ UNCHANGED <<pullKey, tokens, answer, honoured>>
    BY <1>4, <2>1 DEF Deactivate
  <2>3. key \in {"none", "live", "revoked"}
    BY <1>1, <2>1
  <2>4. /\ person' \in [active : BOOLEAN, teams : SUBSET person.teams, key : {"none", "live", "revoked"}]
        /\ person'.teams = {}
    BY <2>2, <2>3
  <2>5. lost' \in [TeamScopes -> 0..Recently]
    BY <1>1, <2>2
  <2>6. \A x \in TeamScopes : IF x \in person.teams \ person'.teams THEN lost'[x] = 0 ELSE lost'[x] = lost[x]
    BY <2>2, <2>4
  <2> QED
    BY <2>2, <2>4, <2>5, <2>6, LossKept
<1> QED
  BY <1>2, <1>3, <1>4 DEF CreateKey, RevokeKey

\* A node's pull key is made or revoked.
LEMMA PullKeyStep ==
  ASSUME TokensInv, CreateRegistryPullCredential \/ RevokeRegistryPullCredential
  PROVE  TokensInv'
<1>1. pullKey' \in {"none", "live", "revoked"} /\ UNCHANGED <<person, tokens, answer, lost, honoured>>
  BY DEF CreateRegistryPullCredential, RevokeRegistryPullCredential
<1> QED
  BY <1>1 DEF TokensInv, TokensTypeOK, TokenSound, HeldLately, RegistryStaleness, NodesOnlyPull, RevokedKeyRefused

\* A tick takes from a token what it adds to the loss.
LEMMA TokensTickStep ==
  ASSUME TokensInv, TokensTick
  PROVE  TokensInv'
<1>1. /\ person \in [active : BOOLEAN, teams : SUBSET TeamScopes, key : {"none", "live", "revoked"}]
      /\ lost \in [TeamScopes -> 0..Recently] /\ answer \in [says : BOOLEAN, left : 0..CacheTTL]
      /\ answer.says = FALSE
  BY DEF TokensInv, TokensTypeOK
<1>2. Lifetime \in Nat \ {0} /\ Recently = Lifetime + 1 /\ CacheTTL \in Nat /\ SessionTTL \in Nat
  BY TokensAssumption DEF Recently
<1>3. lost' = [t \in TeamScopes |-> IF lost[t] < Recently THEN lost[t] + 1 ELSE lost[t]] /\ UNCHANGED <<person, pullKey>>
  BY DEF TokensTick
<1>4. lost' \in [TeamScopes -> 0..Recently] /\ \A t \in TeamScopes : lost'[t] <= lost[t] + 1
  BY <1>1, <1>2, <1>3
<1>5. answer' \in [says : {FALSE}, left : 0..CacheTTL]
  <2>1. CASE answer.left <= 1
    <3>1. answer' = [says |-> FALSE, left |-> 0]
      BY <2>1 DEF TokensTick, NoAnswer
    <3> QED
      BY <1>2, <3>1
  <2>2. CASE ~(answer.left <= 1)
    <3>1. PICK n : n = answer.left - 1
      OBVIOUS
    <3>2. n \in 0..CacheTTL
      BY <1>1, <1>2, <2>2, <3>1
    <3>3. answer' = [answer EXCEPT !.left = n]
      BY <2>2, <3>1 DEF TokensTick
    <3>4. answer \in [says : {FALSE}, left : 0..CacheTTL]
      BY <1>1
    <3>5. PICK old : old = answer
      OBVIOUS
    <3>6. [old EXCEPT !.left = n] \in [says : {FALSE}, left : 0..CacheTTL]
      BY <3>2, <3>4, <3>5
    <3> QED
      BY <3>3, <3>5, <3>6
  <2> QED
    BY <2>1, <2>2
<1>6. ASSUME NEW t \in tokens'
      PROVE  TokenSound(t)'
  <2>1. PICK s \in tokens : VerifyAccess(s) /\ t = [s EXCEPT !.left = @ - 1, !.root = IF @ = 0 THEN 0 ELSE @ - 1]
    BY DEF TokensTick
  <2>2. TokenSound(s)
    BY DEF TokensInv
  <2>3. s = [aud |-> s.aud, sub |-> s.sub, access |-> s.access, left |-> s.left, root |-> s.root]
    BY <2>2 DEF TokenSound
  <2>4. s.left > 1 /\ s.left \in Nat /\ s.root \in Nat /\ s.left <= s.root /\ (s.left <= SessionTTL \/ s.left <= Lifetime)
    BY <1>2, <2>1, <2>2 DEF TokenSound, VerifyAccess
  <2>5. t = [aud |-> s.aud, sub |-> s.sub, access |-> s.access, left |-> s.left - 1, root |-> s.root - 1]
    <3>1. PICK w : w = [s EXCEPT !.left = @ - 1]
      OBVIOUS
    <3>2. w = [aud |-> s.aud, sub |-> s.sub, access |-> s.access, left |-> s.left - 1, root |-> s.root]
      BY <2>3, <3>1
    <3>3. PICK z : z = [w EXCEPT !.root = IF @ = 0 THEN 0 ELSE @ - 1]
      OBVIOUS
    <3>4. z = [aud |-> s.aud, sub |-> s.sub, access |-> s.access, left |-> s.left - 1, root |-> s.root - 1]
      <4>1. s.root # 0
        BY <2>4
      <4> QED
        BY <3>2, <3>3, <4>1
    <3>5. t = z
      BY <2>1, <3>1, <3>3
    <3> QED
      BY <3>4, <3>5
  <2>6. /\ t.aud = s.aud /\ t.sub = s.sub /\ t.access = s.access /\ t.left = s.left - 1 /\ t.root = s.root - 1
        /\ t = [aud |-> t.aud, sub |-> t.sub, access |-> t.access, left |-> t.left, root |-> t.root]
    BY <2>5
  <2>7. t.left \in 1..SessionTTL \cup 1..Lifetime /\ t.root \in Nat /\ t.left <= t.root /\ (s.left <= Lifetime => t.left <= Lifetime)
    BY <1>2, <2>4, <2>6
  <2>8. ASSUME NEW scope, HeldLately(scope, s.left)
        PROVE  HeldLately(scope, t.left)'
    <3>1. CASE scope \in OpenScopes \cup person.teams
      BY <1>3, <3>1 DEF HeldLately
    <3>2. CASE scope \in TeamScopes /\ lost[scope] + s.left <= Lifetime
      <4>1. lost'[scope] + t.left <= Lifetime
        <5>1. lost'[scope] <= lost[scope] + 1 /\ lost'[scope] \in Int /\ lost[scope] \in Int
          BY <1>1, <1>4, <3>2
        <5> QED
          BY <1>2, <2>4, <2>6, <3>2, <5>1
      <4> QED
        BY <3>2, <4>1 DEF HeldLately
    <3> QED
      BY <2>8, <3>1, <3>2 DEF HeldLately
  <2> QED
    BY <2>2, <2>6, <2>7, <2>8 DEF TokenSound
<1>7. honoured' = Nothing
  BY DEF TokensTick
<1>8. TokensTypeOK'
  <2>1. \A t \in tokens' : t.left \in 1..SessionTTL \cup 1..Lifetime /\ t.access \subseteq Accesses
    BY <1>6 DEF TokenSound
  <2>2. pullKey' \in {"none", "live", "revoked"} /\ person' = person
    BY <1>3 DEF TokensInv, TokensTypeOK
  <2>3. answer' \in [says : BOOLEAN, left : 0..CacheTTL]
    BY <1>5
  <2> QED
    BY <1>1, <1>4, <2>1, <2>2, <2>3 DEF TokensTypeOK
<1>9. RegistryStaleness' /\ NodesOnlyPull' /\ RevokedKeyRefused'
  BY <1>7 DEF RegistryStaleness, NodesOnlyPull, RevokedKeyRefused, Nothing
<1> QED
  BY <1>5, <1>6, <1>8, <1>9 DEF TokensInv

\* What was taken away stops working within the bounds the services give.
THEOREM TokensAreBounded == TokensSpec => []TokensBounded
<1>1. TokensInv => TokensBounded
  BY DEF TokensInv, TokensBounded, ExchangeNeverOutlives, TokenSound
<1>2. TokensInv /\ [TokensNext]_tokenVars => TokensInv'
  <2> SUFFICES ASSUME TokensInv, [TokensNext]_tokenVars PROVE TokensInv'
    OBVIOUS
  <2>1. CASE UNCHANGED tokenVars
    BY <2>1 DEF tokenVars, TokensInv, TokensTypeOK, TokenSound, HeldLately, RegistryStaleness, NodesOnlyPull, RevokedKeyRefused
  <2>2. CASE TokensNext
    BY <2>2, IssueStep, ServiceStep, RegistryStep, AccountStep, PullKeyStep, TokensTickStep DEF TokensNext
  <2> QED
    BY <2>1, <2>2
<1> QED
  BY <1>1, <1>2, TokensInitially, PTL DEF TokensSpec

-----------------------------------------------------------------------------
\* The login lockout.

\* The doubling of locks starts at its base and never leaves 0..LockMax.
LEMMA DoubledBound ==
  ASSUME NEW d \in 0..LockMax
  PROVE  Doubled(d) \in 0..LockMax /\ Doubled(d) >= d
BY LockoutAssumption DEF Doubled

\* The recursion has a solution: its finite approximations exist and agree with one another.
LEMMA BackoffExists ==
  \E g : g = [i \in Nat |-> IF i = 0 THEN LockBase ELSE Doubled(g[i - 1])]
<1> DEFINE A(n) == {f \in [0..n -> 0..LockMax] : f[0] = LockBase /\ \A i \in 1..n : f[i] = Doubled(f[i - 1])}
<1>1. LockBase \in 0..LockMax /\ LockMax \in Nat
  BY LockoutAssumption
<1>2. \A n \in Nat : A(n) # {}
  <2> DEFINE Bad == {n \in Nat : A(n) = {}}
  <2>1. SUFFICES ASSUME Bad # {} PROVE FALSE
    OBVIOUS
  <2>2. PICK n \in Bad : \A m \in Bad : n <= m
    <3>1. Bad \subseteq Nat
      OBVIOUS
    <3> HIDE DEF Bad
    <3> QED
      BY <2>1, <3>1, SmallestExists
  <2>3. n \in Nat /\ A(n) = {}
    BY <2>2
  <2>4. n # 0
    <3>1. [i \in 0..0 |-> LockBase] \in A(0)
      BY <1>1
    <3> QED
      BY <2>3, <3>1
  <2>5. n - 1 \in Nat /\ n - 1 \notin Bad
    <3>1. n - 1 \in Nat /\ ~(n <= n - 1)
      BY <2>3, <2>4
    <3> HIDE DEF Bad
    <3> QED
      BY <2>2, <3>1
  <2>6. PICK f : f \in A(n - 1)
    BY <2>5
  <2>7. f \in [0..(n - 1) -> 0..LockMax] /\ f[0] = LockBase /\ \A i \in 1..(n - 1) : f[i] = Doubled(f[i - 1])
    BY <2>6
  <2>8. PICK g : g = [i \in 0..n |-> IF i = n THEN Doubled(f[n - 1]) ELSE f[i]]
    OBVIOUS
  <2>9. g \in [0..n -> 0..LockMax]
    <3>1. Doubled(f[n - 1]) \in 0..LockMax
      BY <2>5, <2>7, DoubledBound
    <3>2. \A i \in 0..n : i # n => f[i] \in 0..LockMax
      BY <2>3, <2>7
    <3> QED
      BY <2>8, <3>1, <3>2
  <2>10. g[0] = LockBase
    BY <2>3, <2>4, <2>7, <2>8
  <2>11. ASSUME NEW i \in 1..n PROVE g[i] = Doubled(g[i - 1])
    <3>1. g[i - 1] = f[i - 1]
      BY <2>3, <2>8
    <3>2. CASE i = n
      BY <2>8, <3>1, <3>2
    <3>3. CASE i # n
      <4>1. g[i] = f[i] /\ i \in 1..(n - 1)
        BY <2>3, <2>8, <3>3
      <4> QED
        BY <2>7, <3>1, <4>1
    <3> QED
      BY <3>2, <3>3
  <2>12. g \in A(n)
    BY <2>9, <2>10, <2>11
  <2> QED
    BY <2>3, <2>12
<1>3. ASSUME NEW n \in Nat, NEW m \in Nat, n <= m, NEW f \in A(n), NEW g \in A(m)
      PROVE  f[n] = g[n]
  <2> DEFINE Bad == {i \in 0..n : f[i] # g[i]}
  <2>1. SUFFICES ASSUME Bad # {} PROVE FALSE
    BY SMTT(20), <1>3
  <2>2. PICK i \in Bad : \A j \in Bad : i <= j
    <3>1. Bad \subseteq Nat
      OBVIOUS
    <3> HIDE DEF Bad
    <3> QED
      BY <2>1, <3>1, SmallestExists
  <2>3. i \in 0..n /\ f[i] # g[i] /\ i # 0
    BY <2>2
  <2>4. i - 1 \in 0..n /\ i - 1 \notin Bad
    BY <2>2, <2>3
  <2>5. f[i - 1] = g[i - 1]
    BY <2>4
  <2>6. f[i] = Doubled(f[i - 1]) /\ g[i] = Doubled(g[i - 1])
    BY SMTT(20), <1>3, <2>3
  <2> QED
    BY <2>3, <2>5, <2>6
<1> DEFINE chosen(n) == CHOOSE f : f \in A(n)
<1>4. \A n \in Nat : chosen(n) \in A(n)
  <2> HIDE DEF A
  <2> QED
    BY <1>2
<1> HIDE DEF chosen
<1>5. PICK F : F = [n \in Nat |-> chosen(n)[n]]
  OBVIOUS
<1>6. F[0] = LockBase
  BY <1>4, <1>5
<1>7. ASSUME NEW n \in Nat, n # 0 PROVE F[n] = Doubled(F[n - 1])
  <2>1. n - 1 \in Nat /\ chosen(n) \in A(n) /\ chosen(n - 1) \in A(n - 1)
    <3>1. n - 1 \in Nat
      BY <1>7
    <3> HIDE DEF A
    <3> QED
      BY <1>4, <3>1
  <2>2. chosen(n)[n] = Doubled(chosen(n)[n - 1])
    BY <1>7, <2>1
  <2>3. chosen(n - 1)[n - 1] = chosen(n)[n - 1]
    <3> HIDE DEF A
    <3> QED
      BY <1>3, <2>1
  <2> QED
    BY <1>5, <2>1, <2>2, <2>3
<1>8. F = [i \in Nat |-> IF i = 0 THEN LockBase ELSE Doubled(F[i - 1])]
  BY <1>5, <1>6, <1>7
<1> QED
  BY <1>8

\* So Backoff satisfies its own recursion.
LEMMA BackoffStep ==
  /\ Backoff[0] = LockBase
  /\ \A n \in Nat \ {0} : Backoff[n] = Doubled(Backoff[n - 1])
<1> DEFINE IsBackoff(g) == g = [i \in Nat |-> IF i = 0 THEN LockBase ELSE Doubled(g[i - 1])]
<1>1. \E g : IsBackoff(g)
  BY BackoffExists
<1>2. Backoff = CHOOSE g : IsBackoff(g)
  BY DEF Backoff
<1>3. IsBackoff(Backoff)
  <2> HIDE DEF IsBackoff
  <2> QED
    BY <1>1, <1>2
<1> QED
  BY <1>3

\* By the least failure count whose lock is out of range.
LEMMA BackoffBound == \A n \in Nat : Backoff[n] \in 0..LockMax
<1> DEFINE Bad == {n \in Nat : Backoff[n] \notin 0..LockMax}
<1>1. SUFFICES ASSUME Bad # {} PROVE FALSE
  OBVIOUS
<1>2. PICK n \in Bad : \A m \in Bad : n <= m
  <2>1. Bad \subseteq Nat
    OBVIOUS
  <2> HIDE DEF Bad
  <2> QED
    BY <1>1, <2>1, SmallestExists
<1>3. n \in Nat /\ Backoff[n] \notin 0..LockMax
  BY <1>2
<1>4. n # 0
  BY <1>3, BackoffStep, LockoutAssumption
<1>5. n - 1 \in Nat /\ n - 1 \notin Bad
  BY <1>2, <1>3, <1>4
<1>6. Backoff[n - 1] \in 0..LockMax /\ Backoff[n] = Doubled(Backoff[n - 1])
  BY <1>3, <1>4, <1>5, BackoffStep
<1> QED
  BY <1>3, <1>6, DoubledBound

\* A further failure locks for no less, and never for more than the cap.
LEMMA LockoutGrows ==
  ASSUME NEW n \in Nat
  PROVE  LockoutDuration(n) \in 0..LockMax /\ LockoutDuration(n + 1) >= LockoutDuration(n)
<1>1. LockMax \in Nat
  BY LockoutAssumption
<1>2. LockoutDuration(n) \in 0..LockMax /\ LockoutDuration(n + 1) \in 0..LockMax
  BY <1>1, BackoffBound DEF LockoutDuration
<1>3. CASE n <= 2
  BY <1>2, <1>3 DEF LockoutDuration
<1>4. CASE n > 2
  <2>1. n - 3 \in Nat /\ n - 2 \in Nat \ {0} /\ (n + 1) - 3 = n - 2 /\ (n - 2) - 1 = n - 3
    BY <1>4
  <2>2. Backoff[n - 2] = Doubled(Backoff[n - 3])
    BY <2>1, BackoffStep
  <2>3. Backoff[n - 2] >= Backoff[n - 3]
    BY <2>1, <2>2, BackoffBound, DoubledBound
  <2> QED
    BY <1>2, <1>4, <2>1, <2>3 DEF LockoutDuration
<1> QED
  BY <1>3, <1>4

\* While fewer logins are under way than may be, so are those of any one address.
LEMMA UnderWayBound ==
  ASSUME DOMAIN logins = Addresses, NEW a \in Addresses, logins[a] \in 0..MaxLogins, Cardinality(UnderWay) < MaxLogins
  PROVE  logins[a] < MaxLogins
<1>1. SUFFICES ASSUME logins[a] = MaxLogins PROVE FALSE
  BY LockoutAssumption
<1>2. MaxLogins \in Nat /\ IsFiniteSet(Addresses)
  BY LockoutAssumption
<1>3. IsFiniteSet(UnderWay) /\ Cardinality(UnderWay) \in Nat
  <2>1. IsFiniteSet(Addresses \X (1..MaxLogins))
    <3>1. IsFiniteSet(1..MaxLogins)
      BY <1>2, FS_Interval
    <3> QED
      BY <1>2, <3>1, FS_Product
  <2>2. UnderWay \in SUBSET (Addresses \X (1..MaxLogins))
    BY DEF UnderWay
  <2> QED
    BY <2>1, <2>2, FS_Subset, FS_CardinalityType
<1>4. PICK second : second = [w \in UnderWay |-> w[2]]
  OBVIOUS
<1> DEFINE numbers == {second[w] : w \in UnderWay}
<1>5. IsFiniteSet(numbers) /\ Cardinality(numbers) <= Cardinality(UnderWay)
  BY <1>3, <1>4, ImageBound
<1>6. 1..MaxLogins \in SUBSET numbers
  <2> SUFFICES ASSUME NEW i \in 1..MaxLogins PROVE i \in numbers
    OBVIOUS
  <2>1. <<a, i>> \in UnderWay
    BY <1>1, <1>2 DEF UnderWay
  <2> QED
    BY <1>4, <2>1
<1>7. Cardinality(1..MaxLogins) = MaxLogins
  BY <1>2, FS_Interval
<1>8. Cardinality(numbers) \in Nat
  <2> HIDE DEF numbers
  <2> QED
    BY <1>5, FS_CardinalityType
<1>9. MaxLogins <= Cardinality(numbers)
  <2> HIDE DEF numbers
  <2>1. Cardinality(1..MaxLogins) <= Cardinality(numbers)
    BY <1>5, <1>6, FS_Subset
  <2> QED
    BY <1>7, <2>1
<1> HIDE DEF numbers
<1> QED
  BY <1>2, <1>3, <1>5, <1>8, <1>9


\* A bucket counts failures, locks for no longer than they earn, and was seen at some time.
BucketSound(b) ==
    \/ b = NoBucket
    \/ /\ b = [failures |-> b.failures, lock |-> b.lock, idle |-> b.idle]
       /\ b.failures \in 0..MaxFailures /\ b.lock \in 0..LockoutDuration(b.failures) /\ b.idle \in 0..(IdleTTL + 1)
LockoutInv ==
    /\ DOMAIN buckets = Addresses /\ \A a \in Addresses : BucketSound(buckets[a])
    /\ Cardinality(Present(buckets)) <= MaxEntries
    /\ logins \in [Addresses -> 0..MaxLogins] /\ unpruned \in 0..PruneInterval

\* What each bucket is implies the run's type invariant.
LEMMA LockoutTyped == LockoutInv => LockoutTypeOK
<1> SUFFICES ASSUME LockoutInv PROVE LockoutTypeOK
  OBVIOUS
<1>1. LockMax \in Nat /\ MaxFailures \in Nat
  BY LockoutAssumption
<1>2. ASSUME NEW a \in Addresses PROVE buckets[a].failures \in 0..MaxFailures /\ buckets[a].lock \in 0..LockMax
  <2>1. CASE buckets[a] = NoBucket
    BY <1>1, <2>1 DEF NoBucket
  <2>2. CASE buckets[a] # NoBucket
    <3>1. buckets[a].failures \in 0..MaxFailures /\ buckets[a].lock \in 0..LockoutDuration(buckets[a].failures)
      BY <2>2 DEF LockoutInv, BucketSound
    <3>2. buckets[a].failures \in Nat
      BY <1>1, <3>1
    <3>3. LockoutDuration(buckets[a].failures) \in 0..LockMax
      BY <3>2, LockoutGrows
    <3> QED
      BY <1>1, <3>1, <3>3
  <2> QED
    BY <2>1, <2>2
<1> QED
  BY <1>2 DEF LockoutInv, LockoutTypeOK

\* What pruning leaves: every bucket, or all but some that lock nobody.
LEMMA PrunedKeeps ==
  ASSUME LockoutInv
  PROVE  /\ DOMAIN Pruned = Addresses /\ PruneClock \in 0..PruneInterval
         /\ \A a \in Addresses : /\ BucketSound(Pruned[a])
                                 /\ Pruned[a] = buckets[a] \/ (Pruned[a] = NoBucket /\ ~Locked(buckets, a))
<1>1. PruneInterval \in Nat
  BY LockoutAssumption
<1> QED
  BY <1>1 DEF LockoutInv, Pruned, PruneClock, BucketSound

\* Fewer buckets count for no more.
LEMMA PresentShrinks ==
  ASSUME NEW b, NEW c, \A a \in Addresses : c[a] # NoBucket => b[a] # NoBucket
  PROVE  Cardinality(Present(c)) <= Cardinality(Present(b)) /\ IsFiniteSet(Present(b))
         /\ Cardinality(Present(b)) \in Nat /\ Cardinality(Present(c)) \in Nat
<1>1. Present(c) \in SUBSET Present(b) /\ Present(b) \in SUBSET Addresses /\ Present(c) \in SUBSET Addresses
  BY DEF Present
<1>2. IsFiniteSet(Present(b)) /\ IsFiniteSet(Present(c))
  BY <1>1, LockoutAssumption, FS_Subset
<1>3. Cardinality(Present(b)) \in Nat /\ Cardinality(Present(c)) \in Nat
  BY <1>2, FS_CardinalityType
<1> QED
  BY <1>1, <1>2, <1>3, FS_Subset

\* A step that only drops or refreshes buckets keeps the tracker's size.
LEMMA BucketsKept ==
  ASSUME LockoutInv, DOMAIN buckets' = Addresses, \A a \in Addresses : BucketSound(buckets'[a]),
         \A a \in Addresses : buckets'[a] # NoBucket => buckets[a] # NoBucket,
         logins' \in [Addresses -> 0..MaxLogins], unpruned' \in 0..PruneInterval
  PROVE  LockoutInv'
<1>1. Cardinality(Present(buckets')) <= Cardinality(Present(buckets)) /\ Cardinality(Present(buckets)) \in Nat
      /\ Cardinality(Present(buckets')) \in Nat
  BY PresentShrinks
<1>2. Cardinality(Present(buckets'))  <= MaxEntries
  BY <1>1, LockoutAssumption DEF LockoutInv
<1>3. \A a \in Addresses : BucketSound(buckets[a])'
  BY DEF BucketSound
<1> QED
  BY <1>2, <1>3 DEF LockoutInv, Present

\* At the start the tracker is empty.
LEMMA LockoutInitially == LockoutInit => LockoutInv
<1> SUFFICES ASSUME LockoutInit PROVE LockoutInv
  OBVIOUS
<1>1. Present(buckets) = {}
  BY DEF LockoutInit, Present
<1>2. PruneInterval \in Nat /\ MaxLogins \in Nat /\ MaxEntries \in Nat
  BY LockoutAssumption
<1> QED
  BY <1>1, <1>2, FS_EmptySet DEF LockoutInit, LockoutInv, BucketSound

\* Asking refreshes a bucket and shortens no lock.
LEMMA AllowStep ==
  ASSUME LockoutInv, NEW a \in Addresses, Allow(a)
  PROVE  /\ LockoutInv'
         /\ \A c \in Addresses : /\ buckets'[c] # NoBucket => buckets'[c].lock = buckets[c].lock
                                 /\ Locked(buckets, c) => buckets'[c] # NoBucket
<1> DEFINE b == Pruned
<1>1. /\ buckets' = IF b[a] = NoBucket THEN b ELSE [b EXCEPT ![a].idle = 0]
      /\ logins' = IF Locked(b, a) THEN logins ELSE [logins EXCEPT ![a] = @ + 1]
      /\ unpruned' = PruneClock
  BY DEF Allow
<1>2. /\ DOMAIN b = Addresses /\ PruneClock \in 0..PruneInterval
      /\ \A c \in Addresses : BucketSound(b[c]) /\ (b[c] = buckets[c] \/ (b[c] = NoBucket /\ ~Locked(buckets, c)))
  BY PrunedKeeps
<1>3. logins' \in [Addresses -> 0..MaxLogins]
  <2>1. logins[a] < MaxLogins
    BY UnderWayBound DEF LockoutInv, Allow
  <2> QED
    BY <1>1, <2>1, LockoutAssumption DEF LockoutInv
<1> HIDE DEF b
<1>4. CASE b[a] = NoBucket
  <2>1. buckets' = b
    BY <1>1, <1>4
  <2>2. LockoutInv'
    BY <1>1, <1>2, <1>3, <2>1, BucketsKept
  <2> QED
    BY <1>2, <2>1, <2>2 DEF Locked, NoBucket
<1>5. CASE b[a] # NoBucket
  <2>1. b[a] = [failures |-> b[a].failures, lock |-> b[a].lock, idle |-> b[a].idle]
    BY <1>2, <1>5 DEF BucketSound
  <2>2. PICK seen1 : seen1 = [b[a] EXCEPT !.idle = 0]
    OBVIOUS
  <2>3. seen1 = [failures |-> b[a].failures, lock |-> b[a].lock, idle |-> 0]
    BY <2>1, <2>2
  <2>4. buckets' = [b EXCEPT ![a] = seen1]
    BY <1>1, <1>5, <2>2
  <2>5. seen1.failures = b[a].failures /\ seen1.lock = b[a].lock /\ seen1.idle = 0 /\ seen1 # NoBucket
    BY <2>3 DEF NoBucket
  <2>6. BucketSound(seen1)
    BY <1>2, <1>5, <2>3, <2>5, LockoutAssumption DEF BucketSound
  <2>7. DOMAIN buckets' = Addresses /\ \A c \in Addresses : BucketSound(buckets'[c])
    BY <1>2, <2>4, <2>6
  <2>8. \A c \in Addresses : buckets'[c] # NoBucket => b[c] # NoBucket /\ b[c] = buckets[c] /\ buckets'[c].lock = b[c].lock
    BY <1>2, <1>5, <2>4, <2>5
  <2>9. LockoutInv'
    BY <1>1, <1>2, <1>3, <2>7, <2>8, BucketsKept
  <2>10. \A c \in Addresses : Locked(buckets, c) => buckets'[c] # NoBucket
    BY <1>2, <2>4, <2>5 DEF Locked, NoBucket
  <2> QED
    BY <2>8, <2>9, <2>10
<1> QED
  BY <1>4, <1>5

\* A table cut down to size holds what it held, and gives up a lock only for other locks.
LEMMA EnforcedKeeps ==
  ASSUME NEW b, DOMAIN b = Addresses, NEW c \in EnforceMax(b)
  PROVE  /\ DOMAIN c = Addresses /\ \A a \in Addresses : c[a] = b[a] \/ c[a] = NoBucket
         /\ Cardinality(Present(c)) <= MaxEntries
         /\ \A a \in Present(b) : c[a] = NoBucket /\ Locked(b, a) => \A x \in Present(c) : Locked(c, x)
<1>1. CASE Cardinality(Present(b)) <= MaxEntries
  BY <1>1 DEF EnforceMax, Present
<1>2. CASE ~(Cardinality(Present(b)) <= MaxEntries)
  <2> DEFINE kept == MaxEntries - EvictionBatch
  <2>1. PICK k \in kSubset(kept, Present(b)) : /\ \A x \in k, y \in Present(b) \ k : ~Sooner(b, x, y)
                                               /\ c = [a \in Addresses |-> IF a \in k THEN b[a] ELSE NoBucket]
    BY <1>2 DEF EnforceMax
  <2>2. k \in SUBSET Present(b) /\ Cardinality(k) = kept
    BY <2>1 DEF kSubset
  <2>3. kept \in Nat /\ kept <= MaxEntries /\ MaxEntries \in Nat
    BY LockoutAssumption
  <2>4. IsFiniteSet(k)
    <3>1. Present(b) \in SUBSET Addresses
      BY DEF Present
    <3> QED
      BY <2>2, <3>1, LockoutAssumption, FS_Subset
  <2>5. Present(c) \in SUBSET k
    BY <2>1 DEF Present
  <2>6. Cardinality(Present(c)) <= Cardinality(k) /\ Cardinality(Present(c)) \in Nat
    BY <2>4, <2>5, FS_Subset, FS_CardinalityType
  <2>7. Cardinality(Present(c)) <= MaxEntries
    BY <2>2, <2>3, <2>6
  <2>8. ASSUME NEW a \in Present(b), c[a] = NoBucket, Locked(b, a), NEW x \in Present(c) PROVE Locked(c, x)
    <3>1. a \notin k /\ x \in k /\ c[x] = b[x]
      BY <2>1, <2>5, <2>8 DEF Present
    <3>2. ~Sooner(b, x, a)
      BY <2>1, <3>1
    <3> QED
      BY <2>8, <3>1, <3>2 DEF Sooner, Locked
  <2> QED
    BY <2>1, <2>7, <2>8
<1> QED
  BY <1>1, <1>2

\* A failure locks its address for no less than before, and the tracker sheds no lock before the rest.
LEMMA FailureStep ==
  ASSUME LockoutInv, NEW a \in Addresses, RecordFailure(a)
  PROVE  /\ LockoutInv'
         /\ \A c \in Addresses : buckets[c] # NoBucket /\ buckets'[c] # NoBucket => buckets'[c].lock >= buckets[c].lock
         /\ logins'[a] # logins[a]
         /\ \A c \in Addresses \ {a} : Locked(buckets, c) /\ buckets'[c] = NoBucket =>
                                          \A x \in Present(buckets') : Locked(buckets', x)
<1> DEFINE b == Pruned
<1>1. /\ DOMAIN b = Addresses /\ PruneClock \in 0..PruneInterval
      /\ \A c \in Addresses : BucketSound(b[c]) /\ (b[c] = buckets[c] \/ (b[c] = NoBucket /\ ~Locked(buckets, c)))
  BY PrunedKeeps
<1>2. PICK n : n = b[a].failures + 1
  OBVIOUS
<1>3. PICK failed : failed = [failures |-> n, lock |-> LockoutDuration(n), idle |-> 0]
  OBVIOUS
<1>4. /\ logins[a] > 0 /\ n <= MaxFailures /\ logins' = [logins EXCEPT ![a] = @ - 1]
      /\ buckets' \in EnforceMax([b EXCEPT ![a] = failed]) /\ unpruned' = PruneClock
  BY <1>2, <1>3 DEF RecordFailure
<1> HIDE DEF b
<1>5. MaxFailures \in Nat /\ MaxLogins \in Nat /\ IdleTTL \in Nat /\ LockMax \in Nat
  BY LockoutAssumption
<1>6. b[a].failures \in 0..MaxFailures /\ b[a].lock \in 0..LockoutDuration(b[a].failures)
  <2>1. CASE b[a] = NoBucket
    <3>1. LockoutDuration(0) = 0
      BY DEF LockoutDuration
    <3> QED
      BY <1>5, <2>1, <3>1 DEF NoBucket
  <2>2. CASE b[a] # NoBucket
    BY <1>1, <2>2 DEF BucketSound
  <2> QED
    BY <2>1, <2>2
<1>7. n \in 0..MaxFailures /\ LockoutDuration(n) \in 0..LockMax /\ LockoutDuration(n) >= b[a].lock
  <2>1. b[a].failures \in Nat /\ n \in 0..MaxFailures /\ n \in Nat
    BY <1>2, <1>4, <1>5, <1>6
  <2>2. /\ LockoutDuration(b[a].failures) \in 0..LockMax /\ LockoutDuration(n) \in 0..LockMax
        /\ LockoutDuration(n) >= LockoutDuration(b[a].failures)
    BY <1>2, <2>1, LockoutGrows
  <2> QED
    BY <1>5, <1>6, <2>1, <2>2
<1>8. failed.failures = n /\ failed.lock = LockoutDuration(n) /\ failed.idle = 0 /\ failed # NoBucket /\ BucketSound(failed)
  BY <1>3, <1>5, <1>7 DEF BucketSound, NoBucket
<1>9. PICK full : full = [b EXCEPT ![a] = failed]
  OBVIOUS
<1>10. DOMAIN full = Addresses /\ full[a] = failed /\ \A c \in Addresses \ {a} : full[c] = b[c]
  BY <1>1, <1>9
<1>11. buckets' \in EnforceMax(full)
  BY <1>4, <1>9
<1>12. /\ DOMAIN buckets' = Addresses /\ \A c \in Addresses : buckets'[c] = full[c] \/ buckets'[c] = NoBucket
       /\ Cardinality(Present(buckets')) <= MaxEntries
       /\ \A c \in Present(full) : buckets'[c] = NoBucket /\ Locked(full, c) => \A x \in Present(buckets') : Locked(buckets', x)
  BY <1>10, <1>11, EnforcedKeeps
<1>13. \A c \in Addresses : BucketSound(buckets'[c])
  BY <1>1, <1>8, <1>10, <1>12 DEF BucketSound
<1>14. logins' \in [Addresses -> 0..MaxLogins] /\ logins'[a] # logins[a]
  BY <1>4, <1>5 DEF LockoutInv
<1>15. LockoutInv'
  <2>1. \A c \in Addresses : BucketSound(buckets[c])'
    BY <1>13 DEF BucketSound
  <2>2. (Cardinality(Present(buckets)) <= MaxEntries)'
    BY <1>12 DEF Present
  <2> QED
    BY <1>1, <1>4, <1>12, <1>14, <2>1, <2>2 DEF LockoutInv
<1>16. ASSUME NEW c \in Addresses, buckets[c] # NoBucket, buckets'[c] # NoBucket
       PROVE  buckets'[c].lock >= buckets[c].lock
  <2>1. buckets[c].lock \in Nat
    <3>1. LockoutTypeOK
      BY LockoutTyped
    <3> QED
      BY <1>5, <3>1 DEF LockoutTypeOK
  <2>2. buckets'[c] = full[c]
    BY <1>12, <1>16
  <2>3. CASE c = a
    <3>1. CASE b[a] = buckets[a]
      BY <1>7, <1>8, <1>10, <2>2, <2>3, <3>1
    <3>2. CASE ~Locked(buckets, a)
      BY <1>7, <1>8, <1>10, <2>1, <2>2, <2>3, <3>2 DEF Locked
    <3> QED
      BY <1>1, <3>1, <3>2
  <2>4. CASE c # a
    <3>1. b[c] = buckets[c]
      BY <1>1, <1>10, <1>16, <2>2, <2>4
    <3> QED
      BY <1>10, <2>1, <2>2, <2>4, <3>1
  <2> QED
    BY <2>3, <2>4
<1>17. ASSUME NEW c \in Addresses \ {a}, Locked(buckets, c), buckets'[c] = NoBucket, NEW x \in Present(buckets')
       PROVE  Locked(buckets', x)
  <2>1. full[c] = buckets[c]
    BY <1>1, <1>10, <1>17
  <2>2. Locked(full, c) /\ c \in Present(full)
    BY <1>17, <2>1 DEF Locked, Present, NoBucket
  <2> QED
    BY <1>12, <1>17, <2>2
<1> QED
  BY <1>14, <1>15, <1>16, <1>17

\* A success forgets its own address only.
LEMMA SuccessStep ==
  ASSUME LockoutInv, NEW a \in Addresses, RecordSuccess(a)
  PROVE  /\ LockoutInv'
         /\ \A c \in Addresses : buckets'[c] # NoBucket => buckets'[c] = buckets[c]
         /\ logins'[a] # logins[a]
         /\ \A c \in Addresses \ {a} : Locked(buckets, c) => buckets'[c] # NoBucket
<1> DEFINE b == Pruned
<1>1. /\ DOMAIN b = Addresses /\ PruneClock \in 0..PruneInterval
      /\ \A c \in Addresses : BucketSound(b[c]) /\ (b[c] = buckets[c] \/ (b[c] = NoBucket /\ ~Locked(buckets, c)))
  BY PrunedKeeps
<1>2. logins[a] > 0 /\ logins' = [logins EXCEPT ![a] = @ - 1] /\ buckets' = [b EXCEPT ![a] = NoBucket] /\ unpruned' = PruneClock
  BY DEF RecordSuccess
<1> HIDE DEF b
<1>3. logins' \in [Addresses -> 0..MaxLogins] /\ logins'[a] # logins[a]
  BY <1>2, LockoutAssumption DEF LockoutInv
<1>4. \A c \in Addresses : buckets'[c] # NoBucket => buckets'[c] = buckets[c]
  BY <1>1, <1>2
<1>5. DOMAIN buckets' = Addresses /\ \A c \in Addresses : BucketSound(buckets'[c])
  <2>1. BucketSound(NoBucket)
    BY DEF BucketSound
  <2> QED
    BY <1>1, <1>2, <2>1
<1>6. LockoutInv'
  BY <1>1, <1>2, <1>3, <1>4, <1>5, BucketsKept
<1>7. \A c \in Addresses \ {a} : Locked(buckets, c) => buckets'[c] # NoBucket
  BY <1>1, <1>2 DEF Locked, NoBucket
<1> QED
  BY <1>3, <1>4, <1>6, <1>7

\* A tick takes one from each lock.
LEMMA LockoutTickStep ==
  ASSUME LockoutInv, LockoutTick
  PROVE  /\ LockoutInv'
         /\ \A a \in Addresses : buckets[a] # NoBucket =>
               /\ buckets'[a] # NoBucket
               /\ buckets'[a].lock >= buckets[a].lock \/ buckets'[a].lock = buckets[a].lock - 1
<1>1. /\ buckets' = [a \in Addresses |->
                     IF buckets[a] = NoBucket THEN NoBucket
                     ELSE [buckets[a] EXCEPT !.lock = IF @ > 0 THEN @ - 1 ELSE 0,
                                             !.idle = IF @ <= IdleTTL THEN @ + 1 ELSE @]]
      /\ unpruned' = IF unpruned < PruneInterval THEN unpruned + 1 ELSE unpruned
      /\ logins' = logins
  BY DEF LockoutTick
<1>2. ASSUME NEW a \in Addresses, buckets[a] # NoBucket
      PROVE  /\ BucketSound(buckets'[a]) /\ buckets'[a] # NoBucket
             /\ buckets'[a].lock >= buckets[a].lock \/ buckets'[a].lock = buckets[a].lock - 1
  <2>1. PICK s : s = buckets[a]
    OBVIOUS
  <2>2. /\ s = [failures |-> s.failures, lock |-> s.lock, idle |-> s.idle]
        /\ s.failures \in 0..MaxFailures /\ s.lock \in 0..LockoutDuration(s.failures) /\ s.idle \in 0..(IdleTTL + 1)
    BY <1>2, <2>1 DEF LockoutInv, BucketSound
  <2>3. PICK w : w = [s EXCEPT !.lock = IF @ > 0 THEN @ - 1 ELSE 0]
    OBVIOUS
  <2>4. PICK l : l = IF s.lock > 0 THEN s.lock - 1 ELSE 0
    OBVIOUS
  <2>5. w = [failures |-> s.failures, lock |-> l, idle |-> s.idle]
    BY <2>2, <2>3, <2>4
  <2>6. PICK z : z = [w EXCEPT !.idle = IF @ <= IdleTTL THEN @ + 1 ELSE @]
    OBVIOUS
  <2>7. PICK i : i = IF s.idle <= IdleTTL THEN s.idle + 1 ELSE s.idle
    OBVIOUS
  <2>8. z = [failures |-> s.failures, lock |-> l, idle |-> i]
    BY <2>5, <2>6, <2>7
  <2>9. buckets'[a] = z
    BY <1>1, <1>2, <2>1, <2>3, <2>6
  <2>10. s.lock \in Nat /\ LockoutDuration(s.failures) \in Nat
    <3>1. s.failures \in Nat /\ LockMax \in Nat
      BY <2>2, LockoutAssumption
    <3>2. LockoutDuration(s.failures) \in 0..LockMax
      BY <3>1, LockoutGrows
    <3> QED
      BY <2>2, <3>1, <3>2
  <2>11. i \in 0..(IdleTTL + 1) /\ l \in 0..LockoutDuration(s.failures) /\ (l >= s.lock \/ l = s.lock - 1)
    BY <2>2, <2>4, <2>7, <2>10, LockoutAssumption
  <2>12. z.failures = s.failures /\ z.lock = l /\ z.idle = i /\ z # NoBucket
    BY <2>8, <2>11 DEF NoBucket
  <2>13. BucketSound(z)
    BY <2>2, <2>8, <2>11, <2>12 DEF BucketSound
  <2> QED
    BY <2>1, <2>9, <2>11, <2>12, <2>13
<1>3. \A a \in Addresses : buckets[a] = NoBucket => buckets'[a] = NoBucket
  BY <1>1
<1>4. DOMAIN buckets' = Addresses /\ \A a \in Addresses : BucketSound(buckets'[a])
  <2>1. BucketSound(NoBucket)
    BY DEF BucketSound
  <2> QED
    BY <1>1, <1>2, <1>3, <2>1
<1>5. logins' \in [Addresses -> 0..MaxLogins] /\ unpruned' \in 0..PruneInterval
  <2>1. logins \in [Addresses -> 0..MaxLogins] /\ unpruned \in 0..PruneInterval /\ PruneInterval \in Nat
    BY LockoutAssumption DEF LockoutInv
  <2>2. logins' = logins /\ unpruned' = IF unpruned < PruneInterval THEN unpruned + 1 ELSE unpruned
    BY DEF LockoutTick
  <2> QED
    BY <2>1, <2>2
<1>6. LockoutInv'
  BY <1>3, <1>4, <1>5, BucketsKept
<1> QED
  BY <1>2, <1>6

\* A login whose outcome is unknown leaves the tracker alone.
LEMMA UnavailableStep ==
  ASSUME LockoutInv, NEW a \in Addresses, LoginUnavailable(a)
  PROVE  LockoutInv' /\ buckets' = buckets
<1>1. logins[a] > 0 /\ logins' = [logins EXCEPT ![a] = @ - 1] /\ buckets' = buckets /\ unpruned' = unpruned
  BY DEF LoginUnavailable
<1>2. logins' \in [Addresses -> 0..MaxLogins]
  BY <1>1, LockoutAssumption DEF LockoutInv
<1> QED
  BY <1>1, <1>2, BucketsKept DEF LockoutInv

\* Every step keeps the invariant.
LEMMA LockoutKept == LockoutInv /\ [LockoutNext]_lockoutVars => LockoutInv'
<1> SUFFICES ASSUME LockoutInv, [LockoutNext]_lockoutVars PROVE LockoutInv'
  OBVIOUS
<1>1. CASE UNCHANGED lockoutVars
  BY <1>1 DEF lockoutVars, LockoutInv, BucketSound, Present
<1> QED
  BY <1>1, AllowStep, FailureStep, SuccessStep, UnavailableStep, LockoutTickStep DEF LockoutNext

\* A lock holds until its time is over, against late failures and floods of addresses.
THEOREM LocksAreKept == LockoutSpec => LocksKept
<1>1. LockoutInv /\ [LockoutNext]_lockoutVars =>
        [\A a \in Addresses :
           buckets[a] # NoBucket /\ buckets'[a] # NoBucket =>
             \/ buckets'[a].lock >= buckets[a].lock
             \/ buckets'[a].lock = buckets[a].lock - 1 /\ UNCHANGED logins]_lockoutVars
  <2> SUFFICES ASSUME LockoutInv, LockoutNext, NEW a \in Addresses, buckets[a] # NoBucket, buckets'[a] # NoBucket
               PROVE  \/ buckets'[a].lock >= buckets[a].lock
                      \/ buckets'[a].lock = buckets[a].lock - 1 /\ UNCHANGED logins
    BY DEF lockoutVars
  <2>1. buckets[a].lock >= buckets[a].lock
    <3>1. buckets[a].lock \in 0..LockMax
      BY LockoutTyped DEF LockoutTypeOK
    <3> QED
      BY <3>1, LockoutAssumption
  <2>2. CASE LockoutTick
    BY <2>2, LockoutTickStep DEF LockoutTick
  <2> QED
    BY <2>1, <2>2, AllowStep, FailureStep, SuccessStep, UnavailableStep DEF LockoutNext
<1>2. LockoutInv /\ [LockoutNext]_lockoutVars =>
        [\A a \in Addresses :
           Locked(buckets, a) /\ buckets'[a] = NoBucket /\ logins'[a] = logins[a] =>
             \A x \in Present(buckets') : Locked(buckets', x)]_lockoutVars
  <2> SUFFICES ASSUME LockoutInv, LockoutNext, NEW a \in Addresses,
                      Locked(buckets, a), buckets'[a] = NoBucket, logins'[a] = logins[a]
               PROVE  \A x \in Present(buckets') : Locked(buckets', x)
    BY DEF lockoutVars
  <2>1. buckets[a] # NoBucket
    BY DEF Locked, NoBucket
  <2>2. ~LockoutTick /\ \A c \in Addresses : ~Allow(c) /\ ~LoginUnavailable(c) /\ ~RecordSuccess(c)
    BY <2>1, LockoutTickStep, AllowStep, UnavailableStep, SuccessStep
  <2>3. PICK c \in Addresses : RecordFailure(c)
    BY <2>2 DEF LockoutNext
  <2> QED
    BY <2>3, FailureStep
<1> QED
  BY <1>1, <1>2, LockoutTyped, LockoutInitially, LockoutKept, PTL
     DEF LockoutSpec, LocksKept, LockNeverShortened, EvictionSparesLocks

-----------------------------------------------------------------------------
\* Accounts.

AccountsInv == AccountsTypeOK /\ AdministratorRemains /\ TombstoneHoldsNothing

\* A step that leaves every account what it is, and makes it no less than it was.
AccountsGrow ==
    /\ accounts' \in [Users -> [status : {"none", "active", "gone"}, role : Roles]]
    /\ \A u \in Users : accounts[u].status # "none" =>
          /\ accounts'[u].status = accounts[u].status
          /\ accounts[u].role = "admin" => accounts'[u].role = "admin"

\* An account is a status and a role.
LEMMA UserRecord ==
  ASSUME AccountsTypeOK, NEW u \in Users
  PROVE  /\ accounts[u] = [status |-> accounts[u].status, role |-> accounts[u].role]
         /\ accounts[u].status \in {"none", "active", "gone"} /\ accounts[u].role \in Roles
<1>1. accounts[u] \in [status : {"none", "active", "gone"}, role : Roles]
  BY DEF AccountsTypeOK
<1> QED
  BY <1>1

\* An insertion finds no account of that address, not even a tombstone.
LEMMA InsertUserGrows ==
  ASSUME AccountsTypeOK, NEW u \in Users, NEW role \in Roles, InsertUser(u, role)
  PROVE  AccountsGrow
<1>1. accounts[u].status = "none" /\ accounts' = [accounts EXCEPT ![u] = [status |-> "active", role |-> role]]
  BY DEF InsertUser
<1>2. accounts' \in [Users -> [status : {"none", "active", "gone"}, role : Roles]]
  BY <1>1 DEF AccountsTypeOK
<1> QED
  BY <1>1, <1>2 DEF AccountsGrow, AccountsTypeOK

\* A promotion, like the seed's, changes no status and only gives the role.
LEMMA PromotionGrows ==
  ASSUME AccountsTypeOK, NEW u \in Users, NEW role \in Roles,
         accounts' = [accounts EXCEPT ![u].role = role], role = "admin" \/ role = accounts[u].role
  PROVE  AccountsGrow
<1>1. PICK r : r = [accounts[u] EXCEPT !.role = role]
  OBVIOUS
<1>2. r = [status |-> accounts[u].status, role |-> role]
  <2>1. accounts[u] = [status |-> accounts[u].status, role |-> accounts[u].role]
    BY UserRecord
  <2> QED
    BY <1>1, <2>1
<1>3. accounts' = [accounts EXCEPT ![u] = r]
  BY <1>1
<1>4. r.status = accounts[u].status /\ r.role = role /\ r \in [status : {"none", "active", "gone"}, role : Roles]
  BY <1>2, UserRecord
<1>5. accounts' \in [Users -> [status : {"none", "active", "gone"}, role : Roles]]
  BY <1>3, <1>4 DEF AccountsTypeOK
<1> QED
  BY <1>3, <1>4, <1>5 DEF AccountsGrow, AccountsTypeOK

\* Growing accounts lose no administrator and no account's secrets.
LEMMA GrowthKeeps ==
  ASSUME AccountsInv, AccountsGrow,
         \A k \in secrets' : k \in secrets \/ (k[1] \in Users /\ Active(k[1])), secrets' \subseteq Users \X SecretKinds
  PROVE  AdministratorRemains' /\ TombstoneHoldsNothing'
<1>1. PICK u \in Users : Active(u) /\ accounts[u].role = "admin"
  BY DEF AccountsInv, AdministratorRemains, Admins
<1>2. accounts'[u].status = "active" /\ accounts'[u].role = "admin"
  BY <1>1 DEF AccountsGrow, Active
<1>3. AdministratorRemains'
  BY <1>2 DEF AdministratorRemains, Admins, Active
<1>4. TombstoneHoldsNothing'
  <2> SUFFICES ASSUME NEW k \in secrets' PROVE accounts'[k[1]].status = "active"
    BY DEF TombstoneHoldsNothing, Active
  <2>1. k[1] \in Users /\ Active(k[1])
    BY DEF AccountsInv, TombstoneHoldsNothing, AccountsTypeOK
  <2> QED
    BY <2>1 DEF AccountsGrow, Active
<1> QED
  BY <1>3, <1>4

\* The other tables' columns stay in range under every statement.
LEMMA MembersTyped ==
  ASSUME AccountsTypeOK, NEW t \in Teams, NEW u \in Users, NEW role \in {"none", "owner", "member"},
         members' = [members EXCEPT ![t][u] = role]
  PROVE  members' \in [Teams -> [Users -> {"none", "owner", "member"}]]
<1>1. members \in [Teams -> [Users -> {"none", "owner", "member"}]]
  BY DEF AccountsTypeOK
<1> QED
  BY <1>1

\* Sign-ups, sign-ins, creations by others and the seed let accounts grow.
LEMMA SignInGrows ==
  ASSUME AccountsTypeOK, NEW s \in Subjects, NEW u \in Users, EnsureOIDCUser(s, u)
  PROVE  /\ AccountsGrow /\ subjects' \in [Subjects -> Users \cup {None}]
         /\ \A x \in Subjects : subjects[x] # None => subjects'[x] = subjects[x]
<1> DEFINE role == IF u \in OIDCAdmins THEN "admin" ELSE "user"
           given(x) == IF role = "admin" THEN role ELSE accounts[x].role
<1>1. role \in Roles /\ \A x \in Users : given(x) \in Roles /\ (given(x) = "admin" \/ given(x) = accounts[x].role)
  BY UserRecord DEF Roles
<1>2. subjects \in [Subjects -> Users \cup {None}]
  BY DEF AccountsTypeOK
<1>3. CASE subjects[s] \in Users /\ accounts' = [accounts EXCEPT ![subjects[s]].role = given(subjects[s])] /\ UNCHANGED subjects
  BY <1>1, <1>2, <1>3, PromotionGrows
<1>4. CASE /\ subjects[s] = None /\ subjects' = [subjects EXCEPT ![s] = u]
           /\ accounts' = [accounts EXCEPT ![u].role = given(u)] \/ InsertUser(u, role)
  <2>1. AccountsGrow
    BY <1>1, <1>4, PromotionGrows, InsertUserGrows
  <2> QED
    BY <1>2, <1>4, <2>1
<1> QED
  BY <1>3, <1>4 DEF EnsureOIDCUser

\* A deactivation leaves another administrator, and takes the account's secrets with it.
LEMMA DeactivationStep ==
  ASSUME AccountsInv, NEW p, NEW u \in Users, DeactivateUser(p, u)
  PROVE  /\ AccountsInv'
         /\ \A v \in Users : Gone(v) => accounts'[v].status = "gone"
         /\ subjects' = subjects
         /\ \A t \in Teams : teams[t] = "active" /\ (\E v \in Owners(t) : Active(v)) =>
               \E v \in Users : members'[t][v] = "owner" /\ accounts'[v].status = "active"
<1>1. /\ MayDeactivate(p.user, u)
      /\ accounts' = [accounts EXCEPT ![u].status = "gone"]
      /\ secrets' = {k \in secrets : k[1] # u}
      /\ members' = [t \in Teams |-> [members[t] EXCEPT ![u] = "none"]]
      /\ UNCHANGED <<subjects, teams, flights, pending>>
  BY DEF DeactivateUser, Tombstone
<1>2. AccountsTypeOK
  BY DEF AccountsInv
<1>3. PICK r : r = [accounts[u] EXCEPT !.status = "gone"]
  OBVIOUS
<1>4. r = [status |-> "gone", role |-> accounts[u].role]
  <2>1. accounts[u] = [status |-> accounts[u].status, role |-> accounts[u].role]
    BY <1>2, UserRecord
  <2> QED
    BY <1>3, <2>1
<1>5. accounts' = [accounts EXCEPT ![u] = r] /\ r.status = "gone" /\ r \in [status : {"none", "active", "gone"}, role : Roles]
  BY <1>1, <1>2, <1>3, <1>4, UserRecord
<1>6. /\ accounts \in [Users -> [status : {"none", "active", "gone"}, role : Roles]]
      /\ members \in [Teams -> [Users -> {"none", "owner", "member"}]] /\ secrets \subseteq Users \X SecretKinds
  BY <1>2 DEF AccountsTypeOK
<1>7. accounts' \in [Users -> [status : {"none", "active", "gone"}, role : Roles]]
      /\ accounts'[u].status = "gone" /\ \A v \in Users \ {u} : accounts'[v] = accounts[v]
  BY <1>5, <1>6
<1>8. members' \in [Teams -> [Users -> {"none", "owner", "member"}]]
      /\ \A t \in Teams : \A v \in Users \ {u} : members'[t][v] = members[t][v]
  BY <1>1, <1>6
<1>9. AccountsTypeOK'
  BY <1>1, <1>2, <1>6, <1>7, <1>8 DEF AccountsTypeOK
<1>10. AdministratorRemains'
  <2>1. PICK v \in Users \ {u} : Active(v) /\ accounts[v].role = "admin"
    <3>1. CASE u \in Admins
      <4>1. Admins \ {u} # {}
        BY <1>1, <3>1 DEF MayDeactivate, Admins
      <4> QED
        BY <4>1 DEF Admins
    <3>2. CASE u \notin Admins
      BY <3>2 DEF AccountsInv, AdministratorRemains, Admins
    <3> QED
      BY <3>1, <3>2
  <2>2. accounts'[v].status = "active" /\ accounts'[v].role = "admin"
    BY <1>7, <2>1 DEF Active
  <2> QED
    BY <2>2 DEF AdministratorRemains, Admins, Active
<1>11. TombstoneHoldsNothing'
  <2> SUFFICES ASSUME NEW k \in secrets' PROVE accounts'[k[1]].status = "active"
    BY DEF TombstoneHoldsNothing, Active
  <2>1. k[1] \in Users \ {u} /\ Active(k[1])
    BY <1>1, <1>6 DEF AccountsInv, TombstoneHoldsNothing
  <2> QED
    BY <1>7, <2>1 DEF Active
<1>12. ASSUME NEW v \in Users, Gone(v) PROVE accounts'[v].status = "gone"
  BY <1>7, <1>12 DEF Gone
<1>13. ASSUME NEW t \in Teams, teams[t] = "active", NEW w \in Owners(t), Active(w)
       PROVE  \E v \in Users : members'[t][v] = "owner" /\ accounts'[v].status = "active"
  <2>1. PICK v \in Users \ {u} : members[t][v] = "owner" /\ Active(v)
    <3>1. CASE w # u
      BY <1>13, <3>1 DEF Owners
    <3>2. CASE w = u
      <4>1. ~Stranded(u) /\ members[t][u] = "owner"
        BY <1>1, <1>13, <3>2 DEF MayDeactivate, Owners
      <4> QED
        BY <1>13, <4>1 DEF Stranded, Owners
    <3> QED
      BY <3>1, <3>2
  <2> QED
    BY <1>7, <1>8, <2>1 DEF Active
<1> QED
  BY <1>1, <1>9, <1>10, <1>11, <1>12, <1>13 DEF AccountsInv

\* What a step must keep: the invariant, deactivations and identities, and each team's active owner.
AccountsStepSound ==
    /\ AccountsInv'
    /\ \A u \in Users : Gone(u) => accounts'[u].status = "gone"
    /\ \A s \in Subjects : subjects[s] # None => subjects'[s] = subjects[s]
    /\ \A t \in Teams : teams[t] = "active" /\ (\E u \in Owners(t) : Active(u)) =>
          \/ \E u \in Users : members'[t][u] = "owner" /\ accounts'[u].status = "active"
          \/ accounts' = accounts

\* A step that inserts or promotes accounts and takes no membership of an account there was.
LEMMA GrowthSound ==
  ASSUME AccountsInv, AccountsGrow, UNCHANGED <<teams, secrets, flights, pending>>,
         members' \in [Teams -> [Users -> {"none", "owner", "member"}]],
         \A t \in Teams, u \in Users : accounts[u].status # "none" => members'[t][u] = members[t][u],
         subjects' \in [Subjects -> Users \cup {None}],
         \A s \in Subjects : subjects[s] # None => subjects'[s] = subjects[s]
  PROVE  AccountsStepSound
<1>1. AccountsTypeOK'
  BY DEF AccountsInv, AccountsTypeOK, AccountsGrow
<1>2. AdministratorRemains' /\ TombstoneHoldsNothing'
  BY GrowthKeeps DEF AccountsInv, AccountsTypeOK
<1>3. \A u \in Users : Gone(u) => accounts'[u].status = "gone"
  BY DEF AccountsGrow, Gone
<1>4. ASSUME NEW t \in Teams, NEW w \in Owners(t), Active(w)
      PROVE  \E v \in Users : members'[t][v] = "owner" /\ accounts'[v].status = "active"
  <2>1. members'[t][w] = "owner" /\ accounts'[w].status = "active" /\ w \in Users
    BY <1>4 DEF AccountsGrow, Active, Owners
  <2> QED
    BY <2>1
<1> QED
  BY <1>1, <1>2, <1>3, <1>4 DEF AccountsStepSound, AccountsInv

\* A step that touches no account, and gives secrets only to active ones.
LEMMA AccountsUntouched ==
  ASSUME AccountsInv, UNCHANGED <<accounts, subjects>>,
         teams' \in [Teams -> {"none", "active", "gone"}],
         members' \in [Teams -> [Users -> {"none", "owner", "member"}]],
         secrets' \subseteq Users \X SecretKinds,
         \A k \in secrets' : k \in secrets \/ Active(k[1]),
         flights' \subseteq Principals, pending' \in Pendings
  PROVE  AccountsStepSound
<1>1. AccountsTypeOK'
  BY DEF AccountsInv, AccountsTypeOK
<1>2. AdministratorRemains' /\ TombstoneHoldsNothing'
  <2>1. AdministratorRemains'
    BY DEF AccountsInv, AdministratorRemains, Admins, Active
  <2>2. TombstoneHoldsNothing'
    BY DEF AccountsInv, TombstoneHoldsNothing, Active
  <2> QED
    BY <2>1, <2>2
<1> QED
  BY <1>1, <1>2 DEF AccountsStepSound, AccountsInv, Gone

\* Requests that insert accounts.
LEMMA InsertionStep ==
  ASSUME AccountsInv, NEW u \in Users, NEW p, NEW role \in Roles,
         HandleSignup(u) \/ HandleUsers(p, u, role)
  PROVE  AccountsStepSound
<1>1. AccountsGrow
  BY InsertUserGrows DEF HandleSignup, HandleUsers, AccountsInv, Roles
<1>2. UNCHANGED <<subjects, teams, members, secrets, flights, pending>>
  BY DEF HandleSignup, HandleUsers
<1> QED
  BY <1>1, <1>2, GrowthSound DEF AccountsInv, AccountsTypeOK

\* An account created inside a team takes its one membership.
LEMMA TeamUserStep ==
  ASSUME AccountsInv, NEW p, NEW t \in Teams, NEW u \in Users, NEW role \in TeamRoles, TeamUserCreate(p, t, u, role)
  PROVE  AccountsStepSound
<1>1. InsertUser(u, "user") /\ members' = [members EXCEPT ![t][u] = role] /\ UNCHANGED <<subjects, teams, secrets, flights, pending>>
  BY DEF TeamUserCreate, CreateTeamUser
<1>2. AccountsTypeOK /\ accounts[u].status = "none" /\ role \in {"none", "owner", "member"} /\ "user" \in Roles
  BY <1>1 DEF AccountsInv, InsertUser, TeamRoles, Roles
<1>3. AccountsGrow
  BY <1>1, <1>2, InsertUserGrows
<1>4. members' \in [Teams -> [Users -> {"none", "owner", "member"}]]
  BY <1>1, <1>2, MembersTyped
<1>5. \A x \in Teams, v \in Users : accounts[v].status # "none" => members'[x][v] = members[x][v]
  BY <1>1, <1>2 DEF AccountsTypeOK
<1> QED
  BY <1>1, <1>2, <1>3, <1>4, <1>5, GrowthSound DEF AccountsTypeOK

\* A sign-in binds an unbound subject, or promotes.
LEMMA OIDCStep ==
  ASSUME AccountsInv, NEW s \in Subjects, NEW u \in Users, HandleOIDCLogin(s, u)
  PROVE  AccountsStepSound
<1>1. UNCHANGED <<teams, members, secrets, flights, pending>> /\ EnsureOIDCUser(s, u)
  BY DEF HandleOIDCLogin
<1> QED
  BY <1>1, SignInGrows, GrowthSound DEF AccountsInv, AccountsTypeOK

\* The seeded administrator is promoted, whatever it became meanwhile.
LEMMA SeedStep ==
  ASSUME AccountsInv, EnsurePasswordUser
  PROVE  AccountsStepSound
<1>1. /\ accounts' = [accounts EXCEPT ![SeedAdmin].role = "admin"] /\ pending' = [op |-> "none"]
      /\ UNCHANGED <<subjects, teams, members, secrets, flights>>
  BY DEF EnsurePasswordUser
<1>2. AccountsGrow
  BY <1>1, PromotionGrows, AccountsAssumption DEF AccountsInv, Roles
<1>3. AdministratorRemains' /\ TombstoneHoldsNothing'
  BY <1>1, <1>2, GrowthKeeps DEF AccountsInv, AccountsTypeOK
<1>4. pending' \in Pendings
  BY <1>1 DEF Pendings
<1>5. AccountsTypeOK'
  BY <1>1, <1>2, <1>4 DEF AccountsInv, AccountsTypeOK, AccountsGrow
<1>6. \A u \in Users : Gone(u) => accounts'[u].status = "gone"
  BY <1>2 DEF AccountsGrow, Gone
<1>7. ASSUME NEW t \in Teams, NEW w \in Owners(t), Active(w)
      PROVE  \E v \in Users : members'[t][v] = "owner" /\ accounts'[v].status = "active"
  <2>1. members'[t][w] = "owner" /\ accounts'[w].status = "active" /\ w \in Users
    BY <1>1, <1>2, <1>7 DEF AccountsGrow, Active, Owners
  <2> QED
    BY <2>1
<1> QED
  BY <1>1, <1>3, <1>5, <1>6, <1>7 DEF AccountsStepSound, AccountsInv

\* Requests that leave the accounts alone.
LEMMA FlightStep ==
  ASSUME AccountsInv, NEW u \in Users, NEW p, AuthenticateRequest(u) \/ EndRequest(p)
  PROVE  AccountsStepSound
<1>1. PrincipalForUserID(u) \in Principals
  <2>1. accounts[u].role \in Roles
    BY UserRecord DEF AccountsInv
  <2> QED
    BY <2>1 DEF PrincipalForUserID, Principal, Principals
<1>2. flights' \subseteq Principals /\ UNCHANGED <<accounts, subjects, teams, members, secrets, pending>>
  BY <1>1 DEF AuthenticateRequest, EndRequest, AccountsInv, AccountsTypeOK
<1> QED
  BY <1>2, AccountsUntouched DEF AccountsInv, AccountsTypeOK

\* Keys and registry credentials are inserted for active accounts alone.
LEMMA SecretStep ==
  ASSUME AccountsInv, NEW p \in flights \cup {ServicePrincipal}, NEW kind \in SecretKinds,
         HandleUserAPIKeys(p, kind) \/ RevokeSecret(p, kind)
  PROVE  AccountsStepSound
<1>1. UNCHANGED <<accounts, subjects, teams, members, flights, pending>>
  BY DEF HandleUserAPIKeys, RevokeSecret
<1>2. secrets' \subseteq Users \X SecretKinds /\ \A k \in secrets' : k \in secrets \/ Active(k[1])
  BY DEF HandleUserAPIKeys, RevokeSecret, InsertSecret, AccountsInv, AccountsTypeOK
<1> QED
  BY <1>1, <1>2, AccountsUntouched DEF AccountsInv, AccountsTypeOK

\* A caller is an account or the service key.
LEMMA CallerOf ==
  ASSUME AccountsInv, NEW p \in flights \cup {ServicePrincipal}
  PROVE  p.user \in Users \/ p.user = Service
BY DEF AccountsInv, AccountsTypeOK, Principals, ServicePrincipal, Principal

\* A team is created, or found for its deletion.
LEMMA TeamStep ==
  ASSUME AccountsInv, NEW p \in flights \cup {ServicePrincipal}, NEW t \in Teams, CreateTeam(p, t) \/ ReadTeam(p, t)
  PROVE  AccountsStepSound
<1>1. CASE CreateTeam(p, t)
  <2>1. /\ teams' = [teams EXCEPT ![t] = "active"] /\ UNCHANGED <<accounts, subjects, secrets, flights, pending>>
        /\ members' = IF p.user = Service THEN members ELSE [members EXCEPT ![t][p.user] = "owner"]
    BY <1>1 DEF CreateTeam, InsertTeam
  <2>2. members' \in [Teams -> [Users -> {"none", "owner", "member"}]]
    <3>1. CASE p.user = Service
      BY <2>1, <3>1 DEF AccountsInv, AccountsTypeOK
    <3>2. CASE p.user # Service
      BY <2>1, <3>2, CallerOf, MembersTyped DEF AccountsInv
    <3> QED
      BY <3>1, <3>2
  <2>3. teams' \in [Teams -> {"none", "active", "gone"}]
    BY <2>1 DEF AccountsInv, AccountsTypeOK
  <2> QED
    BY <2>1, <2>2, <2>3, AccountsUntouched DEF AccountsInv, AccountsTypeOK
<1>2. CASE ReadTeam(p, t)
  <2>1. pending' = [op |-> "deleteTeam", team |-> t] /\ UNCHANGED <<accounts, subjects, teams, members, secrets, flights>>
    BY <1>2 DEF ReadTeam
  <2>2. pending' \in Pendings
    BY <2>1 DEF Pendings
  <2> QED
    BY <2>1, <2>2, AccountsUntouched DEF AccountsInv, AccountsTypeOK
<1> QED
  BY <1>1, <1>2

\* A membership ends, or is about to begin.
LEMMA MemberStep ==
  ASSUME AccountsInv, NEW p, NEW t \in Teams, NEW u \in Users, TeamMemberDelete(p, t, u) \/ ReadMembership(p, t, u)
  PROVE  AccountsStepSound
<1>1. CASE TeamMemberDelete(p, t, u)
  <2>1. members' = [members EXCEPT ![t][u] = "none"] /\ UNCHANGED <<accounts, subjects, teams, secrets, flights, pending>>
    BY <1>1 DEF TeamMemberDelete, DeleteTeamMembership
  <2>2. members' \in [Teams -> [Users -> {"none", "owner", "member"}]]
    BY <2>1, MembersTyped DEF AccountsInv
  <2> QED
    BY <2>1, <2>2, AccountsUntouched DEF AccountsInv, AccountsTypeOK
<1>2. CASE ReadMembership(p, t, u)
  <2>1. /\ pending' = [op |-> "join", team |-> t, user |-> u]
        /\ UNCHANGED <<accounts, subjects, teams, members, secrets, flights>>
    BY <1>2 DEF ReadMembership
  <2>2. pending' \in Pendings
    BY <2>1 DEF Pendings
  <2> QED
    BY <2>1, <2>2, AccountsUntouched DEF AccountsInv, AccountsTypeOK
<1> QED
  BY <1>1, <1>2

\* What was read before its transaction is completed.
LEMMA PendingStep ==
  ASSUME AccountsInv, NEW role \in TeamRoles, UpsertTeamMembership(role) \/ DeleteTeamBySlug \/ ReadSeed
  PROVE  AccountsStepSound
<1>1. CASE UpsertTeamMembership(role)
  <2>1. /\ pending.op = "join" /\ pending' = [op |-> "none"] /\ UNCHANGED <<accounts, subjects, teams, secrets, flights>>
        /\ members' = [members EXCEPT ![pending.team][pending.user] = role] \/ members' = members
    BY <1>1 DEF UpsertTeamMembership, InsertMembership
  <2>2. pending.team \in Teams /\ pending.user \in Users /\ role \in {"none", "owner", "member"}
    BY <2>1 DEF AccountsInv, AccountsTypeOK, Pendings, TeamRoles
  <2>3. members' \in [Teams -> [Users -> {"none", "owner", "member"}]]
    BY <2>1, <2>2, MembersTyped DEF AccountsInv, AccountsTypeOK
  <2>4. pending' \in Pendings
    BY <2>1 DEF Pendings
  <2> QED
    BY <2>1, <2>3, <2>4, AccountsUntouched DEF AccountsInv, AccountsTypeOK
<1>2. CASE DeleteTeamBySlug
  <2>1. /\ teams' = [teams EXCEPT ![pending.team] = "gone"] /\ pending' = [op |-> "none"]
        /\ members' = [members EXCEPT ![pending.team] = [u \in Users |-> "none"]]
        /\ UNCHANGED <<accounts, subjects, secrets, flights>>
    BY <1>2 DEF DeleteTeamBySlug
  <2>2. members' \in [Teams -> [Users -> {"none", "owner", "member"}]] /\ teams' \in [Teams -> {"none", "active", "gone"}]
    BY <2>1 DEF AccountsInv, AccountsTypeOK
  <2>3. pending' \in Pendings
    BY <2>1 DEF Pendings
  <2> QED
    BY <2>1, <2>2, <2>3, AccountsUntouched DEF AccountsInv, AccountsTypeOK
<1>3. CASE ReadSeed
  <2>1. pending' = [op |-> "seed"] /\ UNCHANGED <<accounts, subjects, teams, members, secrets, flights>>
    BY <1>3 DEF ReadSeed
  <2>2. pending' \in Pendings
    BY <2>1 DEF Pendings
  <2> QED
    BY <2>1, <2>2, AccountsUntouched DEF AccountsInv, AccountsTypeOK
<1> QED
  BY <1>1, <1>2, <1>3

\* A deactivation keeps what every step must.
LEMMA DeactivateStep ==
  ASSUME AccountsInv, NEW p, NEW u \in Users, DeactivateUser(p, u)
  PROVE  AccountsStepSound
BY DeactivationStep DEF AccountsStepSound

\* At the start there is the seeded administrator.
LEMMA AccountsInitially == AccountsInit => AccountsInv
<1> SUFFICES ASSUME AccountsInit PROVE AccountsInv
  OBVIOUS
<1>1. AccountsTypeOK
  BY AccountsAssumption DEF AccountsInit, AccountsTypeOK, Absent, Roles, Pendings
<1>2. accounts[SeedAdmin] = [status |-> "active", role |-> "admin"] /\ SeedAdmin \in Users /\ secrets = {}
  BY AccountsAssumption DEF AccountsInit
<1> QED
  BY <1>1, <1>2 DEF AccountsInv, AdministratorRemains, Admins, Active, TombstoneHoldsNothing

\* Every step keeps what it must.
LEMMA AccountsKept ==
  ASSUME AccountsInv, AccountsNext
  PROVE  AccountsStepSound
<1>1. "user" \in Roles /\ "owner" \in TeamRoles
  BY DEF Roles, TeamRoles
<1>2. CASE \E u \in Users : AuthenticateRequest(u) \/ HandleSignup(u)
  BY <1>1, <1>2, FlightStep, InsertionStep
<1>3. CASE \E p \in flights : EndRequest(p)
  BY <1>3, FlightStep, AccountsAssumption
<1>4. CASE \E s \in Subjects, u \in Users : HandleOIDCLogin(s, u)
  BY <1>4, OIDCStep
<1>5. CASE \E p \in flights \cup {ServicePrincipal} :
             \/ \E u \in Users : DeactivateUser(p, u) \/ \E r \in Roles : HandleUsers(p, u, r)
             \/ \E k \in SecretKinds : HandleUserAPIKeys(p, k) \/ RevokeSecret(p, k)
             \/ \E t \in Teams : CreateTeam(p, t) \/ ReadTeam(p, t)
             \/ \E t \in Teams, u \in Users :
                  \/ TeamMemberDelete(p, t, u) \/ ReadMembership(p, t, u)
                  \/ \E r \in TeamRoles : TeamUserCreate(p, t, u, r)
  BY <1>5, DeactivateStep, InsertionStep, SecretStep, TeamStep, MemberStep, TeamUserStep
<1>6. CASE (\E r \in TeamRoles : UpsertTeamMembership(r)) \/ DeleteTeamBySlug \/ ReadSeed \/ EnsurePasswordUser
  BY <1>1, <1>6, PendingStep, SeedStep
<1> QED
  BY <1>2, <1>3, <1>4, <1>5, <1>6 DEF AccountsNext

\* Deactivation ends an account for good and strands nobody.
THEOREM AccountsAreSound == AccountsSpec => AccountsSound
<1>1. AccountsInv /\ [AccountsNext]_accountVars => AccountsInv'
  <2>1. AccountsInv /\ AccountsNext => AccountsInv'
    BY AccountsKept DEF AccountsStepSound
  <2>2. AccountsInv /\ UNCHANGED accountVars => AccountsInv'
    BY DEF accountVars, AccountsInv, AccountsTypeOK, AdministratorRemains, Admins, Active, TombstoneHoldsNothing
  <2> QED
    BY <2>1, <2>2
<1>2. AccountsInv /\ [AccountsNext]_accountVars =>
        [/\ \A u \in Users : Gone(u) => accounts'[u].status = "gone"
         /\ \A s \in Subjects : subjects[s] # None => subjects'[s] = subjects[s]]_accountVars
  BY AccountsKept DEF AccountsStepSound
<1>3. AccountsInv /\ [AccountsNext]_accountVars =>
        [\A t \in Teams :
           (teams[t] = "active" /\ \E u \in Owners(t) : Active(u)) =>
             \/ \E u \in Users : members'[t][u] = "owner" /\ accounts'[u].status = "active"
             \/ accounts' = accounts]_accountVars
  BY AccountsKept DEF AccountsStepSound
<1>4. AccountsInv => AccountsTypeOK /\ AdministratorRemains /\ TombstoneHoldsNothing
  BY DEF AccountsInv
<1> QED
  BY <1>1, <1>2, <1>3, <1>4, AccountsInitially, PTL
     DEF AccountsSpec, AccountsSound, DeactivationFinal, DeactivationKeepsOwners
=============================================================================
