---------------------------- MODULE LoginLockout ----------------------------
(* The platform API's password login and its per-address lockout.  A login   *)
(* asks Allow, checks the password, and records the outcome: three separate  *)
(* holds of the tracker's lock, between which other logins run.  Times are   *)
(* kept relative to now: ticks a lock still lasts, ticks since last seen.    *)
EXTENDS Integers, FiniteSets, FiniteSetsExt

CONSTANTS
    Addresses,      \* client addresses; every login key collapses to one
    LockBase, LockMax, IdleTTL, PruneInterval,  \* in ticks
    MaxEntries, EvictionBatch,
    MaxLogins,      \* bound: logins under way at once
    MaxFailures     \* bound: failures counted in a bucket

ASSUME LockoutAssumption ==
    /\ IsFiniteSet(Addresses)
    /\ {LockBase, LockMax, IdleTTL, PruneInterval, MaxEntries, EvictionBatch, MaxLogins, MaxFailures} \subseteq Nat
    /\ 0 < LockBase /\ LockBase <= LockMax /\ LockMax <= IdleTTL /\ EvictionBatch <= MaxEntries

VARIABLES
    buckets,    \* the tracker's entries; NoBucket when there is none
    unpruned,   \* ticks since the last prune
    logins      \* address -> logins admitted whose outcome is not recorded yet
lockoutVars == <<buckets, unpruned, logins>>

NoBucket == [failures |-> 0, lock |-> 0, idle |-> 0 - 1]
Present(b) == {a \in Addresses : b[a] # NoBucket}
Locked(b, a) == b[a].lock > 0

(* Two failures are free; then the lock doubles with each, up to the cap. *)
Doubled(d) == IF 2 * d >= LockMax THEN LockMax ELSE 2 * d
Backoff[i \in Nat] == IF i = 0 THEN LockBase ELSE Doubled(Backoff[i - 1])
LockoutDuration(n) == IF n <= 2 THEN 0 ELSE Backoff[n - 3]

(* A prune is due once per interval and drops idle buckets without a lock. *)
Pruned ==
    IF unpruned < PruneInterval THEN buckets
    ELSE [a \in Addresses |-> IF buckets[a].idle > IdleTTL /\ ~Locked(buckets, a) THEN NoBucket ELSE buckets[a]]
PruneClock == IF unpruned < PruneInterval THEN unpruned ELSE 0

\* Mutant: the oldest bucket goes first, locked or not.
MutSooner(b, x, y) == b[x].idle > b[y].idle

(* Eviction order: unlocked before locked, then those without a failure,     *)
(* then the ones not seen for longest.                                       *)
Sooner(b, x, y) ==
    \/ ~Locked(b, x) /\ Locked(b, y)
    \/ Locked(b, x) = Locked(b, y) /\ b[x].failures = 0 /\ b[y].failures > 0
    \/ Locked(b, x) = Locked(b, y) /\ (b[x].failures > 0) = (b[y].failures > 0) /\ b[x].idle > b[y].idle

(* The tables a full tracker may be cut down to (ties fall either way). *)
EnforceMax(b) ==
    IF Cardinality(Present(b)) <= MaxEntries THEN {b}
    ELSE LET kept == MaxEntries - EvictionBatch
         IN  {[a \in Addresses |-> IF a \in k THEN b[a] ELSE NoBucket] :
                 k \in {s \in kSubset(kept, Present(b)) :
                          \A x \in s, y \in Present(b) \ s : ~Sooner(b, x, y)}}

LockoutInit ==
    /\ buckets = [a \in Addresses |-> NoBucket]
    /\ unpruned = PruneInterval
    /\ logins = [a \in Addresses |-> 0]

\* The logins under way, numbered for each address.
UnderWay == {w \in Addresses \X (1..MaxLogins) : w[2] <= logins[w[1]]}

(* Allow: a known address is marked seen; it is admitted unless locked. *)
Allow(a) ==
    LET b == Pruned
    IN  /\ Cardinality(UnderWay) < MaxLogins
        /\ buckets' = IF b[a] = NoBucket THEN b ELSE [b EXCEPT ![a].idle = 0]
        /\ logins' = IF Locked(b, a) THEN logins ELSE [logins EXCEPT ![a] = @ + 1]
        /\ unpruned' = PruneClock

RecordFailure(a) ==
    LET b == Pruned
        n == b[a].failures + 1
    IN  /\ logins[a] > 0
        /\ n <= MaxFailures
        /\ logins' = [logins EXCEPT ![a] = @ - 1]
        /\ buckets' \in EnforceMax([b EXCEPT ![a] = [failures |-> n, lock |-> LockoutDuration(n), idle |-> 0]])
        /\ unpruned' = PruneClock

(* A success forgets the address's bucket altogether. *)
RecordSuccess(a) ==
    /\ logins[a] > 0
    /\ logins' = [logins EXCEPT ![a] = @ - 1]
    /\ buckets' = [Pruned EXCEPT ![a] = NoBucket]
    /\ unpruned' = PruneClock

(* The database could not be asked: the login fails and nothing is recorded. *)
LoginUnavailable(a) ==
    /\ logins[a] > 0
    /\ logins' = [logins EXCEPT ![a] = @ - 1]
    /\ UNCHANGED <<buckets, unpruned>>

LockoutTick ==
    /\ buckets' = [a \in Addresses |->
                     IF buckets[a] = NoBucket THEN NoBucket
                     ELSE [buckets[a] EXCEPT !.lock = IF @ > 0 THEN @ - 1 ELSE 0,
                                             !.idle = IF @ <= IdleTTL THEN @ + 1 ELSE @]]
    /\ unpruned' = IF unpruned < PruneInterval THEN unpruned + 1 ELSE unpruned
    /\ UNCHANGED logins

LockoutNext ==
    \/ \E a \in Addresses : Allow(a) \/ RecordFailure(a) \/ RecordSuccess(a) \/ LoginUnavailable(a)
    \/ LockoutTick

LockoutSpec == LockoutInit /\ [][LockoutNext]_lockoutVars

--------------------------------------------------------------------------------
(* The tracker holds at most MaxEntries buckets, however many addresses      *)
(* knock, and no more logins are under way than were admitted.               *)
LockoutTypeOK ==
    /\ \A a \in Addresses : /\ buckets[a].failures \in 0..MaxFailures
                            /\ buckets[a].lock \in 0..LockMax
                            /\ logins[a] \in 0..MaxLogins
    /\ Cardinality(Present(buckets)) <= MaxEntries
    /\ unpruned \in 0..PruneInterval

(* Only time shortens a lock: while the bucket stays, a failure recorded     *)
(* late (of a login admitted before the lock) never moves its end forward.   *)
LockNeverShortened ==
    [][\A a \in Addresses :
         buckets[a] # NoBucket /\ buckets'[a] # NoBucket =>
             \/ buckets'[a].lock >= buckets[a].lock
             \/ buckets'[a].lock = buckets[a].lock - 1 /\ UNCHANGED logins]_lockoutVars

(* A flood of addresses cannot flush a lock: while other logins' failures    *)
(* fill the tracker, a locked bucket goes only when no unlocked one is left. *)
EvictionSparesLocks ==
    [][\A a \in Addresses :
         Locked(buckets, a) /\ buckets'[a] = NoBucket /\ logins'[a] = logins[a] =>
             \A x \in Present(buckets') : Locked(buckets', x)]_lockoutVars
(* A lock holds until its time is over, against late failures and floods.    *)
LocksKept == []LockoutTypeOK /\ LockNeverShortened /\ EvictionSparesLocks
=============================================================================
