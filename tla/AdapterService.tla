---------------------------- MODULE AdapterService ----------------------------
(* The adapter service package: a daemon under a file lock that runs one     *)
(* listener per stored profile, reloads the profile store on request, renews *)
(* each profile's certificate within its session, and is installed, stopped  *)
(* and replaced through launchd.  One profile; what changes between reloads  *)
(* is its identity, a generation of the store.  Expiries are ticks to run.   *)
(* The daemon is launchd's, and one service command runs at a time.          *)
EXTENDS Integers, FiniteSets

CONSTANTS
    MaxGeneration,  \* bound: identities written to the store
    SessionTicks,   \* ticks a session lasts
    MaxCalls        \* bound: calls under way

ASSUME ServiceAssumption == {MaxGeneration, SessionTicks, MaxCalls} \subseteq Nat \ {0}

VARIABLES
    saved,      \* profiles.json: generation, and can it be loaded?
    profileWorker,     \* the profile's listener and its credential
    control,    \* the request that holds the control lock
    lock,       \* the daemon lock: version of the binary that holds it (0: free)
    ending,     \* the daemon's end: the phase Run is in, and has launchd asked for it?
    serviceJob,        \* the launchd job: loaded?
    binary,     \* version of the managed binary on disk (0: none)
    installer,  \* the install command: "idle", "stopping", "copying", "unwatched", "starting"
    calls,      \* client calls: identity they were let in under, and progress
    expired,    \* did a call leave with a credential that was over?
    swapped     \* was the binary replaced under a running service?
serviceVars == <<saved, profileWorker, control, lock, ending, serviceJob, binary, installer, calls, expired, swapped>>

NoWorker == [gen |-> 0, state |-> "none", leaf |-> 0, expiry |-> 0, sess |-> 0, renew |-> "none", late |-> FALSE]
Idle_ == [step |-> "idle", gen |-> 0]
Running_ == [phase |-> "no", signalled |-> FALSE]

ServiceInit ==
    /\ saved = [gen |-> 0, ok |-> TRUE]
    /\ profileWorker = NoWorker /\ control = Idle_
    /\ lock = 0 /\ ending = Running_ /\ serviceJob = FALSE /\ binary = 0 /\ installer = "idle"
    /\ calls = {} /\ expired = FALSE /\ swapped = FALSE

--------------------------------------------------------------------------------
(* Store.Save validates and replaces the file; an editor may break it.       *)
Save ==
    /\ saved.gen < MaxGeneration
    /\ saved' = [gen |-> saved.gen + 1, ok |-> TRUE]
    /\ UNCHANGED <<profileWorker, control, lock, ending, serviceJob, binary, installer, calls, expired, swapped>>

Break ==
    /\ saved.ok
    /\ saved' = [saved EXCEPT !.ok = FALSE]
    /\ UNCHANGED <<profileWorker, control, lock, ending, serviceJob, binary, installer, calls, expired, swapped>>

--------------------------------------------------------------------------------
(* Daemon.Run takes the lock, then loads; a store it cannot load ends it.    *)
(* launchd starts no second process of the job.                              *)
Run ==
    /\ serviceJob /\ lock = 0 /\ ending = Running_ /\ binary # 0 /\ saved.ok
    /\ lock' = binary
    /\ control' = [step |-> "starting", gen |-> saved.gen] /\ profileWorker' = NoWorker
    /\ UNCHANGED <<saved, ending, serviceJob, binary, installer, calls, expired, swapped>>

(* Store.Load: the whole new store is validated before a profile is touched. *)
Valid == saved.ok

\* A request that came in before the socket closed takes the control lock whenever it is free, also
\* when Run has stopped the workers and is shutting down, or has returned.
Alive == lock # 0 \/ ending.phase = "leaving"
Ending == ending.phase # "no"
Reload ==
    /\ Alive /\ control = Idle_ /\ Valid
    /\ control' = [step |-> "loading", gen |-> saved.gen]
    /\ profileWorker' = [profileWorker EXCEPT !.state = IF @ = "serving" THEN "draining" ELSE @]
    /\ UNCHANGED <<saved, lock, ending, serviceJob, binary, installer, calls, expired, swapped>>

\* Mutant: a reload does not wait for the workers it stops.
MutDrained == TRUE
(* <-w.done: the old listener and its calls are over.  Shutdown waits, and   *)
(* Close cuts what is left.                                                  *)
Drained == profileWorker.state \notin {"serving", "draining"}

Drain ==
    /\ profileWorker.state = "draining"
    /\ profileWorker' = NoWorker
    /\ calls' = {}
    /\ UNCHANGED <<saved, control, lock, ending, serviceJob, binary, installer, expired, swapped>>

(* The new worker listens (or finds the port taken), and asks for a          *)
(* certificate at once.  The session recorded in the store has run for some  *)
(* time.                                                                     *)
Load ==
    /\ control.step \in {"starting", "loading"} /\ Drained
    /\ IF control.gen = 0 THEN profileWorker' = NoWorker
       ELSE \E state \in {"serving", "conflict"}, sess \in 0..SessionTicks :
              profileWorker' = [NoWorker EXCEPT !.gen = control.gen, !.state = state, !.sess = sess, !.renew = "due",
                                                !.late = Ending]
    /\ control' = Idle_
    /\ UNCHANGED <<saved, lock, ending, serviceJob, binary, installer, calls, expired, swapped>>

--------------------------------------------------------------------------------
(* runProfile's renewal. *)
Renewing == profileWorker.state = "serving" /\ profileWorker.renew = "due"

(* An expired session ends renewal until the user authorises the profile. *)
SessionOver ==
    /\ Renewing /\ profileWorker.sess = 0
    /\ profileWorker' = [profileWorker EXCEPT !.renew = "never"]
    /\ UNCHANGED <<saved, control, lock, ending, serviceJob, binary, installer, calls, expired, swapped>>

(* Issue answers: a certificate within the session is installed, in the      *)
(* order of the code - first the transport, then the expiry.                 *)
Install(left) == profileWorker' = [profileWorker EXCEPT !.leaf = left, !.renew = "expiry"]

Issue(left) ==
    /\ Renewing /\ profileWorker.sess > 0 /\ left <= profileWorker.sess
    /\ Install(left)
    /\ UNCHANGED <<saved, control, lock, ending, serviceJob, binary, installer, calls, expired, swapped>>

Installed_ ==
    /\ profileWorker.state = "serving" /\ profileWorker.renew \in {"expiry", "leaf"}
    /\ profileWorker' = [profileWorker EXCEPT !.expiry = IF profileWorker.renew = "expiry" THEN profileWorker.leaf ELSE @,
                                !.leaf = IF profileWorker.renew = "leaf" THEN profileWorker.expiry ELSE @, !.renew = "wait"]
    /\ UNCHANGED <<saved, control, lock, ending, serviceJob, binary, installer, calls, expired, swapped>>

--------------------------------------------------------------------------------
(* Calls. *)
Usable == profileWorker.expiry > 0 /\ profileWorker.sess > 0

(* protect lets a call in ... *)
protect ==
    /\ profileWorker.state = "serving" /\ Usable
    /\ Cardinality(calls) < MaxCalls
    /\ calls' = calls \cup {[gen |-> profileWorker.gen, sent |-> FALSE]}
    /\ UNCHANGED <<saved, profileWorker, control, lock, ending, serviceJob, binary, installer, expired, swapped>>

(* ... and the transport looks again when the call leaves. *)
RoundTrip_(c) ==
    /\ ~c.sent
    /\ \/ /\ Usable
          /\ calls' = (calls \ {c}) \cup {[c EXCEPT !.sent = TRUE]}
          /\ expired' = (expired \/ profileWorker.leaf = 0 \/ profileWorker.sess = 0)
       \/ /\ ~Usable
          /\ calls' = calls \ {c} /\ UNCHANGED expired
    /\ UNCHANGED <<saved, profileWorker, control, lock, ending, serviceJob, binary, installer, swapped>>

CallEnds(c) ==
    /\ calls' = calls \ {c}
    /\ UNCHANGED <<saved, profileWorker, control, lock, ending, serviceJob, binary, installer, expired, swapped>>

--------------------------------------------------------------------------------
(* launchd. *)

(* The control socket answers once Serve has begun, until Shutdown or a      *)
(* failure of Serve.                                                         *)
Answers == lock # 0 /\ control.step # "starting" /\ ending.phase \in {"no", "awaiting"}
Silent == ~Answers \/ ending.phase = "awaiting"
\* bootout unloads the job and signals its process.
signal == ending' = [ending EXCEPT !.signalled = @ \/ Alive]

(* Stop: boot the job out, then wait for the lock, not for the socket: the   *)
(* daemon drains its profiles first.                                         *)
Bootout ==
    /\ serviceJob /\ installer = "idle"
    /\ serviceJob' = FALSE /\ signal
    /\ UNCHANGED <<saved, profileWorker, control, lock, binary, installer, calls, expired, swapped>>

(* The context ends, or Serve fails: Run takes the control lock, cancels the *)
(* workers ...                                                               *)
ExitBegins ==
    /\ lock # 0 /\ ending.phase = "no" /\ control = Idle_
    /\ ending' = [ending EXCEPT !.phase = "awaiting"] /\ control' = [step |-> "ending", gen |-> 0]
    /\ profileWorker' = [profileWorker EXCEPT !.state = IF @ = "serving" THEN "draining" ELSE @]
    /\ UNCHANGED <<saved, lock, serviceJob, binary, installer, calls, expired, swapped>>

(* ... awaits every one, and frees the control lock before it shuts the      *)
(* socket's server down.                                                     *)
ExitDrained ==
    /\ ending.phase = "awaiting" /\ Drained
    /\ ending' = [ending EXCEPT !.phase = "shutdown"] /\ control' = Idle_
    /\ UNCHANGED <<saved, profileWorker, lock, serviceJob, binary, installer, calls, expired, swapped>>

(* Shutdown waits a while for the handlers; Run returns and the lock is free *)
(* although a reload may still be under way.                                 *)
LockReleased ==
    /\ ending.phase = "shutdown"
    /\ ending' = [ending EXCEPT !.phase = "leaving"] /\ lock' = 0
    /\ UNCHANGED <<saved, profileWorker, control, serviceJob, binary, installer, calls, expired, swapped>>

(* The signal ends the daemon's context, which every worker's derives from.  *)
CancelNoticed ==
    /\ profileWorker.state = "serving" /\ ending.signalled
    /\ profileWorker' = [profileWorker EXCEPT !.state = "draining"]
    /\ UNCHANGED <<saved, control, lock, ending, serviceJob, binary, installer, calls, expired, swapped>>

(* The process ends or dies; the system closes its lock and its connections. *)
DaemonCrash ==
    /\ Alive
    /\ lock' = 0 /\ ending' = Running_ /\ profileWorker' = NoWorker /\ calls' = {} /\ control' = Idle_
    /\ UNCHANGED <<saved, serviceJob, binary, installer, expired, swapped>>

(* Install: stop an installed service, copy the binary aside and rename it,  *)
(* write the plist, start.  Stop boots a loaded job out; with no job loaded  *)
(* it refuses while a daemon answers, and otherwise waits for nothing.       *)
InstallStart ==
    /\ installer = "idle" /\ binary < 2
    /\ \/ /\ binary # 0 /\ serviceJob
          /\ installer' = "stopping" /\ serviceJob' = FALSE /\ signal
       \/ /\ binary = 0 \/ (~serviceJob /\ Silent)
          /\ installer' = IF binary = 0 THEN "copying" ELSE "unwatched"
          /\ UNCHANGED <<serviceJob, ending>>
    /\ UNCHANGED <<saved, profileWorker, control, lock, binary, calls, expired, swapped>>

Stopped == lock = 0

InstallStopped ==
    /\ installer = "stopping"
    /\ \/ Stopped /\ installer' = "copying"
       \/ installer' = "idle"      \* the deadline passed: the command fails
    /\ UNCHANGED <<saved, profileWorker, control, lock, ending, serviceJob, binary, calls, expired, swapped>>

InstallCopy ==
    /\ installer \in {"copying", "unwatched"}
    /\ binary' = binary + 1
    /\ swapped' = (swapped \/ (lock # 0 /\ installer = "copying"))
    /\ installer' = "starting"
    /\ UNCHANGED <<saved, profileWorker, control, lock, ending, serviceJob, calls, expired>>

(* Start: nothing if a daemon answers, also one that is about to end;        *)
(* otherwise bootstrap, or kick a job that is still loaded.                  *)
Bootstrap ==
    /\ binary # 0 /\ installer \in {"idle", "starting"}
    /\ ~serviceJob
    /\ \/ Silent /\ serviceJob' = TRUE
       \/ Answers /\ UNCHANGED serviceJob
    /\ installer' = "idle"
    /\ UNCHANGED <<saved, profileWorker, control, lock, ending, binary, calls, expired, swapped>>

ServiceTick ==
    /\ profileWorker.leaf > 0 \/ profileWorker.sess > 0 \/ profileWorker.expiry > 0
    /\ LET less(n) == IF n > 0 THEN n - 1 ELSE 0
       IN  profileWorker' = [profileWorker EXCEPT !.leaf = less(@), !.expiry = less(@), !.sess = less(@),
                                    !.renew = IF @ = "wait" /\ profileWorker.expiry <= 1 THEN "due" ELSE @]
    /\ UNCHANGED <<saved, control, lock, ending, serviceJob, binary, installer, calls, expired, swapped>>

ServiceNext ==
    \/ Save \/ Break \/ Run \/ Reload \/ Drain \/ Load
    \/ SessionOver \/ Installed_ \/ (\E left \in 1..SessionTicks : Issue(left))
    \/ protect \/ \E c \in calls : RoundTrip_(c) \/ CallEnds(c)
    \/ Bootout \/ ExitBegins \/ ExitDrained \/ LockReleased \/ CancelNoticed \/ DaemonCrash
    \/ InstallStart \/ InstallStopped \/ InstallCopy \/ Bootstrap
    \/ ServiceTick

ServiceSpec == ServiceInit /\ [][ServiceNext]_serviceVars

--------------------------------------------------------------------------------
(* One listener, of a generation that was saved.  Run awaits its workers:    *)
(* one that outlives the daemon's lock was started by a reload that came in  *)
(* while the daemon was ending, and the process is about to end.             *)
ServiceTypeOK ==
    /\ profileWorker.gen \in 0..saved.gen
    /\ profileWorker.state \in {"serving", "draining"} /\ lock = 0 => profileWorker.late /\ ending.phase = "leaving"

(* A reload that takes a new identity waits until the old one is gone: no    *)
(* call let in under an earlier identity goes on beside the new one, not     *)
(* even when the reload overtakes the daemon's end.                          *)
OldIdentityGone == \A c \in calls : c.gen = profileWorker.gen

(* A store that cannot be loaded leaves the profiles of a daemon as they are *)
(* until it ends.                                                            *)
BadStoreKeepsProfiles ==
    [][lock # 0 /\ lock' = lock /\ ~saved.ok /\ control = Idle_ /\ ending = Running_ /\ ending'.phase = "no"
         => control' = Idle_ /\ profileWorker'.state = profileWorker.state]_serviceVars

(* No call leaves with a certificate or a session that is over, also when it *)
(* was let in before, or while a renewal is being installed.                 *)
NoExpiredCredential == ~expired

(* An installation that finds the job loaded replaces the binary only after  *)
(* the daemon has let go of its lock.  One that finds no job and no answer   *)
(* waits for nothing, and may replace it while a daemon is still ending.     *)
ReplacedWhenStopped == ~swapped
(* Through reloads, renewals, its own end and replacements of its binary the *)
(* background service acts under one current identity at a time, and a store *)
(* it cannot load changes nothing.                                           *)
ServiceHonest ==
    [](ServiceTypeOK /\ OldIdentityGone /\ NoExpiredCredential /\ ReplacedWhenStopped) /\ BadStoreKeepsProfiles
=============================================================================
