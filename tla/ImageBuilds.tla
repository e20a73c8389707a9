----------------------------- MODULE ImageBuilds -----------------------------
(***************************************************************************)
(* `mcp-runtime update --build`: one goroutine per image that must be      *)
(* built, a channel that lets Parallelism of them run, retries of a failed *)
(* build, and a context that the first error cancels for all of them.  The *)
(* registry outlives the command, so what an earlier attempt published is  *)
(* found by the next one.                                                  *)
(***************************************************************************)
EXTENDS Naturals, FiniteSets

CONSTANTS
    Images,       \* the images the plan changes
    Commits,      \* the commit an image's tag names, or "none": [Images -> STRING]
    Parallelism,  \* --build-parallelism
    Retries,      \* defaultBuildRetries
    MaxBuildRuns  \* bound on how often the command is run

ASSUME BuildAssumption == IsFiniteSet(Images) /\ Parallelism \in Nat /\ Retries \in Nat

VARIABLES
    checkout,     \* the commit the working copy is at
    registry,     \* the images in the registry
    builds,       \* [phase, todo, err, published]: the running buildAndPushChanged
    builder,      \* [Images -> where its goroutine is]
    buildRuns

buildVars == <<checkout, registry, builds, builder, buildRuns>>

NoBuilds == [phase |-> "idle", todo |-> {}, err |-> FALSE, published |-> {}]
Done == [at |-> "done", attempt |-> 0]
HoldingPlace == {i \in Images : builder[i].at \in {"turn", "building", "built", "pushing"}}

BuildInit ==
    /\ checkout \in {Commits[i] : i \in Images} \cup {"other"}
    /\ registry \in {{}, {CHOOSE i \in Images : TRUE}}
    /\ builds = NoBuilds
    /\ builder = [i \in Images |-> Done]
    /\ buildRuns = 0

\* Mutant: an image that names a commit is taken from the registry too.
Mutant_ReusesCommitTag == {i \in Images : i \notin registry}

\* An image whose tag names a commit is always rebuilt; another one only if the registry lacks it.
planImageBuilds == {i \in Images : Commits[i] # "none" \/ i \notin registry}

\* All the commits that the tags name are one, and the working copy is clean at that one.
verifyReleaseSource(todo) ==
    \A i \in todo : Commits[i] \in {"none", checkout}

\* The registry probe of planImageBuilds may fail: nothing has happened.
StartBuilds ==
    /\ builds.phase = "idle" /\ buildRuns < MaxBuildRuns
    /\ buildRuns' = buildRuns + 1
    /\ LET todo == planImageBuilds IN
       \/ builds' = [NoBuilds EXCEPT !.phase = "probeFailed"] /\ UNCHANGED builder
       \/ /\ ~verifyReleaseSource(todo)
          /\ builds' = [NoBuilds EXCEPT !.phase = "refused"] /\ UNCHANGED builder
       \/ /\ verifyReleaseSource(todo)
          /\ builds' = [NoBuilds EXCEPT !.phase = "running", !.todo = todo]
          /\ builder' = [i \in Images |-> IF i \in todo THEN [at |-> "waiting", attempt |-> 0] ELSE Done]
    /\ UNCHANGED <<checkout, registry>>

BuildCancelled == builds.err

BuilderAt(i, where) == builder' = [builder EXCEPT ![i].at = where]

\* recordErr keeps the first error and cancels the context.
recordErr(i) == BuilderAt(i, "done") /\ builds' = [builds EXCEPT !.err = TRUE]

\* The goroutine gets a place in the channel, or sees the cancellation first: with both ready, either.
TakePlace(i) ==
    /\ builds.phase = "running" /\ builder[i].at = "waiting"
    /\ \/ Cardinality(HoldingPlace) < Parallelism /\ BuilderAt(i, "turn")
       \/ BuildCancelled /\ BuilderAt(i, "done")
    /\ UNCHANGED <<checkout, registry, builds, buildRuns>>

\* The head of the retry loop: a cancelled context ends the goroutine without an error of its own.
BeginAttempt(i) ==
    /\ builder[i].at = "turn"
    /\ IF BuildCancelled
       THEN BuilderAt(i, "done")
       ELSE builder' = [builder EXCEPT ![i] = [at |-> "building", attempt |-> @.attempt + 1]]
    /\ UNCHANGED <<checkout, registry, builds, buildRuns>>

\* docker build ends.  A build that the cancellation interrupts fails too, and is not tried again.
EndAttempt(i) ==
    /\ builder[i].at = "building"
    /\ \/ BuilderAt(i, "built") /\ UNCHANGED builds
       \/ builder[i].attempt <= Retries /\ BuilderAt(i, "turn") /\ UNCHANGED builds
       \/ builder[i].attempt > Retries /\ recordErr(i)
    /\ UNCHANGED <<checkout, registry, buildRuns>>

BeginPush(i) ==
    /\ builder[i].at = "built"
    /\ BuilderAt(i, IF BuildCancelled THEN "done" ELSE "pushing")
    /\ UNCHANGED <<checkout, registry, builds, buildRuns>>

\* A push may fail after the registry has the image.
EndPush(i) ==
    /\ builder[i].at = "pushing"
    /\ \/ /\ registry' = registry \cup {i}
          /\ BuilderAt(i, "done") /\ builds' = [builds EXCEPT !.published = @ \cup {i}]
       \/ registry' \in {registry, registry \cup {i}} /\ recordErr(i)
    /\ UNCHANGED <<checkout, buildRuns>>

\* wg.Wait returns: the command goes on to the cluster, or ends with the first error.
EndBuilds ==
    /\ builds.phase = "running" /\ \A i \in Images : builder[i].at = "done"
    /\ builds' = [builds EXCEPT !.phase = IF builds.err THEN "failed" ELSE "ready"]
    /\ UNCHANGED <<checkout, registry, builder, buildRuns>>

\* The next command, of the same release.
ReturnBuilds ==
    /\ builds.phase \in {"probeFailed", "refused", "failed", "ready"}
    /\ builds' = NoBuilds
    /\ UNCHANGED <<checkout, registry, builder, buildRuns>>

BuilderStep(i) == TakePlace(i) \/ BeginAttempt(i) \/ EndAttempt(i) \/ BeginPush(i) \/ EndPush(i)
BuildNext == StartBuilds \/ EndBuilds \/ ReturnBuilds \/ \E i \in Images : BuilderStep(i)

\* Every build and push ends, by itself or by the cancellation.
BuildFairness == WF_buildVars(EndBuilds) /\ \A i \in Images : WF_buildVars(BuilderStep(i))
BuildSpec == BuildInit /\ [][BuildNext]_buildVars /\ BuildFairness

-----------------------------------------------------------------------------
\* The command reaches the cluster only with every image of the plan in the registry, and each one
\* that names a commit was built from that commit by this very command.
ImagesBeforeRollout ==
    builds.phase = "ready" =>
        /\ Images \subseteq registry
        /\ \A i \in Images : Commits[i] # "none" => i \in builds.published

\* Nothing is built or pushed once buildAndPushChanged has returned, at most Parallelism at a time
\* before, and what the error message calls published is in the registry.
BuildersBounded ==
    /\ Cardinality(HoldingPlace) <= Parallelism
    /\ builds.phase # "running" => \A i \in Images : builder[i].at = "done"
    /\ builds.published \subseteq registry

\* The builds end: no goroutine waits for a place that nobody gives back.
BuildsEnd == (builds.phase = "running") ~> (builds.phase \in {"ready", "failed"})

\* An update's images are this commit's and there when the cluster is told to use them, and no builder
\* runs behind the command's back.
BuildersSound == ImagesBeforeRollout /\ BuildersBounded
=============================================================================
