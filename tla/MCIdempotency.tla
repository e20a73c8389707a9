---------------------------- MODULE MCIdempotency ----------------------------
(***************************************************************************)
(* Instances of Idempotency for TLC.  s1 and s2 are sessions of one        *)
(* principal, so that session and principal quotas nest; s3 belongs to     *)
(* another principal and meets the first only at the global bounds.        *)
(***************************************************************************)
EXTENDS Idempotency, TLC

CONSTANTS k1, k2, k3, k4, k5, k6, s1, s2, s3, p1, p2

MCPrincipalOf == s1 :> p1 @@ s2 :> p1 @@ s3 :> p2

\* The window runs: two keys of one session and one of its sibling.
WindowSessionOf == k1 :> s1 @@ k2 :> s1 @@ k3 :> s2
WindowSymmetry == Permutations(Handlers) \cup Permutations(Hashes)
                  \cup Permutations(Bodies) \cup Permutations({k1, k2})

\* The quota runs: more keys than any quota holds, no passing time.
QuotaSessionOf == k1 :> s1 @@ k2 :> s1 @@ k3 :> s1 @@ k4 :> s2 @@ k5 :> s2
                  @@ k6 :> s3
QuotaSymmetry == Permutations(Handlers) \cup Permutations({k1, k2, k3})
                 \cup Permutations({k4, k5})
=============================================================================
