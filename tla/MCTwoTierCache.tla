--------------------------- MODULE MCTwoTierCache ---------------------------
(* TwoTierCache on small instances: two callers share replica r1.           *)
EXTENDS TwoTierCache, TLC

CONSTANTS r1, r2, c1, c2, c3

MCHome == (c1 :> r1) @@ (c2 :> r1) @@ (c3 :> r2)

\* The callers of r1 are interchangeable.
CallerSymmetry == Permutations({c1, c2})

\* One caller per replica, for the liveness run.
MCHomeTwo == (c1 :> r1) @@ (c3 :> r2)
=============================================================================
