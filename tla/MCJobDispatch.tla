--------------------------- MODULE MCJobDispatch ---------------------------
(***************************************************************************)
(* Instances of JobDispatch.  The times to live are scaled down, in the    *)
(* order the code has them: cooldown < lock < message id.                  *)
(***************************************************************************)
EXTENDS JobDispatch, TLC

CONSTANTS p1, p2, i0, i1, m1, m2, r1, k1, k2

TwoInOneRoom == (m1 :> r1) @@ (m2 :> r1)
Alike == Permutations({i0, i1}) \cup Permutations({m1, m2})

=============================================================================
