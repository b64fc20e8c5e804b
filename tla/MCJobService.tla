---------------------------- MODULE MCJobService ----------------------------
(* Three jobs, of which the first two have a case and are alike otherwise.  *)
EXTENDS JobService, TLC

CONSTANTS j1, j2, j3

Symmetry == Permutations({j1, j2})
=============================================================================
