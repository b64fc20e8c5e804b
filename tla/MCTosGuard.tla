----------------------------- MODULE MCTosGuard -----------------------------
(* Two sources, interchangeable, on a clock of a few ticks.                 *)
EXTENDS TosGuard, TLC

CONSTANTS s1, s2

MCSources == {s1, s2}

Symmetry == Permutations(MCSources)
=============================================================================
