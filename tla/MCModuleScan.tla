---------------------------- MODULE MCModuleScan ----------------------------
(* An ordinary module, two sources and a refused one over two permits.       *)
EXTENDS ModuleScan

CONSTANTS m1, s1, s2, r1

MCPlain   == {m1}
MCSources == {s1, s2, r1}
MCRefused == {r1}
=============================================================================
