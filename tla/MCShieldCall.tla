---------------------------- MODULE MCShieldCall ----------------------------
(* Two calls and a refresher, a time to live of one.                        *)
EXTENDS ShieldCall, TLC

CONSTANTS c1, c2
MCCallers == {c1, c2}
Symmetry  == Permutations(MCCallers)
=============================================================================
