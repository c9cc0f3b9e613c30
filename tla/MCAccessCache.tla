-------------------------- MODULE MCAccessCache --------------------------
(***************************************************************************)
(* AccessCache with two callers, one request and two rotations.           *)
(***************************************************************************)
EXTENDS AccessCache, TLC

CONSTANTS c1, c2, k1

CallerSymmetry == Permutations(Callers)
=============================================================================
