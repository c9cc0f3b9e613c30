---------------------------- MODULE MCDelegation ----------------------------
\* Two tasks, two boundaries, three windows: one may lie inside another, of the
\* same boundary or of the other one, and be left while the child runs on.
EXTENDS Delegation, TLC
CONSTANTS here, there
MCOrigins == {here, there}
MCSymmetry == Permutations(MCOrigins)
=============================================================================
