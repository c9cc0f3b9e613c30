----------------------------- MODULE MCHistory -----------------------------
\* Two agents retry under the key, threads of one process, with a thread of
\* shielded calls beside them; an agent of another process retries as well.
EXTENDS LocalHistory, TLC
CONSTANTS agent, thread, calls, other, a, b
MCProc(c) == IF c = other THEN "p2" ELSE "p1"
Sym == Permutations({agent, thread}) \cup Permutations({a, b})
HistorySpec == H!Spec
=============================================================================
