---------------------------- MODULE LocalHistory ----------------------------
(***************************************************************************)
(* History under names of its own, for modules that speak of another       *)
(* component as well.                                                      *)
(***************************************************************************)
CONSTANTS Recorders,  \* who records, the Callers of History
          Proc(_), Keyed, Payloads, Sdks, MaxRows, MaxFaults
VARIABLES node, file, store, txn, open, seen, at, payload, told, faults, overtaken, raced

H == INSTANCE History WITH Callers <- Recorders

ASSUME HistoryAssumption == H!HistoryAssumption

\* A key is kept once, however often its callers retry, whoever records beside
\* them, and across restarts, unless one appended after a row that came in
\* behind its look at the key (record_idempotent).
AppendsOnce == H!AppendsOnce

\* What a caller of record_idempotent was told of its key stays true for the
\* readers of the file, but for an uncommitted row of another thread and for a
\* line that a failed append ran into another.
ToldIsKept == H!ToldIsKept
ToldIsReadable == H!ToldIsReadable
=============================================================================
