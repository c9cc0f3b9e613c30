------------------------------ MODULE History ------------------------------
(***************************************************************************)
(* The local history (history.py, history.ts): processes append to one     *)
(* file, a row per shielded call (record_if_enabled) and, for callers that *)
(* retry, a row per idempotency key (record_idempotent).                   *)
(*                                                                         *)
(* Python: a SQLite file in WAL mode and one connection per process, which *)
(* its threads share. sqlite3 begins a transaction at the first INSERT and *)
(* ends it at commit: a SELECT inside it keeps its snapshot, one writer at *)
(* a time holds the lock, and a transaction whose INSERT failed stays      *)
(* begun. Node: a file of lines, a cache of the keys, one thread.          *)
(***************************************************************************)
EXTENDS Integers, Sequences, FiniteSets, FiniteSetsExt

CONSTANTS
    Callers,    \* who records
    Proc(_),    \* the process of a caller
    Keyed,      \* the callers that use the idempotency key; there is one key
    Payloads,
    Sdks,       \* FALSE: Python, TRUE: Node
    MaxRows,    \* bound on the file
    MaxFaults   \* bound on crashes, failed writes and failed opens

NoPayload == "none"
Plain == "plain"         \* what a row without a key holds
Unseeded == "unseeded"   \* a cache that has not been filled
HistoryAssumption ==
    /\ Keyed \subseteq Callers
    /\ Payloads \cap {NoPayload, Unseeded, Plain} = {}
    /\ Sdks \subseteq BOOLEAN

VARIABLES
    node,       \* the SDK
    file,       \* what is on disk: rows, and torn lines (Node)
    store,      \* per process: "unopened", "open", "off"
    txn,        \* Python, per process: the connection's transaction
    open,       \* Python, per process: its inserted, uncommitted rows
    seen,       \* Node, per process: the cache of the key
    at, payload,\* per caller: where it is, what it records
    told,       \* what callers were answered about the key
    faults,
    overtaken,  \* callers whose look at the key is older than a row under it
    raced       \* such a caller has appended

looks == <<overtaken, raced>>
vars == <<node, file, store, txn, open, seen, at, payload, told, faults, overtaken, raced>>

Procs == {Proc(c) : c \in Callers}
Row(keyed, p) == [keyed |-> keyed, payload |-> p, ended |-> TRUE]
\* What a failed append of Node may leave: a part of the line, or all of it but
\* the newline at its end.
Torn == [keyed |-> FALSE, payload |-> "torn", ended |-> FALSE]
Unended(keyed, p) == [Row(keyed, p) EXCEPT !.ended = FALSE]

\* Transactions: none, begun without a read, or reading the first n rows.
NoTxn == -2
Begun == -1
Reading(p) == txn[p] >= 0

\* The rows under the key; the one that a SELECT returns is the first.
Hits(rows) == {i \in 1..Len(rows) : rows[i].keyed}
Under(rows) == IF Hits(rows) = {} THEN NoPayload ELSE rows[Min(Hits(rows))].payload

-----------------------------------------------------------------------------
(* Opening the store.                                                       *)

\* The store is looked for once, by the first shielded call: an open that fails
\* leaves it off.
GetStore(p) ==
    /\ store[p] = "unopened"
    /\ \E c \in Callers \ Keyed : Proc(c) = p
    /\ \/ store' = [store EXCEPT ![p] = "open"] /\ UNCHANGED faults
       \/ faults < MaxFaults /\ faults' = faults + 1
          /\ store' = [store EXCEPT ![p] = "off"]
    /\ UNCHANGED <<node, file, txn, open, seen, at, payload, told, overtaken, raced>>

\* A caller of record_idempotent holds a store that it opened itself.
Usable(c) == store[Proc(c)] = "open" \/ c \in Keyed

\* pending: the answer speaks of a row that another thread of the process has
\* yet to commit.
Told(a, p, pending) == [answer |-> a, payload |-> p, pending |-> pending]
Answer(c, a) ==
    /\ told' = IF c \in Keyed THEN told \cup {Told(a, payload[c], FALSE)} ELSE told
    /\ at' = [at EXCEPT ![c] = "idle"]
    /\ payload' = [payload EXCEPT ![c] = NoPayload]

-----------------------------------------------------------------------------
(* Python.                                                                  *)

Snapshot(p) == IF Reading(p) THEN SubSeq(file, 1, txn[p]) ELSE file
Visible(p) == Snapshot(p) \o open[p]

\* record_idempotent looks for the key; inside a transaction that was left
\* begun, the read fixes what the connection sees.
Select(c) ==
    LET p == Proc(c)
        found == Under(Visible(p))
    IN /\ ~node /\ at[c] = "idle" /\ c \in Keyed
       /\ \E new \in Payloads :
             /\ IF found = NoPayload
                THEN /\ at' = [at EXCEPT ![c] = "missed"]
                     /\ payload' = [payload EXCEPT ![c] = new]
                     /\ overtaken' = IF Hits(file) = {} THEN overtaken ELSE overtaken \cup {c}
                     /\ UNCHANGED told
                ELSE /\ told' = told \cup {Told(IF found = new THEN "kept" ELSE "divergent", new,
                                                Hits(Snapshot(p)) = {})}
                     /\ UNCHANGED <<at, payload, overtaken>>
       /\ txn' = [txn EXCEPT ![p] = IF @ = Begun /\ open[p] = <<>> THEN Len(file) ELSE @]
       /\ UNCHANGED <<node, file, store, open, seen, faults, raced>>

\* record: the same, without a key.
Record(c) ==
    /\ ~node /\ at[c] = "idle" /\ c \notin Keyed /\ Usable(c)
    /\ payload' = [payload EXCEPT ![c] = Plain]
    /\ at' = [at EXCEPT ![c] = "missed"]
    /\ UNCHANGED <<node, file, store, txn, open, seen, told, faults, overtaken, raced>>

Locked(p) == \E q \in Procs \ {p} : open[q] # <<>>
Outdated(p) == Reading(p) /\ txn[p] < Len(file)

\* A row under the key overtakes the callers that have looked and found none:
\* in its own process as it is inserted, in the others as it is committed.
Looking == {c \in Keyed : at[c] = "missed"}

Insert(c) ==
    LET p == Proc(c) IN
    /\ at[c] = "missed" /\ ~Locked(p) /\ ~Outdated(p)
    /\ Len(file) + Len(open[p]) < MaxRows
    /\ open' = [open EXCEPT ![p] = Append(@, Row(c \in Keyed, payload[c]))]
    /\ txn' = [txn EXCEPT ![p] = IF @ = NoTxn THEN Begun ELSE @]
    /\ at' = [at EXCEPT ![c] = "inserted"]
    /\ overtaken' = (overtaken \ {c}) \cup
           IF c \in Keyed THEN {d \in Looking \ {c} : Proc(d) = p} ELSE {}
    /\ raced' = (raced \/ c \in overtaken)
    /\ UNCHANGED <<node, file, store, seen, payload, told, faults>>

\* Five seconds behind another writer, or a snapshot that is not the last one:
\* "database is locked", and the transaction stays begun.
InsertFails(c) ==
    LET p == Proc(c) IN
    /\ at[c] = "missed" /\ (Locked(p) \/ Outdated(p))
    /\ txn' = [txn EXCEPT ![p] = IF @ = NoTxn THEN Begun ELSE @]
    /\ Answer(c, "error")
    /\ overtaken' = overtaken \ {c}
    /\ UNCHANGED <<node, file, store, open, seen, faults, raced>>

\* Fault: nothing is committed.
AnswerOnly(c) ==
    /\ at[c] = "inserted"
    /\ Answer(c, "wrote")
    /\ UNCHANGED <<node, file, store, txn, open, seen, faults, overtaken, raced>>
Commit(c) ==
    LET p == Proc(c) IN
    /\ at[c] = "inserted"
    /\ file' = file \o open[p]
    /\ open' = [open EXCEPT ![p] = <<>>]
    /\ txn' = [txn EXCEPT ![p] = NoTxn]
    /\ overtaken' = IF Hits(open[p]) = {} THEN overtaken ELSE overtaken \cup Looking
    /\ Answer(c, "wrote")
    /\ UNCHANGED <<node, store, seen, faults, raced>>

-----------------------------------------------------------------------------
(* Node.                                                                    *)

\* What readAll reads: a line that was run into another, after an append that
\* left no newline, is skipped with it.
Lines == {i \in 1..Len(file) : /\ file[i] # Torn
                               /\ i > 1 => file[i - 1].ended
                               /\ i < Len(file) => file[i].ended}
\* Every keyed line is put in the cache, a later one over an earlier one.
KeptLines == Lines \cap Hits(file)
Seed == IF KeptLines = {} THEN NoPayload ELSE file[Max(KeptLines)].payload

\* Fault: the cache of a new process starts empty.
SeedEmpty(p) == IF seen[p] = Unseeded THEN NoPayload ELSE seen[p]
SeenKeys(p)  == IF seen[p] = Unseeded THEN Seed ELSE seen[p]

\* A row under the key overtakes the processes whose cache has none.
Overtakes(c) ==
    IF c \in Keyed
    THEN /\ overtaken' = overtaken \cup {d \in Keyed : Proc(d) # Proc(c) /\ seen[Proc(d)] = NoPayload}
         /\ raced' = (raced \/ c \in overtaken)
    ELSE UNCHANGED looks

\* The line is appended, then remembered. A disk that fills up leaves a part of
\* the line, or all but its end, or nothing, and the call throws.
AppendLine(c, new) ==
    \/ /\ file' = Append(file, Row(c \in Keyed, new)) /\ UNCHANGED faults
       /\ told' = IF c \in Keyed THEN told \cup {Told("wrote", new, FALSE)} ELSE told
       /\ seen' = [seen EXCEPT ![Proc(c)] = IF c \in Keyed THEN new ELSE @]
       /\ Overtakes(c)
    \/ /\ faults < MaxFaults /\ faults' = faults + 1
       /\ \/ file' \in {file, Append(file, Torn)} /\ UNCHANGED looks
          \/ file' = Append(file, Unended(c \in Keyed, new)) /\ Overtakes(c)
       /\ seen' = [seen EXCEPT ![Proc(c)] = IF c \in Keyed THEN SeenKeys(Proc(c)) ELSE @]
       /\ UNCHANGED told

\* The whole call is one step: Node has one thread.
RecordIdempotent(c) ==
    LET found == SeenKeys(Proc(c))
    IN /\ node /\ c \in Keyed
       /\ \E new \in Payloads :
             IF found = NoPayload
             THEN Len(file) < MaxRows /\ AppendLine(c, new)
             ELSE /\ seen' = [seen EXCEPT ![Proc(c)] = found]
                  /\ told' = told \cup {Told(IF found = new THEN "kept" ELSE "divergent", new, FALSE)}
                  /\ UNCHANGED <<file, faults, overtaken, raced>>
       /\ UNCHANGED <<node, store, txn, open, at, payload>>

NodeRecord(c) ==
    /\ node /\ c \notin Keyed /\ Usable(c) /\ Len(file) < MaxRows
    /\ AppendLine(c, Plain)
    /\ UNCHANGED <<node, store, txn, open, at, payload>>

-----------------------------------------------------------------------------
\* A process dies and another takes its place: what was not committed is gone.
Restart(p) ==
    /\ faults < MaxFaults /\ faults' = faults + 1
    /\ store' = [store EXCEPT ![p] = "unopened"]
    /\ txn' = [txn EXCEPT ![p] = NoTxn]
    /\ open' = [open EXCEPT ![p] = <<>>]
    /\ seen' = [seen EXCEPT ![p] = Unseeded]
    /\ at' = [c \in Callers |-> IF Proc(c) = p THEN "idle" ELSE at[c]]
    /\ payload' = [c \in Callers |-> IF Proc(c) = p THEN NoPayload ELSE payload[c]]
    /\ overtaken' = {c \in overtaken : Proc(c) # p}
    /\ UNCHANGED <<node, file, told, raced>>

Init ==
    /\ node \in Sdks
    /\ file = <<>> /\ told = {} /\ faults = 0
    /\ overtaken = {} /\ raced = FALSE
    /\ store = [p \in Procs |-> "unopened"]
    /\ txn = [p \in Procs |-> NoTxn]
    /\ open = [p \in Procs |-> <<>>]
    /\ seen = [p \in Procs |-> Unseeded]
    /\ at = [c \in Callers |-> "idle"]
    /\ payload = [c \in Callers |-> NoPayload]

Next ==
    \/ \E p \in Procs : GetStore(p) \/ Restart(p)
    \/ \E c \in Callers : \/ Select(c) \/ Record(c) \/ Insert(c) \/ InsertFails(c) \/ Commit(c)
                          \/ RecordIdempotent(c) \/ NodeRecord(c)
Spec == Init /\ [][Next]_vars

-----------------------------------------------------------------------------
\* A key is kept once, however often its callers retry, whoever records beside
\* them, and across restarts; unless a caller appended after a row that came in
\* behind its look at the key, from another thread or process: nothing in the
\* code rules that out between the look and the append. (record_idempotent)
Kept == IF node THEN KeptLines ELSE Hits(file)
AppendsOnce == raced \/ Cardinality(Kept) <= 1

\* What a caller is told stays true for whoever reads the file: a row told to be
\* written or kept is there with that payload, and a divergence has another
\* payload to show. Two exceptions: the answer was read off the uncommitted row
\* of another thread, or the row's line was run into another by an append that
\* failed. (record_idempotent, readAll)
RunTogether(i) ==
    /\ node
    /\ \/ i > 1 /\ ~file[i - 1].ended
       \/ i < Len(file) /\ ~file[i].ended
Shows(t, p) == IF t.answer = "divergent" THEN p # t.payload ELSE p = t.payload
Answered == {t \in told : t.answer # "error" /\ ~t.pending}
ToldIsKept ==
    \A t \in Answered : \E i \in Hits(file) : (i \in Kept \/ RunTogether(i)) /\ Shows(t, file[i].payload)

\* Neither exception is in what the comments say: "a restarted process still
\* dedupes against keys written by prior runs" (history.ts).
ToldIsReadable ==
    \A t \in told : t.answer # "error" => \E i \in Kept : Shows(t, file[i].payload)

\* Once no other process holds the lock, a connection can write. (What
\* record_if_enabled counts on: its diagnostic is given once.)
CanWriteAgain == \A p \in Procs : open[p] = <<>> => ~Outdated(p)
=============================================================================
