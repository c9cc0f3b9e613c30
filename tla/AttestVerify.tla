---------------------------- MODULE AttestVerify ----------------------------
(***************************************************************************)
(* The verifier of Core's attestations (attest_verify.py, attestVerify.ts  *)
(* and the attest-verify command of both SDKs): one document is judged     *)
(* against what the deployment pinned and against the observation that the *)
(* state file holds, and the file is advanced.                             *)
(*                                                                         *)
(* Core keeps a ledger, which grows, stands still, is rotated (a lower     *)
(* head, the same genesis) or replaced, and signs documents about it.      *)
(* They arrive late, repeated and out of order, some not from this Core.   *)
(* Verifier processes load the file, judge a document and write the file   *)
(* in place; they may be killed between any two of these.  A process whose *)
(* command line names no document only asks whether one arrived lately.    *)
(***************************************************************************)
EXTENDS Integers, FiniteSets

CONSTANTS
    Verifiers,  \* processes that run attest-verify
    Timers,     \* those whose command line names no document
    Choices,    \* command lines, a subset of Options
    MaxSeq,     \* bound on the height of the ledger
    MaxCuts,    \* bound on rotations and replacements
    MaxTime,    \* bound on the clock
    MaxDocs,    \* bound on the documents
    MaxFaulty,  \* bound on those with a fault
    MaxResets,  \* bound on the resets acknowledged
    MaxAge, MaxSkew, Interval   \* of the command line

VARIABLES
    options,   \* what the command line asks for
    now,
    ledger,    \* Core's: height, the number of cuts, genesis
    issued,    \* the documents that may arrive, at any time and repeatedly
    disk,      \* the state file: Absent, Broken or an observation
    at,        \* where each process is
    prev,      \* what it loaded, Absent when there was no file
    doc,       \* the document it judges
    verdict,   \* the outcome of each check, and of the timer
    moved,     \* what it is to write, Absent when nothing
    quiet      \* history: the height of the last clean run, -1 before the
               \* first and after the operator cleared or reset the file

vars == <<options, now, ledger, issued, disk, at, prev, doc, verdict, moved, quiet>>

-----------------------------------------------------------------------------
(* Documents and observations.                                              *)

DocFaults == {"malformed", "fractional", "unsigned", "garbled", "forged", "digest", "key", "label",
              "host", "nonce", "old", "future", "undated", "abnormal", "chain", "headless",
              "nothing", "missing", "inconsistent", "inventory"}

\* A document about the ledger l, dated t, with at most one thing wrong.
Document(l, t, fault) ==
    [seq |-> l.seq, hash |-> IF fault = "headless" THEN <<>> ELSE <<l.cuts, l.seq>>,
     genesis |-> l.genesis, fault |-> fault,
     date |-> CASE fault = "undated" -> -1
                [] fault = "old"     -> IF t > MaxAge THEN t - MaxAge - 1 ELSE 0
                [] fault = "future"  -> t + MaxSkew + 1
                [] OTHER             -> t]

Undated == -1
Dated(d) == d # Undated

Absent == [kind |-> "absent"]
Broken == [kind |-> "broken"]
\* (The number of observations is only reported.)
Observation(d, resets) ==
    [kind |-> "state", seq |-> d.seq, hash |-> d.hash, genesis |-> d.genesis, date |-> d.date,
     resets |-> resets]

-----------------------------------------------------------------------------
(* verify_attestation.                                                      *)

Outcome(holds) == IF holds THEN "pass" ELSE "fail"

ContentChecks == {"message_digest", "signing_key", "host", "nonce", "freshness", "core_abnormal",
                  "chain_status", "sequence_advanced", "chain_linked", "chain_identity",
                  "judged_nonzero", "payload_intact", "metadata_consistent", "inventory"}
DocumentChecks == <<"document", "signature_present", "signature_valid">>
AllChecks == ContentChecks \cup {DocumentChecks[i] : i \in 1..3}

\* A field is missing, or has another type. A count written 4.0 is refused in
\* Python and accepted in Node.
FieldFaults == {"malformed", "fractional"}
ParseAttestation(d)     == d.fault \notin FieldFaults
NodeParseAttestation(d) == d.fault # "malformed"
Parses(d) == IF options.node THEN NodeParseAttestation(d) ELSE ParseAttestation(d)

\* The findings and the rest of the signed message are rebuilt from the
\* document: a signature made for other content does not verify.
CanonicalMessage(d) == d.fault # "forged"
HexBytes(d)         == d.fault # "garbled"

\* The first of the checks that decides whether the content may be believed.
Unreadable(d) == CASE ~Parses(d)                        -> 1
                   [] d.fault = "unsigned"              -> 2
                   [] ~HexBytes(d) \/ ~CanonicalMessage(d) -> 3
                   [] OTHER                             -> 0

Nonce(d) == IF options.challenged THEN Outcome(d.fault # "nonce")
            ELSE IF options.unchallenged THEN "skip" ELSE "fail"

Freshness(d) == Outcome(/\ Dated(d.date)
                        /\ now - d.date <= MaxAge
                        /\ d.date - now <= MaxSkew)

\* Silence: nothing of it can be told without an observation before.
NoBaseline == IF options.requirePrevious THEN "fail" ELSE "skip"
\* Fault: the same height as last time counts as an advance.
AdvancedOrSame(d, p)   == IF p = Absent THEN NoBaseline ELSE Outcome(d.seq >= p.seq)
SequenceAdvanced(d, p) == IF p = Absent THEN NoBaseline ELSE Outcome(d.seq > p.seq)
ChainLinked(d, p)      == IF p = Absent THEN NoBaseline
                          ELSE Outcome(d.hash # <<>> /\ d.hash # p.hash)
ChainIdentity(d, p)    == IF p = Absent THEN NoBaseline ELSE Outcome(d.genesis = p.genesis)

\* Losses that the signed message counts.
Losses(d, loss) == Outcome(d.fault # loss)

Inventory(d) == IF options.capsules THEN Outcome(d.fault # "inventory") ELSE "skip"

Content(d, p) ==
    [c \in ContentChecks |->
        CASE c = "message_digest"      -> Outcome(d.fault # "digest")
          [] c = "signing_key"         -> Outcome(d.fault \notin {"key", "label"})
          [] c = "host"                -> Outcome(d.fault # "host")
          [] c = "nonce"               -> Nonce(d)
          [] c = "freshness"           -> Freshness(d)
          [] c = "core_abnormal"       -> Outcome(d.fault # "abnormal")
          [] c = "chain_status"        -> Outcome(d.fault # "chain")
          [] c = "sequence_advanced"   -> SequenceAdvanced(d, p)
          [] c = "chain_linked"        -> ChainLinked(d, p)
          [] c = "chain_identity"      -> ChainIdentity(d, p)
          [] c = "judged_nonzero"      -> Losses(d, "nothing")
          [] c = "payload_intact"      -> Losses(d, "missing")
          [] c = "metadata_consistent" -> Losses(d, "inconsistent")
          [] c = "inventory"           -> Inventory(d)]

\* What is not signed is not judged: its content is skipped, not passed.
VerifyAttestation(d, p) ==
    LET bad == Unreadable(d)
        Standing(i) == IF bad = 0 \/ i < bad THEN "pass" ELSE IF i = bad THEN "fail" ELSE "skip"
    IN [c \in AllChecks |->
           IF c \in ContentChecks THEN IF bad = 0 THEN Content(d, p)[c] ELSE "skip"
           ELSE Standing(CHOOSE i \in 1..3 : DocumentChecks[i] = c)]

\* The observation that the document is entitled to leave: it is signed by the
\* pinned key and about the pinned host, whatever else is wrong with it.
Entitled(d) == Unreadable(d) = 0 /\ d.fault \notin {"key", "host"}
NextState(d, p) ==
    IF ~Entitled(d) THEN Absent ELSE Observation(d, IF p = Absent THEN 0 ELSE p.resets)

-----------------------------------------------------------------------------
(* advance_state and report_arrived_check.                                  *)

\* Fault: whatever arrived last is the baseline.
AdvanceToLast(p, next, reset) == next
\* Fault: a higher head brings its date with it.
AdvanceWhole(p, next, reset) ==
    IF next = Absent \/ p = Absent \/ next.seq > p.seq THEN next
    ELSE IF reset /\ next.seq < p.seq THEN [next EXCEPT !.resets = @ + 1] ELSE Absent
\* Height and date move forward on their own; a lower head is adopted only when
\* the operator says the reset was theirs. Absent: leave the file alone.
AdvanceState(p, next, reset) ==
    LET newer   == Dated(next.date) /\ Dated(p.date) /\ next.date > p.date
        forward == next.seq > p.seq
        head    == IF forward \/ (reset /\ next.seq < p.seq) THEN next ELSE p
    IN IF next = Absent \/ p = Absent THEN next
       ELSE IF ~forward /\ ~newer /\ ~(reset /\ next.seq < p.seq) THEN Absent
       ELSE Observation([head EXCEPT !.date = IF newer THEN next.date ELSE p.date],
                        IF reset /\ next.seq < p.seq THEN p.resets + 1 ELSE p.resets)

\* Fault: without a baseline there is nothing to be late.
NothingIsLate(p)      == Outcome(p = Absent \/ now - p.date <= Interval)
ReportArrivedCheck(p) == Outcome(p # Absent /\ Dated(p.date) /\ now - p.date <= Interval)

\* The Node SDK, line for line.
NodeVerifyAttestation(d, p)    == VerifyAttestation(d, p)
NodeNextState(d, p)            == NextState(d, p)
NodeAdvanceState(p, next, r)   == AdvanceState(p, next, r)
NodeReportArrivedCheck(p)      == ReportArrivedCheck(p)

-----------------------------------------------------------------------------
(* The state file and the command.                                          *)

\* --report-within: the timer looks at the baseline before this document.
Timer(p) == IF ~options.timer THEN "skip"
            ELSE IF options.node THEN NodeReportArrivedCheck(p) ELSE ReportArrivedCheck(p)
WithTimer(checks, p) ==
    [c \in AllChecks \cup {"report_arrived"} |-> IF c = "report_arrived" THEN Timer(p) ELSE checks[c]]

CmdAttestVerify(d, p)     == WithTimer(VerifyAttestation(d, p), p)
NodeCmdAttestVerify(d, p) == WithTimer(NodeVerifyAttestation(d, p), p)
\* Without --state nothing is loaded and nothing is written.
Moved(d, p, reset) == IF ~options.state THEN Absent
                      ELSE IF options.node THEN NodeAdvanceState(p, NodeNextState(d, p), reset)
                      ELSE AdvanceState(p, NextState(d, p), reset)

\* Fault: a file that cannot be read counts as none.
LoadOrNothing(file) == IF file = Broken THEN Absent ELSE file
LoadState(file)     == file
NodeLoadState(file) == LoadState(file)

\* A run begins: the file is read, a file that cannot be read ends it.
Load(p) ==
    LET file == IF ~options.state THEN Absent
                ELSE IF options.node THEN NodeLoadState(disk) ELSE LoadState(disk)
    IN /\ at[p] = "idle" /\ file # Broken
       /\ prev' = [prev EXCEPT ![p] = file]
       /\ at' = [at EXCEPT ![p] = "loaded"]
       /\ UNCHANGED <<options, now, ledger, issued, disk, doc, verdict, moved, quiet>>

NoDocument == [fault |-> "no document"]
NoVerdict == [c \in {} |-> "skip"]
Ok(v) == \A c \in DOMAIN v : v[c] # "fail"

\* The document is judged, and with --report-within the timer.
Judge(p) ==
    /\ at[p] = "loaded" /\ p \notin Timers
    /\ \E d \in issued, reset \in {FALSE, options.acceptReset} :
          /\ reset /\ prev[p] # Absent => prev[p].resets < MaxResets
          /\ doc' = [doc EXCEPT ![p] = d]
          /\ verdict' = [verdict EXCEPT ![p] = IF options.node THEN NodeCmdAttestVerify(d, prev[p])
                                                   ELSE CmdAttestVerify(d, prev[p])]
          /\ moved' = [moved EXCEPT ![p] = Moved(d, prev[p], reset)]
    /\ at' = [at EXCEPT ![p] = "judged"]
    /\ UNCHANGED <<options, now, ledger, issued, disk, prev, quiet>>

\* Timer-only: nothing is read, asked or written; the timer alone decides.
OnlyTimer(p) ==
    /\ at[p] = "loaded" /\ p \in Timers /\ options.timer
    /\ verdict' = [verdict EXCEPT ![p] = [c \in {"report_arrived"} |-> Timer(prev[p])]]
    /\ at' = [at EXCEPT ![p] = "judged"]
    /\ UNCHANGED <<options, now, ledger, issued, disk, prev, doc, moved, quiet>>

\* What the process held is gone with it.
Ends(p) ==
    /\ at' = [at EXCEPT ![p] = "idle"]
    /\ prev' = [prev EXCEPT ![p] = Absent]
    /\ doc' = [doc EXCEPT ![p] = NoDocument]
    /\ verdict' = [verdict EXCEPT ![p] = NoVerdict]
    /\ moved' = [moved EXCEPT ![p] = Absent]

\* No document could be obtained, or neither it nor the timer was asked for.
NoReport(p) ==
    /\ at[p] = "loaded" /\ (p \in Timers => ~options.timer)
    /\ Ends(p)
    /\ UNCHANGED <<options, now, ledger, issued, disk, quiet>>

\* The file is emptied when it is opened, and full when it is closed.
Truncate(p) ==
    /\ at[p] = "judged" /\ moved[p] # Absent
    /\ disk' = Broken
    /\ at' = [at EXCEPT ![p] = "saving"]
    /\ UNCHANGED <<options, now, ledger, issued, prev, doc, verdict, moved, quiet>>

\* The operator has taken the lower head for a reset of their own.
Lowered(p) == prev[p] # Absent /\ moved[p].resets > prev[p].resets
Write(p) ==
    /\ at[p] = "saving"
    /\ disk' = moved[p]
    /\ at' = [at EXCEPT ![p] = "saved"]
    /\ quiet' = IF Lowered(p) THEN -1 ELSE quiet
    /\ UNCHANGED <<options, now, ledger, issued, prev, doc, verdict, moved>>

\* The exit code says whether a check failed.
Exit(p) ==
    /\ at[p] = "saved" \/ (at[p] = "judged" /\ moved[p] = Absent)
    /\ Ends(p)
    /\ quiet' = IF p \notin Timers /\ Ok(verdict[p]) THEN doc[p].seq ELSE quiet
    /\ UNCHANGED <<options, now, ledger, issued, disk>>

Killed(p) ==
    /\ at[p] # "idle"
    /\ Ends(p)
    /\ UNCHANGED <<options, now, ledger, issued, disk, quiet>>

\* Clearing an unreadable file is the operator's deliberate act.
Clear ==
    /\ disk = Broken /\ \A p \in Verifiers : at[p] = "idle"
    /\ disk' = Absent /\ quiet' = -1
    /\ UNCHANGED <<options, now, ledger, issued, at, prev, doc, verdict, moved>>

-----------------------------------------------------------------------------
(* Core and time.                                                           *)

Record ==
    /\ ledger.seq < MaxSeq
    /\ ledger' = [ledger EXCEPT !.seq = @ + 1]
    /\ UNCHANGED <<options, now, issued, disk, at, prev, doc, verdict, moved, quiet>>

Cut ==
    /\ ledger.cuts < MaxCuts
    /\ \E genesis \in {ledger.genesis, ledger.genesis + 1} :
          ledger' = [seq |-> 1, cuts |-> ledger.cuts + 1, genesis |-> genesis]
    /\ UNCHANGED <<options, now, issued, disk, at, prev, doc, verdict, moved, quiet>>

Attest ==
    /\ Cardinality(issued) < MaxDocs
    /\ \E fault \in DocFaults \cup {"none"} :
          /\ fault = "none" \/ Cardinality({d \in issued : d.fault # "none"}) < MaxFaulty
          /\ issued' = issued \cup {Document(ledger, now, fault)}
    /\ UNCHANGED <<options, now, ledger, disk, at, prev, doc, verdict, moved, quiet>>

Tick ==
    /\ now < MaxTime
    /\ now' = now + 1
    /\ UNCHANGED <<options, ledger, issued, disk, at, prev, doc, verdict, moved, quiet>>

Options == [node: BOOLEAN, challenged: BOOLEAN, unchallenged: BOOLEAN, requirePrevious: BOOLEAN,
            capsules: BOOLEAN, timer: BOOLEAN, acceptReset: BOOLEAN, state: BOOLEAN]
Init ==
    /\ options \in Choices
    /\ now = 0 /\ ledger = [seq |-> 1, cuts |-> 0, genesis |-> 0]
    /\ issued = {} /\ disk = Absent
    /\ at = [p \in Verifiers |-> "idle"]
    /\ prev = [p \in Verifiers |-> Absent]
    /\ doc = [p \in Verifiers |-> NoDocument]
    /\ verdict = [p \in Verifiers |-> NoVerdict]
    /\ moved = [p \in Verifiers |-> Absent]
    /\ quiet = -1

Next ==
    \/ \E p \in Verifiers : Load(p) \/ Judge(p) \/ OnlyTimer(p) \/ NoReport(p) \/ Truncate(p) \/ Write(p) \/ Exit(p)
                               \/ Killed(p)
    \/ Clear \/ Record \/ Cut \/ Attest \/ Tick
Spec == Init /\ [][Next]_vars

-----------------------------------------------------------------------------
\* Two clean runs never rest on the same height of the ledger, or on a lower
\* one after a higher: a boundary that stopped recording is told at the next
\* run, whatever documents are late, repeated or out of order and wherever the
\* verifier was killed. (advance_state, sequence_advanced; with a state file,
\* and one verifier that judges documents at a time, see the README for two)
QuietIsSeen ==
    options.state => \A p \in Verifiers \ Timers :
        at[p] \in {"judged", "saving", "saved"} /\ Ok(verdict[p]) => doc[p].seq > quiet

\* The baseline on disk never falls, in height or in date, unless the operator
\* said that the ledger was reset; and only a document of this Core about this
\* host sets it.
Baselines == {disk} \ {Absent, Broken}
BaselineHolds ==
    [][\A old \in Baselines, p \in Verifiers :
          at[p] = "judged" /\ at'[p] = "saving" /\ moved[p].resets = old.resets
          => /\ moved[p].seq >= old.seq
             /\ moved[p].date >= old.date
             /\ Entitled(doc[p])]_vars

\* Once there was a baseline, no run goes without one, but for a deliberate
\* clearing of the file: a run killed while it wrote leaves a file that is
\* refused, never one that silences the checks of silence (load_state).
SilenceNeverSkipped ==
    options.state => \A p \in Verifiers \ Timers :
        at[p] \in {"judged", "saved"} /\ prev[p] = Absent => disk = Absent \/ disk = moved[p]

\* The date of the baseline is that of a document of this Core about this host.
Reported(p) == Dated(p.date) /\ \E d \in issued : Entitled(d) /\ d.date = p.date

\* A clean verdict rests on checks that ran: what is skipped is what the
\* command line left out or what needs a baseline there never was; and with
\* --report-within, also when nothing else was asked for, there was a report to
\* be on time: a document of this Core about this host, whatever wrote the file
\* since. (cmd_attest_verify)
CleanIsChecked ==
    \A p \in Verifiers : at[p] # "idle" /\ verdict[p] # NoVerdict /\ Ok(verdict[p]) =>
        /\ \A c \in DOMAIN verdict[p] \ {"report_arrived"} : verdict[p][c] = "skip" =>
              \/ c = "nonce" /\ ~options.challenged
              \/ c = "inventory" /\ ~options.capsules
              \/ c \in {"sequence_advanced", "chain_linked", "chain_identity"} /\ prev[p] = Absent
        /\ options.timer => prev[p] # Absent /\ Reported(prev[p])
=============================================================================
