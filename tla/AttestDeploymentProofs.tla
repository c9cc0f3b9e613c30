----------------------- MODULE AttestDeploymentProofs -----------------------
(***************************************************************************)
(* Proofs about the watcher, for any --renotify window or none, and about  *)
(* the verifier in all of its deployments, for any command line, any       *)
(* documents and any bounds.                                               *)
(*                                                                         *)
(*   TypeCorrect  the types of the watcher's cycle                         *)
(*   BadKnown     bad news reaches somebody, AttestWatch!BadIsKnown        *)
(*   Honest       the heartbeat file, AttestWatch!HeartbeatHonest          *)
(*   Spaced       no repeats within the window, AttestWatch!RepeatsAreSpaced *)
(*   Watches, Verifies  the deployment implements the watcher and the      *)
(*                verifier, so that the theorems above are about it too    *)
(*   NoQuiet      no clean run on a height seen before, NoCleanOnTheSame   *)
(*   Checked      what a clean verdict rests on, NothingIsSkipped          *)
(*   Stands       the baseline on disk, BaselineStands                     *)
(*                                                                         *)
(* BadIsKnown speaks of the end of a cycle; what the watcher remembers of  *)
(* the cycles before decides whether it speaks up, and a restart takes     *)
(* that memory away.  WatchInv says that the memory is never more than     *)
(* what was done: a verdict that is remembered was announced, and no page  *)
(* is older than the delivery that is remembered.  For the verifier,       *)
(* RunInv says what the file holds at each place of a run, and that the    *)
(* verdict and what is to be written come of one document and one          *)
(* baseline; QuietInv, that no clean run was ever higher than the baseline; *)
(* SentryInv, that a run that is given no document writes nothing; and     *)
(* ReportsInv, that every date in the file, and in what a run holds of it, *)
(* is that of a document.                                                  *)
(***************************************************************************)
EXTENDS AttestDeployment, TLAPS

LEMMA TypeInit == Init => TypeOK
BY DEF Init, TypeOK, Verdicts

\* An age stays within the window.
LEMMA OlderType ==
  ASSUME NEW a \in 0 .. Window \cup {None}
  PROVE  Older(a) \in 0 .. Window \cup {None}
BY WatchAssumption DEF Older, Window, WatchAssumption

LEMMA TypeNext == TypeOK /\ [Next]_vars => TypeOK'
<1> SUFFICES ASSUME TypeOK, [Next]_vars
             PROVE  TypeOK'
  OBVIOUS
<1> USE DEF TypeOK, world
<1>1. CASE Check
  <2>1. verdict' \in Verdicts
    BY <1>1 DEF Check, CrashVerdict, Verdicts, Bad
  <2> QED
    BY <1>1, <2>1 DEF Check
<1>2. CASE Decide
  BY <1>2 DEF Decide
<1>3. CASE NotifyOk
  <2>1. 0 \in 0 .. Window
    BY WatchAssumption DEF Window, WatchAssumption
  <2> QED
    BY <1>3, <2>1 DEF NotifyOk
<1>4. CASE NotifyFails
  BY <1>4 DEF NotifyFails, FailedIsNotNotified
<1>5. CASE Remember
  BY <1>5 DEF Remember, BeforeAlways
<1>6. CASE WriteHeartbeat
  BY <1>6 DEF WriteHeartbeat
<1>7. CASE Sleep
  BY <1>7, OlderType DEF Sleep
<1>8. CASE Restart
  BY <1>8, OlderType DEF Restart
<1>9. CASE Dies
  BY <1>9 DEF Dies
<1>10. CASE UNCHANGED vars
  BY <1>10 DEF vars
<1> QED
  BY <1>1, <1>2, <1>3, <1>4, <1>5, <1>6, <1>7, <1>8, <1>9, <1>10 DEF Next, Cycle

\* The watcher's variables keep their types (AttestWatch!TypeOK).
THEOREM TypeCorrect == Spec => []TypeOK
BY TypeInit, TypeNext, PTL DEF Spec

-----------------------------------------------------------------------------
(* What is remembered was done.                                             *)

\* The cycle has decided, and notified if it had to.
Decided == pc \in {"remember", "write", "sleep"}

\* Between two cycles the memory holds the last verdict, or nothing.
MemoryIsLast == pc \in {"check", "sleep", "write"} => before \in {None, verdict}
\* A bad verdict that is remembered was announced.
MemoryIsTold == reliable /\ verdict \in Bad /\ before = verdict => told
\* The last page is no older than the delivery that is remembered.
PageIsYoung ==
  age # None => page \in Nat /\ page <= age
\* Once the cycle has decided, a bad verdict is known.
KnownOnceDecided ==
  reliable /\ Decided /\ verdict \in Bad =>
    told /\ (Renotify # None => page \in Nat /\ page < Renotify)
\* The flag of the heartbeat stands for a delivery of the same cycle.
FlagIsTrue ==
  /\ pc \in {"decide", "notify"} => ~notified
  /\ Decided /\ notified => page = 0 /\ told
  /\ pc = "sleep" => file = [verdict |-> verdict, notified |-> notified]

WatchInv ==
  /\ TypeOK
  /\ MemoryIsLast
  /\ MemoryIsTold
  /\ PageIsYoung
  /\ KnownOnceDecided
  /\ FlagIsTrue

LEMMA WatchInit == Init => WatchInv
BY TypeInit
DEF Init, WatchInv, MemoryIsLast, MemoryIsTold, PageIsYoung, KnownOnceDecided,
    FlagIsTrue, Decided, Bad

LEMMA WatchNext == WatchInv /\ [Next]_vars => WatchInv'
<1> SUFFICES ASSUME WatchInv, [Next]_vars
             PROVE  WatchInv'
  OBVIOUS
<1>0. TypeOK /\ TypeOK'
  BY TypeNext DEF WatchInv
<1> USE <1>0
    DEF WatchInv, MemoryIsLast, MemoryIsTold, PageIsYoung, KnownOnceDecided,
        FlagIsTrue, Decided, world
<1>1. CASE Check
  <2>1. before = verdict' /\ verdict' \in Bad => verdict' = verdict
    BY <1>1, WatchAssumption DEF Check, Bad, WatchAssumption
  <2> QED
    BY <1>1, <2>1 DEF Check
<1>2. CASE Decide
  <2>1. ASSUME ~ShouldNotify, verdict \in Bad, reliable
        PROVE  told /\ (Renotify # None => page \in Nat /\ page < Renotify)
    <3>1. before = verdict /\ (Renotify # None => age # None /\ ~Due)
      BY <2>1 DEF ShouldNotify, Bad
    <3>2. told
      BY <2>1, <3>1
    <3>3. Renotify # None => page \in Nat /\ page < Renotify
      BY <3>1, WatchAssumption DEF Due, TypeOK, Window, WatchAssumption
    <3> QED
      BY <3>2, <3>3
  <2> QED
    BY <1>2, <2>1 DEF Decide
<1>3. CASE NotifyOk
  BY <1>3, WatchAssumption DEF NotifyOk, WatchAssumption
<1>4. CASE NotifyFails
  BY <1>4 DEF NotifyFails, FailedIsNotNotified
<1>5. CASE Remember
  BY <1>5 DEF Remember, BeforeAlways
<1>6. CASE WriteHeartbeat
  BY <1>6 DEF WriteHeartbeat
<1>7. CASE Sleep
  <2>1. age' # None => page' \in Nat /\ page' <= age'
    BY <1>7, WatchAssumption DEF Sleep, Older, Window, TypeOK, WatchAssumption
  <2> QED
    BY <1>7, <2>1 DEF Sleep
<1>8. CASE Restart
  BY <1>8, WatchAssumption
  DEF Restart, WatchAssumption, TypeOK, Verdicts, Bad
<1>9. CASE Dies
  BY <1>9 DEF Dies
<1>10. CASE UNCHANGED vars
  BY <1>10 DEF vars
<1> QED
  BY <1>1, <1>2, <1>3, <1>4, <1>5, <1>6, <1>7, <1>8, <1>9, <1>10 DEF Next, Cycle

\* With a notifier that works no cycle with a bad verdict ends without somebody
\* told of it, and within the window (AttestWatch!BadIsKnown).
THEOREM BadKnown == Spec => []BadIsKnown
<1>1. WatchInv => BadIsKnown
  BY DEF WatchInv, KnownOnceDecided, Decided, BadIsKnown
<1> QED
  BY <1>1, WatchInit, WatchNext, PTL DEF Spec

\* The heartbeat claims no delivery that its cycle did not make
\* (AttestWatch!HeartbeatHonest).
THEOREM Honest == Spec => []HeartbeatHonest
<1>1. WatchInv => HeartbeatHonest
  BY DEF WatchInv, FlagIsTrue, Decided, HeartbeatHonest
<1> QED
  BY <1>1, WatchInit, WatchNext, PTL DEF Spec

-----------------------------------------------------------------------------
(* The other direction, for a watcher that keeps running: what was done is  *)
(* remembered.                                                              *)

SpacedInv ==
  TypeOK /\ (~mortal =>
    /\ pc # "dead"
    /\ age = page
    /\ told => age # None /\ (pc # "remember" => before = verdict)
    /\ pc = "notify" => ShouldNotify)

LEMMA SpacedInit == Init => SpacedInv
BY TypeInit DEF Init, SpacedInv

LEMMA SpacedNext == SpacedInv /\ [Next]_vars => SpacedInv'
<1> SUFFICES ASSUME SpacedInv, [Next]_vars
             PROVE  SpacedInv'
  OBVIOUS
<1>0. TypeOK'
  BY TypeNext DEF SpacedInv
<1> USE <1>0 DEF SpacedInv, world
<1>1. CASE Check
  BY <1>1 DEF Check
<1>2. CASE Decide
  BY <1>2 DEF Decide, ShouldNotify, Due
<1>3. CASE NotifyOk
  BY <1>3, WatchAssumption DEF NotifyOk, WatchAssumption
<1>4. CASE NotifyFails
  BY <1>4 DEF NotifyFails
<1>5. CASE Remember
  BY <1>5 DEF Remember, BeforeAlways
<1>6. CASE WriteHeartbeat
  BY <1>6 DEF WriteHeartbeat
<1>7. CASE Sleep
  BY <1>7, WatchAssumption
  DEF Sleep, Older, Window, TypeOK, WatchAssumption
<1>8. CASE Restart
  BY <1>8 DEF Restart
<1>9. CASE Dies
  BY <1>9 DEF Dies
<1>10. CASE UNCHANGED vars
  BY <1>10 DEF vars, ShouldNotify, Due
<1> QED
  BY <1>1, <1>2, <1>3, <1>4, <1>5, <1>6, <1>7, <1>8, <1>9, <1>10 DEF Next, Cycle

\* A watcher that keeps running tells nobody again of a verdict that lasts
\* before the window has passed (AttestWatch!RepeatsAreSpaced).
THEOREM Spaced == Spec => RepeatsAreSpaced
<1> DEFINE Repeat == pc = "notify" /\ page' = 0 /\ told /\ ~mortal
             => Renotify # None /\ page >= Renotify
<1>1. SpacedInv => Repeat
  BY DEF SpacedInv, ShouldNotify, Due
<1>2. SpacedInv /\ [Next]_vars => [Repeat]_vars
  BY <1>1
<1> HIDE DEF Repeat
<1>3. Spec => [][Repeat]_vars
  BY <1>2, SpacedInit, SpacedNext, PTL DEF Spec
<1> QED
  BY <1>3 DEF Repeat, RepeatsAreSpaced
-----------------------------------------------------------------------------
(* The deployment is a watcher, and a verifier.                             *)

\* In any deployment the watcher does what AttestWatch says.
LEMMA WatchSteps == [DNext]_allvars => [Next]_vars
<1> SUFFICES ASSUME [DNext]_allvars PROVE [Next]_vars
  OBVIOUS
<1>1. CASE ByHand
  BY <1>1 DEF ByHand
<1>2. CASE Watched
  <2>1. WatchCycle(Checker) => [Next]_vars
    BY DEF WatchCycle, CheckEnds, Rest, Next, Cycle
  <2>2. WatchDies(Checker) => [Next]_vars
    BY DEF WatchDies, Next
  <2> QED
    BY <1>2, <2>1, <2>2 DEF Watched
<1>3. CASE UNCHANGED allvars
  BY <1>3 DEF allvars
<1> QED
  BY <1>1, <1>2, <1>3 DEF DNext

\* The deployment implements the watcher: BadKnown, Honest and Spaced hold of
\* it as they hold of a watcher whose check returns anything (attest_watch.py).
THEOREM Watches == DSpec => Spec
<1>1. DInit => Init
  BY DEF DInit
<1> QED
  BY <1>1, WatchSteps, PTL DEF DSpec, Spec

\* In any deployment the verifier's state moves by the verifier's steps.
LEMMA VerifierSteps == [DNext]_allvars => [V!Next]_vvars
<1> SUFFICES ASSUME [DNext]_allvars PROVE [V!Next]_vvars
  OBVIOUS
<1> USE DEF V!Next
<1>0. Checker \in {Verifier, Sentry}
  BY DEF Checker
<1>1. ASSUME NEW p \in {Verifier, Sentry}
      PROVE  Works(p) \/ World \/ V!Exit(p) \/ V!NoReport(p) \/ V!Killed(p) => V!Next
  BY DEF Works, World
<1>2. RunByHand \/ World => V!Next
  BY <1>1 DEF RunByHand
<1>3. CASE ByHand \/ Watched
  <2>1. CheckEnds(Checker) => V!Next \/ UNCHANGED vvars
    BY <1>0, <1>1 DEF CheckEnds, Refused, SaveFails
  <2>2. WatchCycle(Checker) => V!Next \/ UNCHANGED vvars
    BY <1>0, <1>1, <2>1 DEF WatchCycle
  <2>3. WatchDies(Checker) => V!Next \/ UNCHANGED vvars
    BY <1>0, <1>1 DEF WatchDies
  <2> HIDE DEF V!Next
  <2> QED
    BY <1>2, <1>3, <2>2, <2>3 DEF ByHand, Watched
<1>4. CASE UNCHANGED allvars
  BY <1>4 DEF allvars
<1> QED
  BY <1>3, <1>4 DEF DNext

\* And it implements the verifier: the watcher starts its check and reads its
\* exit code, but is no hand in what the check does (cli.py).
THEOREM Verifies == DSpec => V!Spec
<1>1. DInit => V!Init
  BY DEF DInit
<1>2. [V!Next]_vvars => [V!Next]_(V!vars)
  BY DEF vvars, V!vars
<1> QED
  BY <1>1, <1>2, VerifierSteps, PTL DEF DSpec, V!Spec

-----------------------------------------------------------------------------
(* What a document may be, and what is judged and written of it.            *)

Hashes       == {<<>>} \cup Nat \X Nat
Documents    == [seq : Nat, hash : Hashes, genesis : Nat, fault : V!DocFaults \cup {"none"}, date : Int]
Observations == [kind : {"state"}, seq : Nat, hash : Hashes, genesis : Nat, date : Int, resets : Nat]
Previous     == Observations \cup {V!Absent}

\* The height of a baseline.
Height(p) == IF p = V!Absent THEN -1 ELSE p.seq

LEMMA Kinds ==
  /\ V!Absent.kind = "absent" /\ V!Broken.kind = "broken" /\ V!Absent # V!Broken
  /\ \A o \in Observations : o.kind = "state" /\ o # V!Absent /\ o # V!Broken
BY DEF V!Absent, V!Broken, Observations

LEMMA DocumentType ==
  ASSUME NEW l \in [seq : Nat, cuts : Nat, genesis : Nat], NEW t \in Nat,
         NEW fault \in V!DocFaults \cup {"none"}
  PROVE  V!Document(l, t, fault) \in Documents
<1> DEFINE date == V!Document(l, t, fault).date
<1>1. MaxAge \in Int /\ MaxSkew \in Int
  BY DeploymentAssumption DEF DeploymentAssumption
<1>2. date \in Int
  BY <1>1 DEF V!Document
<1>3. <<l.cuts, l.seq>> \in Hashes /\ <<>> \in Hashes
  BY DEF Hashes
<1> QED
  BY <1>2, <1>3 DEF V!Document, Documents

LEMMA NextStateType ==
  ASSUME NEW d \in Documents, NEW p \in Previous
  PROVE  /\ V!Entitled(d) => /\ V!NextState(d, p) \in Observations
                             /\ V!NextState(d, p).seq = d.seq
                             /\ V!NextState(d, p).date = d.date
                             /\ V!NextState(d, p).resets = IF p = V!Absent THEN 0 ELSE p.resets
         /\ ~V!Entitled(d) => V!NextState(d, p) = V!Absent
BY DEF V!NextState, V!Observation, Documents, Observations, Previous

\* advance_state: height and date move forward, or the operator reset the ledger.
LEMMA Advances ==
  ASSUME NEW d \in Documents, NEW p \in Previous, NEW reset \in BOOLEAN
  PROVE  LET m == V!AdvanceState(p, V!NextState(d, p), reset)
         IN  /\ m \in Previous
             /\ V!Entitled(d) /\ d.seq > Height(p) => m # V!Absent /\ m.seq = d.seq
             /\ m # V!Absent => /\ V!Entitled(d)
                                /\ m.date = d.date \/ (p # V!Absent /\ m.date = p.date)
             /\ m # V!Absent /\ p # V!Absent =>
                  \/ m.resets > p.resets
                  \/ m.resets = p.resets /\ m.seq >= p.seq /\ m.date >= p.date
<1> DEFINE n == V!NextState(d, p)
<1> DEFINE m == V!AdvanceState(p, n, reset)
<1>1. CASE ~V!Entitled(d)
  BY <1>1, NextStateType DEF V!AdvanceState, Previous
<1>2. CASE V!Entitled(d) /\ p = V!Absent
  <2>1. m = n
    BY <1>2 DEF V!AdvanceState
  <2> QED
    BY <1>2, <2>1, NextStateType, Kinds DEF Previous
<1>3. CASE V!Entitled(d) /\ p # V!Absent
  <2>1. /\ n \in Observations /\ p \in Observations /\ n # V!Absent /\ n.seq = d.seq /\ Height(p) = p.seq
        /\ n.date = d.date
        /\ d.seq \in Nat
    BY <1>3, NextStateType, Kinds DEF Previous, Height, Documents
  <2> HIDE DEF n
  <2> DEFINE newer   == V!Dated(n.date) /\ V!Dated(p.date) /\ n.date > p.date
  <2> DEFINE forward == n.seq > p.seq
  <2> DEFINE lower   == reset /\ n.seq < p.seq
  <2> DEFINE head    == IF forward \/ lower THEN n ELSE p
  <2>2. m = IF ~forward /\ ~newer /\ ~lower THEN V!Absent
            ELSE V!Observation([head EXCEPT !.date = IF newer THEN n.date ELSE p.date],
                               IF lower THEN p.resets + 1 ELSE p.resets)
    BY <1>3, <2>1 DEF V!AdvanceState
  <2>3. CASE ~forward /\ ~newer /\ ~lower
    <3>1. m = V!Absent /\ ~(d.seq > Height(p))
      BY <2>1, <2>2, <2>3
    <3> HIDE DEF m
    <3> QED
      BY <3>1 DEF Previous, m, n
  <2>4. CASE forward \/ newer \/ lower
    <3> DEFINE date == IF newer THEN n.date ELSE p.date
    <3> DEFINE resets == IF lower THEN p.resets + 1 ELSE p.resets
    <3>1. /\ n.seq \in Nat /\ p.seq \in Nat /\ n.date \in Int /\ p.date \in Int /\ p.resets \in Nat
      BY <2>1 DEF Observations
    <3>2. head \in Observations
      BY <2>1
    <3>3. date \in Int /\ date >= p.date /\ resets \in Nat /\ (date = d.date \/ date = p.date)
      BY <2>1, <3>1
    <3>4. m = V!Observation([head EXCEPT !.date = date], resets)
      BY <2>2, <2>4
    <3> HIDE DEF date, resets, m
    <3>5. /\ m \in Observations /\ m.seq = head.seq /\ m.date = date /\ m.resets = resets
      BY <3>2, <3>3, <3>4 DEF V!Observation, Observations
    <3>6. m # V!Absent /\ m \in Previous
      BY <3>5, Kinds DEF Previous
    <3>7. d.seq > Height(p) => m.seq = d.seq
      BY <2>1, <3>5
    <3>8. \/ m.resets > p.resets
          \/ m.resets = p.resets /\ m.seq >= p.seq /\ m.date >= p.date
      BY <3>1, <3>3, <3>5 DEF resets
    <3> QED
      BY <1>3, <3>3, <3>5, <3>6, <3>7, <3>8 DEF m, n
  <2> QED
    BY <2>3, <2>4
<1> QED
  BY <1>1, <1>2, <1>3

LEMMA Unreadables ==
  ASSUME NEW d
  PROVE  V!Unreadable(d) \in 0 .. 3
BY DEF V!Unreadable, V!Parses, V!ParseAttestation, V!FieldFaults, V!NodeParseAttestation, V!HexBytes, V!CanonicalMessage

LEMMA Places ==
  /\ \A k \in 1 .. 3 : (CHOOSE i \in 1 .. 3 : V!DocumentChecks[i] = V!DocumentChecks[k]) = k
  /\ \A k \in 1 .. 3 : V!DocumentChecks[k] \notin V!ContentChecks /\ V!DocumentChecks[k] # "report_arrived"
<1>1. \A i, k \in 1 .. 3 : V!DocumentChecks[i] = V!DocumentChecks[k] => i = k
  BY DEF V!DocumentChecks
<1>2. \A k \in 1 .. 3 : V!DocumentChecks[k] \notin V!ContentChecks /\ V!DocumentChecks[k] # "report_arrived"
  BY DEF V!DocumentChecks, V!ContentChecks
<1>3. ASSUME NEW k \in 1 .. 3
      PROVE  (CHOOSE i \in 1 .. 3 : V!DocumentChecks[i] = V!DocumentChecks[k]) = k
  BY <1>1, Zenon
<1> QED
  BY <1>2, <1>3

\* What a check of the exit code is, by where the document fails to be read.
LEMMA CheckValues ==
  ASSUME NEW d, NEW p
  PROVE  LET checked == V!CmdAttestVerify(d, p)
         IN  /\ DOMAIN checked = V!AllChecks \cup {"report_arrived"}
             /\ checked["report_arrived"] = V!Timer(p)
             /\ \A c \in V!ContentChecks :
                  checked[c] = IF V!Unreadable(d) = 0 THEN V!Content(d, p)[c] ELSE "skip"
             /\ \A k \in 1 .. 3 : V!Unreadable(d) = k => checked[V!DocumentChecks[k]] = "fail"
             /\ V!Unreadable(d) = 0 => \A k \in 1 .. 3 : checked[V!DocumentChecks[k]] = "pass"
<1> DEFINE checked == V!CmdAttestVerify(d, p)
<1>1. \A c \in V!ContentChecks : c # "report_arrived" /\ c \in V!AllChecks
  BY DEF V!ContentChecks, V!AllChecks
<1>2. \A k \in 1 .. 3 : V!DocumentChecks[k] \in V!AllChecks
  BY DEF V!AllChecks
<1>3. /\ DOMAIN checked = V!AllChecks \cup {"report_arrived"}
      /\ checked["report_arrived"] = V!Timer(p)
      /\ \A c \in V!AllChecks : c # "report_arrived" => checked[c] = V!VerifyAttestation(d, p)[c]
  BY DEF V!CmdAttestVerify, V!WithTimer
<1>4. \A c \in V!ContentChecks :
        V!VerifyAttestation(d, p)[c] = IF V!Unreadable(d) = 0 THEN V!Content(d, p)[c] ELSE "skip"
  BY <1>1 DEF V!VerifyAttestation
<1>5. ASSUME NEW k \in 1 .. 3
      PROVE  V!VerifyAttestation(d, p)[V!DocumentChecks[k]] =
               IF V!Unreadable(d) = 0 \/ k < V!Unreadable(d) THEN "pass"
               ELSE IF k = V!Unreadable(d) THEN "fail" ELSE "skip"
  BY <1>2, <1>5, Places DEF V!VerifyAttestation
<1>6. \A k \in 1 .. 3 : ~(k < k)
  OBVIOUS
<1> QED
  BY <1>1, <1>2, <1>3, <1>4, <1>5, <1>6, Places

\* The checks that a clean verdict passed.
LEMMA CleanChecks ==
  ASSUME NEW d \in Documents, NEW p \in Previous, options \in V!Options, V!Ok(V!CmdAttestVerify(d, p))
  PROVE  /\ V!Unreadable(d) = 0 /\ V!Entitled(d)
         /\ d.seq > Height(p)
         /\ options.timer => p # V!Absent /\ V!Dated(p.date)
         /\ \A c \in DOMAIN V!CmdAttestVerify(d, p) \ {"report_arrived"} : V!CmdAttestVerify(d, p)[c] = "skip" =>
              \/ c = "nonce" /\ ~options.challenged
              \/ c = "inventory" /\ ~options.capsules
              \/ c \in {"sequence_advanced", "chain_linked", "chain_identity"} /\ p = V!Absent
<1> DEFINE checked == V!CmdAttestVerify(d, p)
<1>1. \A c \in V!AllChecks \cup {"report_arrived"} : checked[c] # "fail"
  BY CheckValues DEF V!Ok
<1>2. \A k \in 1 .. 3 : V!DocumentChecks[k] \in V!AllChecks
  BY DEF V!AllChecks
<1>3. V!Unreadable(d) = 0
  <2>1. \A k \in 1 .. 3 : V!Unreadable(d) # k
    BY <1>1, <1>2, CheckValues
  <2>2. V!Unreadable(d) \in 0 .. 3
    BY Unreadables
  <2> QED
    BY <2>1, <2>2
<1>4. \A c \in V!ContentChecks : checked[c] = V!Content(d, p)[c] /\ V!Content(d, p)[c] # "fail"
  <2>1. ASSUME NEW c \in V!ContentChecks PROVE checked[c] = V!Content(d, p)[c]
    BY <1>3, <2>1, CheckValues
  <2>2. V!ContentChecks \subseteq V!AllChecks
    BY DEF V!AllChecks
  <2> QED
    BY <1>1, <2>1, <2>2
<1>5. \A k \in 1 .. 3 : checked[V!DocumentChecks[k]] = "pass"
  BY <1>3, CheckValues
<1>6. "signing_key" \in V!ContentChecks /\ V!Content(d, p)["signing_key"] = V!Outcome(d.fault \notin {"key", "label"})
  BY DEF V!Content, V!ContentChecks
<1>7. "host" \in V!ContentChecks /\ V!Content(d, p)["host"] = V!Outcome(d.fault # "host")
  BY DEF V!Content, V!ContentChecks
<1>8. "sequence_advanced" \in V!ContentChecks /\ V!Content(d, p)["sequence_advanced"] = V!SequenceAdvanced(d, p)
  BY DEF V!Content, V!ContentChecks
<1>9. V!Entitled(d)
  BY <1>3, <1>4, <1>6, <1>7 DEF V!Entitled, V!Outcome
<1>10. d.seq > Height(p)
  <2>1. d.seq \in Nat
    BY DEF Documents
  <2>2. p # V!Absent => d.seq > p.seq
    BY <1>4, <1>8 DEF V!SequenceAdvanced, V!Outcome
  <2> QED
    BY <2>1, <2>2 DEF Height
<1>11. options.timer => p # V!Absent /\ V!Dated(p.date)
  <2>1. V!Timer(p) # "fail"
    BY <1>1, CheckValues
  <2> QED
    BY <2>1 DEF V!Timer, V!NodeReportArrivedCheck, V!ReportArrivedCheck, V!Outcome
<1>12. ASSUME NEW c \in DOMAIN checked \ {"report_arrived"}, checked[c] = "skip"
       PROVE  \/ c = "nonce" /\ ~options.challenged
              \/ c = "inventory" /\ ~options.capsules
              \/ c \in {"sequence_advanced", "chain_linked", "chain_identity"} /\ p = V!Absent
  <2>0. DOMAIN checked = V!AllChecks \cup {"report_arrived"}
    BY CheckValues
  <2>1. c \in V!ContentChecks
    BY <1>5, <1>12, <2>0 DEF V!AllChecks
  <2>2. V!Content(d, p)[c] = "skip"
    BY <1>4, <1>12, <2>1
  <2>3. CASE c \in {"message_digest", "signing_key", "host", "freshness", "core_abnormal", "chain_status",
                    "judged_nonzero", "payload_intact", "metadata_consistent"}
    BY <2>1, <2>2, <2>3 DEF V!Content, V!Outcome, V!Freshness, V!Losses
  <2>4. CASE c = "nonce"
    BY <2>1, <2>2, <2>4 DEF V!Content, V!Outcome, V!Nonce
  <2>5. CASE c = "inventory"
    BY <2>1, <2>2, <2>5 DEF V!Content, V!Outcome, V!Inventory
  <2>6. CASE c \in {"sequence_advanced", "chain_linked", "chain_identity"}
    BY <2>1, <2>2, <2>6 DEF V!Content, V!Outcome, V!SequenceAdvanced, V!ChainLinked, V!ChainIdentity
  <2> QED
    BY <2>1, <2>3, <2>4, <2>5, <2>6 DEF V!ContentChecks
<1> QED
  BY <1>3, <1>9, <1>10, <1>11, <1>12

-----------------------------------------------------------------------------
(* A verifier, and a sentry that is given no document.                      *)

Judged == {"judged", "saving", "saved"}
Runs == {Verifier, Sentry}

FileTypes ==
  /\ options \in V!Options /\ now \in Nat
  /\ ledger \in [seq : Nat, cuts : Nat, genesis : Nat]
  /\ issued \subseteq Documents
  /\ disk \in Previous \cup {V!Broken}
  /\ at \in [Runs -> {"idle", "loaded"} \cup Judged]
  /\ prev \in [Runs -> Previous]
  /\ doc \in [Runs -> Documents \cup {V!NoDocument}]
  /\ moved \in [Runs -> Previous]
  /\ DOMAIN checks = Runs
  /\ quiet \in Int

\* What a clean verdict passed, and what is to be written then: the document
\* is above the baseline.
CleanRun ==
  LET d == doc[Verifier]  p == prev[Verifier]  m == moved[Verifier]
  IN  V!Ok(checks[Verifier]) =>
        /\ d.seq > Height(p)
        /\ options.state => m # V!Absent /\ m.seq = d.seq
        /\ options.timer => p # V!Absent /\ V!Dated(p.date)
        /\ \A c \in DOMAIN checks[Verifier] \ {"report_arrived"} : checks[Verifier][c] = "skip" =>
             \/ c = "nonce" /\ ~options.challenged
             \/ c = "inventory" /\ ~options.capsules
             \/ c \in {"sequence_advanced", "chain_linked", "chain_identity"} /\ p = V!Absent

\* What is to be written comes of a document of this Core, and does not fall
\* below the baseline unless the operator reset it.
SoundMove ==
  LET p == prev[Verifier]  m == moved[Verifier]
  IN  m # V!Absent =>
        /\ V!Entitled(doc[Verifier])
        /\ p # V!Absent => \/ m.resets > p.resets
                           \/ m.resets = p.resets /\ m.seq >= p.seq /\ m.date >= p.date

RunInv ==
  LET place == at[Verifier]
  IN  /\ ~options.state => disk = V!Absent /\ moved[Verifier] = V!Absent
      /\ place \in {"idle", "loaded"} => checks[Verifier] = V!NoVerdict
      /\ place \in {"loaded", "judged"} => disk = prev[Verifier]
      /\ place = "saving" => disk = V!Broken
      /\ place \in {"saving", "saved"} => moved[Verifier] # V!Absent
      /\ place = "saved" => disk = moved[Verifier]
      /\ place \in Judged => doc[Verifier] \in Documents /\ CleanRun /\ SoundMove

QuietInv ==
  options.state =>
    /\ disk # V!Broken => quiet <= Height(disk)
    /\ at[Verifier] \in Judged => quiet <= Height(prev[Verifier])

\* A run without a document writes nothing, and is clean on a dated baseline.
SentryInv ==
  /\ at[Sentry] \in {"idle", "loaded", "judged"} /\ moved[Sentry] = V!Absent
  /\ at[Sentry] # "judged" => checks[Sentry] = V!NoVerdict
  /\ at[Sentry] = "judged" =>
       /\ DOMAIN checks[Sentry] = {"report_arrived"}
       /\ V!Ok(checks[Sentry]) => prev[Sentry] # V!Absent /\ V!Dated(prev[Sentry].date)

\* The date of an observation is a document's.
FromReport(o) == o \in Observations => \E d \in issued : V!Entitled(d) /\ d.date = o.date
ReportsInv ==
  FromReport(disk) /\ FromReport(moved[Verifier]) /\ \A p \in Runs : FromReport(prev[p])

VerifierInv == FileTypes /\ RunInv /\ QuietInv /\ SentryInv /\ ReportsInv

LEMMA TwoRuns == Verifier # Sentry /\ Runs = {Verifier, Sentry} /\ Verifier \in Runs /\ Sentry \in Runs
BY DeploymentAssumption DEF DeploymentAssumption, Runs

LEMMA HeightType == \A p \in Previous : Height(p) \in Int /\ Height(p) >= -1
BY DEF Height, Previous, Observations

LEMMA VerifierInit == DInit => VerifierInv
<1> SUFFICES ASSUME DInit PROVE VerifierInv
  OBVIOUS
<1>1. V!Init
  BY DEF DInit
<1>2. FileTypes
  BY <1>1, DeploymentAssumption DEF V!Init, FileTypes, Previous, DeploymentAssumption, Runs
<1>3. RunInv /\ QuietInv /\ SentryInv
  BY <1>1 DEF V!Init, RunInv, QuietInv, SentryInv, Judged, Height
<1>4. ReportsInv
  BY <1>1, Kinds DEF V!Init, ReportsInv, FromReport, Runs
<1> QED
  BY <1>2, <1>3, <1>4 DEF VerifierInv

\* Whether a document may leave an observation depends on the command line only.
LEMMA EntitledKept == ASSUME UNCHANGED options PROVE \A d : V!Entitled(d)' = V!Entitled(d)
BY DEF V!Entitled, V!Unreadable, V!Parses, V!ParseAttestation, V!FieldFaults, V!NodeParseAttestation, V!HexBytes,
       V!CanonicalMessage

\* Observations that are kept, with the documents they came from.
LEMMA ReportKept ==
  ASSUME UNCHANGED options, issued \subseteq issued', NEW o, FromReport(o)
  PROVE  o \in Observations => \E d \in issued' : V!Entitled(d)' /\ d.date = o.date
BY EntitledKept DEF FromReport

\* A step that keeps the verifier's run.
LEMMA RunKept ==
  ASSUME UNCHANGED <<options, prev[Verifier], doc[Verifier], checks[Verifier], moved[Verifier]>>,
         CleanRun, SoundMove
  PROVE  CleanRun' /\ SoundMove'
<1>1. CleanRun'
  BY DEF CleanRun, Height
<1>2. V!Entitled(doc[Verifier]) => V!Entitled(doc[Verifier])'
  BY DEF V!Entitled, V!Unreadable, V!Parses, V!ParseAttestation, V!FieldFaults, V!NodeParseAttestation, V!HexBytes,
         V!CanonicalMessage
<1>3. SoundMove'
  BY <1>2 DEF SoundMove
<1> QED
  BY <1>1, <1>3

LEMMA VerifierKept ==
  ASSUME RunInv, QuietInv,
         UNCHANGED <<options, disk, quiet, at[Verifier], prev[Verifier], doc[Verifier], checks[Verifier],
                     moved[Verifier]>>
  PROVE  RunInv' /\ QuietInv'
<1>1. at[Verifier] \in Judged => CleanRun' /\ SoundMove'
  BY RunKept DEF RunInv
<1>2. RunInv'
  BY <1>1 DEF RunInv
<1>3. QuietInv'
  BY DEF QuietInv, Height
<1> QED
  BY <1>2, <1>3

\* A step that keeps the sentry's.
LEMMA SentryKept ==
  ASSUME SentryInv, UNCHANGED <<at[Sentry], prev[Sentry], checks[Sentry], moved[Sentry]>>
  PROVE  SentryInv'
BY DEF SentryInv, V!Ok

LEMMA ReportsKept ==
  ASSUME ReportsInv, UNCHANGED options, issued \subseteq issued',
         disk' \in {disk, moved[Verifier], V!Absent, V!Broken},
         moved'[Verifier] \in {moved[Verifier], V!Absent},
         \A p \in Runs : prev'[p] \in {prev[p], disk, V!Absent}
  PROVE  ReportsInv'
<1>1. ASSUME NEW o \in {disk, moved[Verifier], V!Absent, V!Broken} \cup {prev[p] : p \in Runs}
      PROVE  o \in Observations => \E d \in issued' : V!Entitled(d)' /\ d.date = o.date
  <2>1. FromReport(o)
    BY Kinds DEF ReportsInv, FromReport
  <2> QED
    BY <2>1, ReportKept
<1> QED
  BY <1>1 DEF ReportsInv, FromReport

LEMMA LoadInv == ASSUME VerifierInv, V!Load(Verifier) PROVE VerifierInv'
<1> USE TwoRuns DEF VerifierInv
<1>1. /\ at[Verifier] = "idle" /\ disk # V!Broken
      /\ prev' = [prev EXCEPT ![Verifier] = disk] /\ at' = [at EXCEPT ![Verifier] = "loaded"]
      /\ UNCHANGED <<options, now, ledger, issued, disk, doc, checks, moved, quiet>>
  BY Kinds DEF V!Load, V!NodeLoadState, V!LoadState, RunInv
<1>2. /\ FileTypes' /\ at'[Verifier] = "loaded" /\ prev'[Verifier] = disk
      /\ at'[Sentry] = at[Sentry] /\ prev'[Sentry] = prev[Sentry]
  BY <1>1 DEF FileTypes
<1>3. RunInv'
  BY <1>1, <1>2 DEF RunInv, Judged
<1>4. QuietInv'
  BY <1>1, <1>2 DEF QuietInv, Judged
<1>5. SentryInv'
  BY <1>1, <1>2, SentryKept
<1>6. ReportsInv'
  BY <1>1, <1>2, ReportsKept
<1> QED
  BY <1>2, <1>3, <1>4, <1>5, <1>6

LEMMA JudgeInv == ASSUME VerifierInv, V!Judge(Verifier) PROVE VerifierInv'
<1> USE TwoRuns DEF VerifierInv
<1>1. /\ at[Verifier] = "loaded" /\ at' = [at EXCEPT ![Verifier] = "judged"]
      /\ UNCHANGED <<options, now, ledger, issued, disk, prev, quiet>>
  BY DEF V!Judge
<1>2. PICK d \in issued, reset \in {FALSE, options.acceptReset} :
        /\ doc' = [doc EXCEPT ![Verifier] = d]
        /\ checks' = [checks EXCEPT ![Verifier] = V!CmdAttestVerify(d, prev[Verifier])]
        /\ moved' = [moved EXCEPT ![Verifier] =
             IF ~options.state THEN V!Absent
             ELSE V!AdvanceState(prev[Verifier], V!NextState(d, prev[Verifier]), reset)]
  BY DEF V!Judge, V!NodeCmdAttestVerify, V!CmdAttestVerify, V!NodeVerifyAttestation, V!Moved,
         V!NodeAdvanceState, V!NodeNextState
<1> DEFINE p == prev[Verifier]
<1> DEFINE a == V!AdvanceState(p, V!NextState(d, p), reset)
<1> DEFINE m == IF ~options.state THEN V!Absent ELSE a
<1> DEFINE checked == V!CmdAttestVerify(d, p)
<1>3. d \in Documents /\ reset \in BOOLEAN /\ p \in Previous /\ options \in V!Options
  BY DEF FileTypes, V!Options
<1>4. /\ a \in Previous
      /\ V!Entitled(d) /\ d.seq > Height(p) => a # V!Absent /\ a.seq = d.seq
      /\ a # V!Absent => V!Entitled(d) /\ (a.date = d.date \/ (p # V!Absent /\ a.date = p.date))
      /\ a # V!Absent /\ p # V!Absent => \/ a.resets > p.resets
                                         \/ a.resets = p.resets /\ a.seq >= p.seq /\ a.date >= p.date
  BY <1>3, Advances
<1>5. V!Ok(checked) =>
        /\ d.seq > Height(p) /\ V!Entitled(d)
        /\ options.timer => p # V!Absent /\ V!Dated(p.date)
        /\ \A c \in DOMAIN checked \ {"report_arrived"} : checked[c] = "skip" =>
             \/ c = "nonce" /\ ~options.challenged
             \/ c = "inventory" /\ ~options.capsules
             \/ c \in {"sequence_advanced", "chain_linked", "chain_identity"} /\ p = V!Absent
  BY <1>3, CleanChecks
<1> HIDE DEF a, checked
<1>6. m \in Previous
  BY <1>4 DEF Previous
<1>7. /\ doc' = [doc EXCEPT ![Verifier] = d] /\ checks' = [checks EXCEPT ![Verifier] = checked]
      /\ moved' = [moved EXCEPT ![Verifier] = m]
  BY <1>2 DEF a, checked
<1> HIDE DEF m
<1>8. FileTypes'
  BY <1>1, <1>3, <1>6, <1>7 DEF FileTypes, Judged
<1>9. /\ at'[Verifier] = "judged" /\ disk = p /\ prev'[Verifier] = p
      /\ doc'[Verifier] = d /\ checks'[Verifier] = checked /\ moved'[Verifier] = m
  BY <1>1, <1>7 DEF FileTypes, RunInv
<1>10. doc'[Verifier] \in Documents /\ CleanRun' /\ SoundMove'
  <2>1. CleanRun'
    BY <1>1, <1>4, <1>5, <1>9 DEF CleanRun, Height, m
  <2>2. V!Entitled(d) => V!Entitled(doc[Verifier])'
    BY <1>1, <1>9 DEF V!Entitled, V!Unreadable, V!Parses, V!ParseAttestation, V!FieldFaults, V!NodeParseAttestation,
                      V!HexBytes, V!CanonicalMessage
  <2>3. SoundMove'
    BY <1>1, <1>4, <1>9, <2>2 DEF SoundMove, m
  <2> QED
    BY <1>3, <1>9, <2>1, <2>3
<1>11. RunInv'
  BY <1>1, <1>9, <1>10 DEF RunInv, Judged, m
<1>12. QuietInv'
  BY <1>1, <1>9, Kinds DEF QuietInv, Judged, FileTypes, Previous
<1>13. SentryInv'
  BY <1>1, <1>7, SentryKept DEF FileTypes
<1>14. ReportsInv'
  <2>1. FromReport(m)
    <3> SUFFICES ASSUME m \in Observations PROVE \E e \in issued : V!Entitled(e) /\ e.date = m.date
      BY DEF FromReport
    <3>1. m = a /\ a # V!Absent
      BY Kinds DEF m
    <3>2. CASE a.date = d.date
      BY <1>4, <3>1, <3>2
    <3>3. CASE p # V!Absent /\ a.date = p.date
      BY <1>3, <3>1, <3>3 DEF ReportsInv, FromReport, Previous
    <3> QED
      BY <1>4, <3>1, <3>2, <3>3
  <2>2. \A o : FromReport(o) => (o \in Observations => \E e \in issued' : V!Entitled(e)' /\ e.date = o.date)
    BY <1>1, ReportKept
  <2> QED
    BY <1>1, <1>9, <2>1, <2>2 DEF ReportsInv, FromReport
<1> QED
  BY <1>8, <1>11, <1>12, <1>13, <1>14

\* A run ends, whatever it did.
LEMMA EndInv ==
  ASSUME VerifierInv, V!Ends(Verifier), UNCHANGED <<options, now, ledger, issued, disk>>,
         quiet' \in Int, options.state /\ disk # V!Broken => quiet' <= Height(disk)
  PROVE  VerifierInv'
<1> USE TwoRuns DEF VerifierInv
<1>1. /\ at' = [at EXCEPT ![Verifier] = "idle"] /\ prev' = [prev EXCEPT ![Verifier] = V!Absent]
      /\ doc' = [doc EXCEPT ![Verifier] = V!NoDocument] /\ moved' = [moved EXCEPT ![Verifier] = V!Absent]
      /\ checks' = [checks EXCEPT ![Verifier] = V!NoVerdict]
  BY DEF V!Ends
<1>2. /\ FileTypes' /\ at'[Verifier] = "idle" /\ checks'[Verifier] = V!NoVerdict
      /\ moved'[Verifier] = V!Absent /\ prev'[Verifier] = V!Absent
      /\ UNCHANGED <<at[Sentry], prev[Sentry], checks[Sentry], moved[Sentry]>>
  BY <1>1 DEF FileTypes, Previous
<1>3. RunInv'
  BY <1>2 DEF RunInv, Judged
<1>4. QuietInv'
  BY <1>2 DEF QuietInv, Judged, Height
<1>5. SentryInv'
  BY <1>2, SentryKept
<1>6. ReportsInv'
  BY <1>2, ReportsKept
<1> QED
  BY <1>2, <1>3, <1>4, <1>5, <1>6

LEMMA TruncateInv == ASSUME VerifierInv, V!Truncate(Verifier) PROVE VerifierInv'
<1> USE TwoRuns DEF VerifierInv
<1>1. /\ at[Verifier] = "judged" /\ moved[Verifier] # V!Absent /\ disk' = V!Broken
      /\ at' = [at EXCEPT ![Verifier] = "saving"]
      /\ UNCHANGED <<options, now, ledger, issued, prev, doc, checks, moved, quiet>>
  BY DEF V!Truncate
<1>2. FileTypes' /\ at'[Verifier] = "saving" /\ at'[Sentry] = at[Sentry]
  BY <1>1 DEF FileTypes, Judged
<1>3. doc[Verifier] \in Documents /\ CleanRun' /\ SoundMove'
  BY <1>1, RunKept DEF RunInv, Judged
<1>4. RunInv'
  BY <1>1, <1>2, <1>3 DEF RunInv, Judged
<1>5. QuietInv'
  BY <1>1, <1>2 DEF QuietInv, Judged, Height
<1>6. SentryInv'
  BY <1>1, <1>2, SentryKept
<1>7. ReportsInv'
  BY <1>1, ReportsKept
<1> QED
  BY <1>2, <1>4, <1>5, <1>6, <1>7

LEMMA WriteInv == ASSUME VerifierInv, V!Write(Verifier) PROVE VerifierInv'
<1> USE TwoRuns DEF VerifierInv
<1> DEFINE m == moved[Verifier]
<1> DEFINE p == prev[Verifier]
<1>1. /\ at[Verifier] = "saving" /\ disk' = m /\ at' = [at EXCEPT ![Verifier] = "saved"]
      /\ quiet' = IF V!Lowered(Verifier) THEN -1 ELSE quiet
      /\ UNCHANGED <<options, now, ledger, issued, prev, doc, checks, moved>>
  BY DEF V!Write
<1>2. m \in Observations /\ m # V!Absent /\ p \in Previous /\ options.state
  BY <1>1, Kinds DEF RunInv, FileTypes, Previous
<1>3. FileTypes' /\ at'[Verifier] = "saved" /\ at'[Sentry] = at[Sentry]
  BY <1>1, <1>2 DEF FileTypes, Judged, Previous
<1>4. doc[Verifier] \in Documents /\ CleanRun' /\ SoundMove' /\ SoundMove
  BY <1>1, RunKept DEF RunInv, Judged
<1>5. RunInv'
  BY <1>1, <1>2, <1>3, <1>4 DEF RunInv, Judged
<1>6. quiet' <= Height(p) /\ quiet' <= Height(m)
  <2>1. quiet <= Height(p) /\ quiet \in Int
    BY <1>1, <1>2 DEF QuietInv, FileTypes, Judged
  <2>2. Height(p) \in Int /\ Height(p) >= -1 /\ Height(m) \in Int /\ Height(m) >= -1
    BY <1>2, HeightType DEF Previous
  <2>3. CASE V!Lowered(Verifier)
    BY <1>1, <2>2, <2>3
  <2>4. CASE ~V!Lowered(Verifier)
    <3>1. p # V!Absent => m.seq >= p.seq
      <4>1. p # V!Absent => ~(m.resets > p.resets)
        BY <2>4 DEF V!Lowered
      <4> QED
        BY <1>2, <1>4, <4>1 DEF SoundMove
    <3>2. Height(m) = m.seq /\ m.seq \in Nat /\ (p # V!Absent => Height(p) = p.seq)
      BY <1>2 DEF Height, Observations
    <3>3. p = V!Absent => Height(p) = -1
      BY DEF Height
    <3> QED
      BY <1>1, <2>1, <2>2, <2>4, <3>1, <3>2, <3>3
  <2> QED
    BY <2>3, <2>4
<1>7. QuietInv'
  BY <1>1, <1>6 DEF QuietInv, Height
<1>8. SentryInv'
  BY <1>1, <1>3, SentryKept
<1>9. ReportsInv'
  BY <1>1, ReportsKept
<1> QED
  BY <1>3, <1>5, <1>7, <1>8, <1>9

\* A clean run was above the baseline, and left its height there.
LEMMA ExitInv == ASSUME VerifierInv, V!Exit(Verifier) PROVE VerifierInv'
<1> USE TwoRuns DEF VerifierInv
<1>1. /\ at[Verifier] = "saved" \/ (at[Verifier] = "judged" /\ moved[Verifier] = V!Absent)
      /\ V!Ends(Verifier)
      /\ quiet' = IF V!Ok(checks[Verifier]) THEN doc[Verifier].seq ELSE quiet
      /\ UNCHANGED <<options, now, ledger, issued, disk>>
  BY DEF V!Exit
<1>2. doc[Verifier] \in Documents /\ CleanRun
  BY <1>1 DEF RunInv, Judged
<1>3. quiet' \in Int
  BY <1>1, <1>2 DEF FileTypes, Documents
<1>4. ASSUME options.state, disk # V!Broken PROVE quiet' <= Height(disk)
  <2>1. CASE V!Ok(checks[Verifier])
    <3>1. moved[Verifier] # V!Absent /\ moved[Verifier].seq = doc[Verifier].seq
      BY <1>2, <1>4, <2>1 DEF CleanRun
    <3>2. disk = moved[Verifier]
      BY <1>1, <3>1 DEF RunInv
    <3> QED
      BY <1>1, <1>2, <2>1, <3>1, <3>2 DEF Height, Documents
  <2>2. CASE ~V!Ok(checks[Verifier])
    BY <1>1, <1>4, <2>2 DEF QuietInv
  <2> QED
    BY <2>1, <2>2
<1> QED
  BY <1>1, <1>3, <1>4, EndInv

LEMMA ClearInv == ASSUME VerifierInv, V!Clear PROVE VerifierInv'
<1> USE TwoRuns DEF VerifierInv
<1>1. /\ at[Verifier] = "idle" /\ disk' = V!Absent /\ quiet' = -1
      /\ UNCHANGED <<options, now, ledger, issued, at, prev, doc, checks, moved>>
  BY DEF V!Clear
<1>2. FileTypes'
  BY <1>1 DEF FileTypes, Previous
<1>3. RunInv' /\ QuietInv'
  BY <1>1 DEF RunInv, QuietInv, Judged, Height
<1>4. SentryInv' /\ ReportsInv'
  BY <1>1, SentryKept, ReportsKept
<1> QED
  BY <1>2, <1>3, <1>4

\* Core, time and the documents.
LEMMA WorldInv == ASSUME VerifierInv, V!Record \/ V!Cut \/ V!Attest \/ V!Tick PROVE VerifierInv'
<1> USE TwoRuns DEF VerifierInv
<1>1. UNCHANGED <<options, disk, at, prev, doc, checks, moved, quiet>>
  BY DEF V!Record, V!Cut, V!Attest, V!Tick
<1>2. now' \in Nat
  BY DEF V!Record, V!Cut, V!Attest, V!Tick, FileTypes
<1>3. ledger' \in [seq : Nat, cuts : Nat, genesis : Nat]
  <2>1. CASE V!Record
    BY <2>1 DEF V!Record, FileTypes
  <2>2. CASE V!Cut
    BY <2>2 DEF V!Cut, FileTypes
  <2>3. CASE V!Attest \/ V!Tick
    BY <2>3 DEF V!Attest, V!Tick, FileTypes
  <2> QED
    BY <2>1, <2>2, <2>3
<1>4. issued' \subseteq Documents /\ issued \subseteq issued'
  <2>1. CASE V!Attest
    BY <2>1, DocumentType DEF V!Attest, FileTypes
  <2>2. CASE V!Record \/ V!Cut \/ V!Tick
    BY <2>2 DEF V!Record, V!Cut, V!Tick, FileTypes
  <2> QED
    BY <2>1, <2>2
<1>5. FileTypes'
  BY <1>1, <1>2, <1>3, <1>4 DEF FileTypes
<1>6. RunInv' /\ QuietInv'
  BY <1>1, VerifierKept
<1>7. SentryInv' /\ ReportsInv'
  BY <1>1, <1>4, SentryKept, ReportsKept
<1> QED
  BY <1>5, <1>6, <1>7

\* A run of the sentry's.
SentryRuns == V!Load(Sentry) \/ V!OnlyTimer(Sentry) \/ V!NoReport(Sentry) \/ V!Exit(Sentry) \/ V!Killed(Sentry)

LEMMA SentryRunsInv == ASSUME VerifierInv, SentryRuns PROVE VerifierInv'
<1> USE TwoRuns DEF VerifierInv
<1>1. /\ UNCHANGED <<options, now, ledger, issued, disk, quiet>>
      /\ UNCHANGED <<at[Verifier], prev[Verifier], doc[Verifier], checks[Verifier], moved[Verifier]>>
  BY DEF SentryRuns, V!Load, V!OnlyTimer, V!NoReport, V!Exit, V!Killed, V!Ends, FileTypes
<1>2. RunInv' /\ QuietInv'
  BY <1>1, VerifierKept
<1>3. CASE V!Load(Sentry)
  <2>1. /\ at[Sentry] = "idle" /\ at' = [at EXCEPT ![Sentry] = "loaded"]
        /\ \E loaded \in Previous : prev' = [prev EXCEPT ![Sentry] = loaded] /\ loaded \in {disk, V!Absent}
        /\ UNCHANGED <<doc, checks, moved>>
    BY <1>3 DEF V!Load, V!NodeLoadState, V!LoadState, FileTypes, Previous
  <2>2. FileTypes' /\ SentryInv'
    BY <1>1, <2>1 DEF FileTypes, SentryInv
  <2>3. ReportsInv'
    BY <1>1, <2>1, ReportsKept DEF FileTypes
  <2> QED
    BY <1>2, <2>2, <2>3
<1>4. CASE V!OnlyTimer(Sentry)
  <2> DEFINE timer == V!Timer(prev[Sentry])
  <2>1. /\ at' = [at EXCEPT ![Sentry] = "judged"] /\ options.timer
        /\ checks' = [checks EXCEPT ![Sentry] = [c \in {"report_arrived"} |-> timer]]
        /\ UNCHANGED <<prev, doc, moved>>
    BY <1>4 DEF V!OnlyTimer
  <2>2. timer # "fail" => prev[Sentry] # V!Absent /\ V!Dated(prev[Sentry].date)
    BY <2>1 DEF V!Timer, V!NodeReportArrivedCheck, V!ReportArrivedCheck, V!Outcome
  <2> HIDE DEF timer
  <2>3. FileTypes'
    BY <1>1, <2>1 DEF FileTypes, Judged
  <2>4. at'[Sentry] = "judged" /\ checks'[Sentry] = [c \in {"report_arrived"} |-> timer] /\ prev' = prev /\ moved' = moved
    BY <2>1 DEF FileTypes
  <2>5. V!Ok(checks[Sentry])' => timer # "fail"
    BY <2>4 DEF V!Ok
  <2>6. SentryInv'
    BY <2>2, <2>4, <2>5 DEF SentryInv
  <2>7. ReportsInv'
    BY <1>1, <2>1, ReportsKept
  <2> QED
    BY <1>2, <2>3, <2>6, <2>7
<1>5. CASE V!Ends(Sentry)
  <2>1. FileTypes' /\ SentryInv' /\ prev'[Sentry] = V!Absent
    BY <1>1, <1>5 DEF V!Ends, FileTypes, SentryInv, Previous
  <2>2. ReportsInv'
    BY <1>1, <2>1, ReportsKept
  <2> QED
    BY <1>2, <2>1, <2>2
<1> QED
  BY <1>3, <1>4, <1>5 DEF SentryRuns, V!NoReport, V!Exit, V!Killed

\* The sentry judges no document and writes nothing; the verifier is given one.
LEMMA Whose ==
  ASSUME VerifierInv, V!Next
  PROVE  \/ V!Load(Verifier) \/ V!Judge(Verifier) \/ V!NoReport(Verifier) \/ V!Truncate(Verifier)
         \/ V!Write(Verifier) \/ V!Exit(Verifier) \/ V!Killed(Verifier)
         \/ SentryRuns
         \/ V!Clear \/ V!Record \/ V!Cut \/ V!Attest \/ V!Tick
<1>1. ~V!Judge(Sentry) /\ ~V!OnlyTimer(Verifier)
  BY TwoRuns DEF V!Judge, V!OnlyTimer
<1>2. ~V!Truncate(Sentry) /\ ~V!Write(Sentry)
  BY DEF V!Truncate, V!Write, VerifierInv, SentryInv
<1> QED
  BY <1>1, <1>2 DEF V!Next, SentryRuns

LEMMA VerifierNext == VerifierInv /\ [DNext]_allvars => VerifierInv'
<1> SUFFICES ASSUME VerifierInv, V!Next \/ UNCHANGED vvars PROVE VerifierInv'
  BY VerifierSteps
<1>1. CASE V!NoReport(Verifier) \/ V!Killed(Verifier)
  BY <1>1, EndInv DEF V!NoReport, V!Killed, VerifierInv, FileTypes, QuietInv
<1>2. CASE UNCHANGED vvars
  <2>1. UNCHANGED <<options, now, ledger, issued, disk, at, prev, doc, checks, moved, quiet>>
    BY <1>2 DEF vvars
  <2>2. FileTypes'
    BY <2>1 DEF VerifierInv, FileTypes
  <2> QED
    BY <2>1, <2>2, VerifierKept, SentryKept, ReportsKept DEF VerifierInv
<1>3. CASE V!Next
  BY <1>1, <1>3, Whose, LoadInv, JudgeInv, TruncateInv, WriteInv, ExitInv, SentryRunsInv, ClearInv, WorldInv
<1> QED
  BY <1>2, <1>3

LEMMA VerifierAlways == DSpec => []VerifierInv
BY VerifierInit, VerifierNext, PTL DEF DSpec

\* Two clean runs never rest on the same height of the ledger, in any
\* deployment with a state file: a boundary that stopped recording is told at
\* the next run that judges a document, whatever arrives late, twice or out of
\* order and wherever the run was killed (AttestVerify!QuietIsSeen;
\* advance_state, sequence_advanced).
THEOREM NoQuiet == DSpec => []NoCleanOnTheSame
<1>1. VerifierInv => NoCleanOnTheSame
  <2> SUFFICES ASSUME VerifierInv, options.state, at[Verifier] \in Judged, V!Ok(checks[Verifier])
               PROVE  doc[Verifier].seq > quiet
    BY TwoRuns DEF NoCleanOnTheSame, V!QuietIsSeen, Judged
  <2>1. /\ doc[Verifier].seq > Height(prev[Verifier]) /\ quiet <= Height(prev[Verifier])
    BY DEF VerifierInv, RunInv, QuietInv, CleanRun
  <2>2. doc[Verifier].seq \in Int /\ Height(prev[Verifier]) \in Int /\ quiet \in Int
    BY HeightType, TwoRuns DEF VerifierInv, RunInv, FileTypes, Documents
  <2> QED
    BY <2>1, <2>2
<1> QED
  BY <1>1, VerifierAlways, PTL

\* No run that had a baseline goes without one, and a clean verdict rests on
\* checks that ran, and with --report-within, also where that is all that is
\* checked, on a baseline with the date of a document of this Core
\* (AttestVerify!SilenceNeverSkipped, AttestVerify!CleanIsChecked; load_state,
\* verify_attestation, report_arrived_check).
THEOREM Checked == DSpec => []NothingIsSkipped
<1>1. VerifierInv => NothingIsSkipped
  <2> SUFFICES ASSUME VerifierInv PROVE V!SilenceNeverSkipped /\ V!CleanIsChecked
    BY DEF NothingIsSkipped
  <2>1. V!SilenceNeverSkipped
    BY TwoRuns DEF V!SilenceNeverSkipped, VerifierInv, RunInv
  <2>2. ASSUME NEW p \in Runs, at[p] # "idle", checks[p] # V!NoVerdict, V!Ok(checks[p])
        PROVE  /\ \A c \in DOMAIN checks[p] \ {"report_arrived"} : checks[p][c] = "skip" =>
                    \/ c = "nonce" /\ ~options.challenged
                    \/ c = "inventory" /\ ~options.capsules
                    \/ c \in {"sequence_advanced", "chain_linked", "chain_identity"} /\ prev[p] = V!Absent
               /\ options.timer => prev[p] # V!Absent /\ V!Dated(prev[p].date)
    <3>1. CASE p = Verifier
      <4>1. at[p] \in Judged
        BY <2>2, <3>1 DEF VerifierInv, RunInv, FileTypes
      <4> QED
        BY <2>2, <3>1, <4>1 DEF VerifierInv, RunInv, CleanRun
    <3>2. CASE p = Sentry
      BY <2>2, <3>2 DEF VerifierInv, SentryInv
    <3> QED
      BY <3>1, <3>2, TwoRuns
  <2>3. ASSUME NEW p \in Runs, prev[p] # V!Absent, V!Dated(prev[p].date) PROVE V!Reported(prev[p])
    <3>1. prev[p] \in Observations /\ FromReport(prev[p])
      BY <2>3 DEF VerifierInv, FileTypes, ReportsInv, Previous
    <3> QED
      BY <2>3, <3>1 DEF V!Reported, FromReport
  <2>4. V!CleanIsChecked
    BY <2>2, <2>3, TwoRuns DEF V!CleanIsChecked
  <2> QED
    BY <2>1, <2>4
<1> QED
  BY <1>1, VerifierAlways, PTL

\* The baseline on disk never falls unless the operator reset it, and only a
\* document of this Core about this host sets it (AttestVerify!BaselineHolds;
\* advance_state, next_state).
THEOREM Stands == DSpec => BaselineStands
<1> DEFINE Holds == \A old \in V!Baselines, p \in {Verifier, Sentry} :
                      at[p] = "judged" /\ at'[p] = "saving" /\ moved[p].resets = old.resets
                      => /\ moved[p].seq >= old.seq
                         /\ moved[p].date >= old.date
                         /\ V!Entitled(doc[p])
<1>1. VerifierInv /\ [DNext]_allvars => [Holds]_(V!vars)
  <2> SUFFICES ASSUME VerifierInv, VerifierInv', V!Next \/ UNCHANGED vvars,
                      NEW old \in V!Baselines, NEW p \in {Verifier, Sentry},
                      at[p] = "judged", at'[p] = "saving", moved[p].resets = old.resets
               PROVE  moved[p].seq >= old.seq /\ moved[p].date >= old.date /\ V!Entitled(doc[p])
    <3>1. UNCHANGED vvars => UNCHANGED V!vars
      BY DEF vvars, V!vars
    <3> QED
      BY <3>1, VerifierNext, VerifierSteps DEF Holds
  <2>1. p = Verifier
    BY DEF VerifierInv, SentryInv
  <2>2. old = prev[Verifier] /\ old # V!Absent /\ old \in Observations
    BY <2>1, TwoRuns DEF V!Baselines, VerifierInv, RunInv, FileTypes, Previous
  <2>3. moved[Verifier] # V!Absent
    <3>1. SentryRuns => at'[Verifier] = at[Verifier]
      BY TwoRuns DEF SentryRuns, V!Load, V!OnlyTimer, V!NoReport, V!Exit, V!Killed, V!Ends, VerifierInv, FileTypes
    <3>2. V!Load(Verifier) \/ V!Judge(Verifier) \/ V!NoReport(Verifier) \/ V!Write(Verifier)
            \/ V!Exit(Verifier) \/ V!Killed(Verifier) => at'[Verifier] # "saving"
      BY TwoRuns DEF V!Load, V!Judge, V!NoReport, V!Write, V!Exit, V!Killed, V!Ends, VerifierInv, FileTypes
    <3>3. V!Clear \/ V!Record \/ V!Cut \/ V!Attest \/ V!Tick \/ UNCHANGED vvars => at' = at
      BY DEF V!Clear, V!Record, V!Cut, V!Attest, V!Tick, vvars
    <3>4. V!Truncate(Verifier)
      BY <2>1, <3>1, <3>2, <3>3, Whose
    <3> QED
      BY <3>4 DEF V!Truncate
  <2>4. SoundMove
    BY <2>1 DEF VerifierInv, RunInv, Judged
  <2>5. old.resets \in Nat
    BY <2>2 DEF Observations
  <2> QED
    BY <2>1, <2>2, <2>3, <2>4, <2>5 DEF SoundMove
<1> HIDE DEF Holds
<1>2. DSpec => [][Holds]_(V!vars)
  BY <1>1, VerifierAlways, PTL DEF DSpec
<1> QED
  BY <1>2, PTL DEF Holds, BaselineStands, V!BaselineHolds
=============================================================================
