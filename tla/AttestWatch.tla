---------------------------- MODULE AttestWatch ----------------------------
(***************************************************************************)
(* The attestation watcher (attest_watch.py): check, decide whether to      *)
(* tell somebody, tell them, write the heartbeat file, sleep.              *)
(*                                                                         *)
(* What it remembers from one cycle to the next is in memory and gone when  *)
(* the process ends; the service manager starts it again.  Time is counted  *)
(* in cycles (every_seconds), the wall clock is taken to go forward.        *)
(***************************************************************************)
EXTENDS Naturals

CONSTANTS
  None,           \* Python's None
  Renotify        \* renotify_seconds, in cycles, or None

ASSUME WatchAssumption ==
  /\ None \notin Nat \cup {"clean", "abnormal", "no_report", "unknown"}
  /\ Renotify \in (Nat \ {0}) \cup {None}

VARIABLES
  reliable, \* the notify command never fails
  mortal,   \* the process may be killed, or unable to write its heartbeat
  pc,       \* "check", "decide", "notify", "remember", "write", "sleep", "dead"
  verdict,  \* of the cycle
  before,   \* state["verdict"]
  age,      \* cycles since state["last_notified_at"], or None
  notified, \* beat.notified
  file,     \* the heartbeat file: a verdict and a flag, or None
  last,     \* history: the verdict of the cycle before, of any process
  told,     \* history: this verdict was announced since it came up
  page      \* history: cycles since anybody was told anything, or None

world == <<reliable, mortal>>
vars == <<world, pc, verdict, before, age, notified, file, last, told, page>>

Bad      == {"abnormal", "no_report", "unknown"}
Verdicts == Bad \cup {"clean"}

\* Ages beyond the window are all the same.
Window   == IF Renotify = None THEN 1 ELSE Renotify
Older(a) == IF a = None \/ a = Window THEN a ELSE a + 1

Init ==
  /\ reliable \in BOOLEAN /\ mortal \in BOOLEAN
  /\ pc = "check" /\ verdict = "clean" /\ before = None /\ age = None
  /\ notified = FALSE /\ file = None
  /\ last = None /\ told = FALSE /\ page = None

-----------------------------------------------------------------------------

CrashVerdict == "no_report"

\* check() returns an exit code or raises; a code nobody knows is "unknown".
Check ==
  /\ pc = "check"
  /\ verdict' \in Verdicts \cup {CrashVerdict}
  /\ last' = verdict
  /\ told' = (told /\ verdict' = verdict)
  /\ notified' = FALSE
  /\ pc' = "decide"
  /\ UNCHANGED <<world, before, age, file, page>>

Due == age >= Renotify

\* should_notify.
ShouldNotify ==
  /\ verdict # "clean"
  /\ \/ before # verdict
     \/ Renotify # None /\ (age = None \/ Due)

Decide ==
  /\ pc = "decide"
  /\ pc' = IF ShouldNotify THEN "notify" ELSE "remember"
  /\ UNCHANGED <<world, verdict, before, age, notified, file, last, told,
                 page>>

NotifyOk ==
  /\ pc = "notify"
  /\ notified' = TRUE /\ age' = 0
  /\ told' = TRUE /\ page' = 0
  /\ pc' = "remember"
  /\ UNCHANGED <<world, verdict, before, file, last>>

FailedIsNotNotified == FALSE

\* No command configured, or it cannot run, times out or exits with an error.
NotifyFails ==
  /\ pc = "notify" /\ ~reliable
  /\ notified' = FailedIsNotNotified
  /\ pc' = "remember"
  /\ UNCHANGED <<world, verdict, before, age, file, last, told, page>>

BeforeIfBad ==   \* Fault: a clean verdict is not remembered.
  IF verdict = "clean" THEN before ELSE verdict
BeforeAlways == verdict

Remember ==
  /\ pc = "remember"
  /\ before' = BeforeAlways
  /\ pc' = "write"
  /\ UNCHANGED <<world, verdict, age, notified, file, last, told, page>>

\* _write_atomic: the new file or the old one, never a part.
WriteHeartbeat ==
  /\ pc = "write"
  /\ file' = [verdict |-> verdict, notified |-> notified]
  /\ pc' = "sleep"
  /\ UNCHANGED <<world, verdict, before, age, notified, last, told, page>>

\* A kill ends the watcher anywhere, and so does, at the write, an OSError of
\* the heartbeat.
Dies ==
  /\ mortal /\ pc # "dead"
  /\ pc' = "dead"
  /\ UNCHANGED <<world, verdict, before, age, notified, file, last, told,
                 page>>

\* Restart=always: a new process, which remembers nothing.
Restart ==
  /\ pc = "dead"
  /\ before' = None /\ age' = None
  /\ page' \in {page, Older(page)}
  /\ pc' = "check"
  /\ UNCHANGED <<world, verdict, notified, file, last, told>>

Sleep ==
  /\ pc = "sleep"
  /\ age' = Older(age) /\ page' = Older(page)
  /\ pc' = "check"
  /\ UNCHANGED <<world, verdict, before, notified, file, last, told>>

Cycle == Check \/ Decide \/ NotifyOk \/ NotifyFails \/ Remember
         \/ WriteHeartbeat \/ Sleep \/ Restart
Next == Cycle \/ Dies

Spec == Init /\ [][Next]_vars

-----------------------------------------------------------------------------
(* Properties.                                                              *)

\* The types of the cycle and of what is remembered.
TypeOK ==
  /\ reliable \in BOOLEAN /\ mortal \in BOOLEAN
  /\ pc \in {"check", "decide", "notify", "remember", "write", "sleep", "dead"}
  /\ verdict \in Verdicts
  /\ before \in Verdicts \cup {None} /\ last \in Verdicts \cup {None}
  /\ age \in 0 .. Window \cup {None} /\ page \in 0 .. Window \cup {None}
  /\ notified \in BOOLEAN /\ told \in BOOLEAN
  /\ file \in [verdict : Verdicts, notified : BOOLEAN] \cup {None}

\* "on a change of verdict, plus every --renotify seconds while the verdict
\* stays bad": a watcher that keeps running tells nobody a second time of the
\* verdict of the cycle before unless the window has passed.
RepeatsAreSpaced ==
  [][pc = "notify" /\ page' = 0 /\ told /\ ~mortal
       => Renotify # None /\ page >= Renotify]_vars

\* With a notifier that works, a cycle with a bad verdict ends with somebody
\* told of it since it came up, and within the window, also when the process
\* was restarted or the verdict was clean in between.
BadIsKnown ==
  reliable /\ pc = "sleep" /\ verdict \in Bad =>
    told /\ (Renotify # None => page < Renotify)

\* "it never reports a delivery it did not make": the heartbeat of a cycle says
\* notified only when somebody was told in that cycle.
HeartbeatHonest ==
  pc = "sleep" => /\ file.verdict = verdict
                  /\ file.notified => page = 0 /\ told
=============================================================================
