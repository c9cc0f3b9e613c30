-------------------------- MODULE AttestDeployment --------------------------
(***************************************************************************)
(* attest-verify in its deployments (cli.py): run by hand or by a timer of  *)
(* the customer's; as the check of attest-watch, whose loop (AttestWatch)  *)
(* calls the verifier (AttestVerify) and tells somebody of its exit code;  *)
(* and as the service unit ships it, where attest-watch is given no         *)
(* document and only looks whether one was verified lately, beside an       *)
(* attest-verify that is run by hand on the same state file.               *)
(***************************************************************************)
EXTENDS AttestWatch, Integers

CONSTANTS
  Verifier,  \* the process that judges documents
  Sentry,    \* the process that is given none
  Choices, MaxSeq, MaxCuts, MaxTime, MaxDocs, MaxFaulty, MaxResets,
  MaxAge, MaxSkew, Interval

VARIABLES
  deployment, \* "hand", "watch" or "timer"
  options, now, ledger, issued, disk, at, prev, doc, checks, moved, quiet

V == INSTANCE AttestVerify WITH
  Verifiers <- {Verifier, Sentry}, Timers <- {Sentry}, verdict <- checks

vvars == <<options, now, ledger, issued, disk, at, prev, doc, checks, moved, quiet>>
allvars == <<vars, deployment, vvars>>

\* The flags of the command line are given or not, its times are numbers.
ASSUME DeploymentAssumption ==
  /\ Verifier # Sentry
  /\ Choices \subseteq V!Options /\ {MaxAge, MaxSkew, Interval} \subseteq Int

watched == deployment # "hand"
\* The process that is the watcher's check.
Checker == IF deployment = "timer" THEN Sentry ELSE Verifier

\* The steps of a run before it has an exit code.
Works(p) == V!Load(p) \/ V!Judge(p) \/ V!OnlyTimer(p) \/ V!Truncate(p) \/ V!Write(p)

\* Where the documents come from: everybody else.
World == V!Clear \/ V!Record \/ V!Cut \/ V!Attest \/ V!Tick

\* A run of the customer's.
RunByHand == \/ Works(Verifier)
             \/ V!Exit(Verifier) \/ V!NoReport(Verifier) \/ V!Killed(Verifier)

\* The exit code of cmd_attest_verify, as the watcher names it.
ExitCode(p) == IF V!Ok(checks[p]) THEN "clean" ELSE "abnormal"

\* A state file that cannot be read is abnormal, before any document is read.
Refused(p) == disk = V!Broken /\ options.state /\ at[p] = "idle" /\ UNCHANGED vvars

\* What cannot be written raises out of the check: the file is as it was when
\* it could not even be opened, and else truncated.
SaveFails(p) == /\ at[p] = "saving" \/ (at[p] = "judged" /\ moved[p] # V!Absent)
                /\ V!Killed(p)

\* run_cycle's check is one run of the verifier.
CheckEnds(p) ==
  /\ Check
  /\ \/ V!Exit(p) /\ verdict' = ExitCode(p)
     \/ V!NoReport(p) /\ verdict' = "no_report"
     \/ Refused(p) /\ verdict' = "abnormal"
     \/ SaveFails(p) /\ verdict' = CrashVerdict

\* The rest of the cycle, the verifier at rest.
Rest == Decide \/ NotifyOk \/ NotifyFails \/ Remember \/ WriteHeartbeat \/ Sleep \/ Restart

WatchCycle(p) == \/ pc = "check" /\ Works(p) /\ UNCHANGED vars
                 \/ CheckEnds(p)
                 \/ Rest /\ UNCHANGED vvars

\* A kill ends the run with the watcher.
WatchDies(p) == /\ Dies
                /\ IF at[p] = "idle" THEN UNCHANGED vvars ELSE V!Killed(p)

\* (Nothing of the world matters to the rest of the cycle, so it moves during
\* the checks only.)
Watched == /\ watched /\ UNCHANGED deployment
           /\ \/ WatchCycle(Checker) \/ WatchDies(Checker)
              \/ /\ pc = "check" /\ UNCHANGED vars
                 /\ World \/ (deployment = "timer" /\ RunByHand)

ByHand == /\ ~watched /\ UNCHANGED <<vars, deployment>>
          /\ RunByHand \/ World

DInit == /\ Init /\ V!Init /\ deployment \in {"hand", "watch", "timer"}
         /\ ~watched => reliable /\ ~mortal
         /\ watched => options.state
DNext == ByHand \/ Watched

\* The watcher runs, and a notifier that is tried for ever delivers some time.
DFairness == /\ WF_allvars(watched /\ WatchCycle(Checker) /\ UNCHANGED deployment)
             /\ SF_allvars(watched /\ NotifyOk /\ UNCHANGED <<deployment, vvars>>)

DSpec == DInit /\ [][DNext]_allvars /\ DFairness

-----------------------------------------------------------------------------
(* Properties.                                                              *)

\* AttestVerify's, of any deployment: AttestVerify!QuietIsSeen,
NoCleanOnTheSame == V!QuietIsSeen
\* AttestVerify!BaselineHolds,
BaselineStands == V!BaselineHolds
\* AttestVerify!SilenceNeverSkipped and AttestVerify!CleanIsChecked.
NothingIsSkipped == V!SilenceNeverSkipped /\ V!CleanIsChecked

\* Every report there is, is older than --report-within.
Overdue == options.timer => \A d \in issued : now - d.date > Interval

\* "this one exists to notice that a customer's boundary stopped reporting"
\* (attest_watch.py:13): a watcher that keeps running tells somebody, again and
\* again, if the notifier works now and then. One that is given the documents
\* does when Core's ledger stops growing (here at MaxSeq at the latest),
\* whatever reports still arrive. One that is not, as the service unit has it,
\* does once all reports are overdue for good, whatever a run by hand leaves in
\* the file, killed as it writes or not; what it is told of the ledger it does
\* not look at.
SilenceIsAnnounced ==
  ~mortal /\ (deployment = "watch" \/ (deployment = "timer" /\ <>[]Overdue))
    => []<>(told /\ page = 0)
=============================================================================
