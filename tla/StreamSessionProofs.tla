------------------------ MODULE StreamSessionProofs ------------------------
(***************************************************************************)
(* Proofs about StreamSession, for any max_heartbeat_failures.             *)
(*                                                                         *)
(*   TypeCorrect    the types of the session                               *)
(*   StreamStopped  an unverifiable stream is a stopped stream             *)
(*   Justified      a session is revoked for cause                         *)
(*   NeverClean     a revoked session never looks like a clean run, when   *)
(*                  the heartbeat is a task or over within the join        *)
(*   NameKept       a revocation loses its name only to the interruption   *)
(*                  of the main thread, however long a heartbeat takes     *)
(*                                                                         *)
(* The first three come from BeatInv: the failures the code counts are the *)
(* heartbeats that went unanswered, and whatever left the loop for the     *)
(* revocation still has its cause, because the counter stands once the     *)
(* loop is left and a stream that was cut or closed stays so.  The last    *)
(* comes from ExitInv: __exit__ looks at the event only when no heartbeat  *)
(* is left that could set it.                                              *)
(***************************************************************************)
EXTENDS StreamSession, TLAPS

InLoop == hb \in {"wait", "asking", "answered"}

Cause == \/ reason = "gateway_unavailable" /\ missed >= MaxFailures
         \/ reason \in {"cut", "closed"} /\ stream = reason

BeatInv ==
  /\ TypeOK
  /\ failures = missed
  /\ InLoop => missed < MaxFailures
  /\ hb = "none" => main \in {"enter", "done"} /\ ~revoked
  /\ hb \in {"revoke", "callback", "interrupt"} \/ revoked => Cause
  /\ revoked => hb \in {"callback", "interrupt", "ended"}
  /\ answer \in {"cut", "closed"} => stream = answer
  /\ main = "enter" => /\ hb = "none" /\ stream = "none" /\ ~revoked
                       /\ missed = 0 /\ answer = "none"
  /\ hb # "none" => stream # "none"
  /\ hb = "answered" => answer # "none"

LEMMA BeatInit == Init => BeatInv
<1> SUFFICES ASSUME Init PROVE BeatInv
  OBVIOUS
<1>1. failures \in 0 .. MaxFailures /\ missed \in 0 .. MaxFailures
  BY StreamAssumption DEF Init, StreamAssumption
<1>2. TypeOK
  BY <1>1 DEF Init, TypeOK
<1>3. failures = missed /\ ~InLoop /\ ~revoked
  BY DEF Init, InLoop
<1> QED
  BY <1>2, <1>3 DEF Init, BeatInv

LEMMA BeatHb == ASSUME BeatInv, HbStep PROVE BeatInv'
<1> USE StreamAssumption DEF StreamAssumption
<1>1. CASE Beat
  BY <1>1 DEF Beat, HbRuns, MainVars, BeatInv, TypeOK, InLoop, Cause
<1>2. CASE HbStops
  BY <1>2 DEF HbStops, MainVars, BeatInv, TypeOK, InLoop, Cause
<1>3. CASE BoundaryAnswers
  <2>1. answer' \in {"ok", "cut", "closed"} /\ (answer' # "ok" => stream = answer')
    BY <1>3 DEF BoundaryAnswers, HbRuns, BeatInv, TypeOK, InLoop
  <2> QED
    BY <1>3, <2>1
    DEF BoundaryAnswers, HbRuns, MainVars, BeatInv, TypeOK, InLoop, Cause
<1>4. CASE HeartbeatFails
  <2>0. /\ failures' = failures + 1 /\ missed' = missed + 1 /\ answer' = "none"
        /\ UNCHANGED <<form, main, outcome, raised, stop, ext, stream>>
        /\ InLoop /\ ~revoked /\ main # "enter"
        /\ missed + 1 \in 0 .. MaxFailures
    BY <1>4 DEF HeartbeatFails, HbRuns, MainVars, BeatInv, TypeOK, InLoop
  <2>1. CASE TooMany /\ RevokeFor("gateway_unavailable")
    <3>1. Cause'
      BY <2>0, <2>1 DEF TooMany, RevokeFor, BeatInv, TypeOK, Cause
    <3>2. /\ hb' \in {"revoke", "ended"} /\ (revoked' => hb' = "ended")
          /\ revoked' \in BOOLEAN /\ intr' \in BOOLEAN
          /\ reason' = "gateway_unavailable"
      BY <2>1 DEF RevokeFor
    <3> QED
      BY <2>0, <3>1, <3>2 DEF BeatInv, TypeOK, InLoop
  <2>2. CASE ~TooMany /\ hb' = AfterFailure /\ UNCHANGED <<revoked, reason, intr>>
    BY <2>0, <2>2 DEF TooMany, AfterFailure, BeatInv, TypeOK, InLoop, Cause
  <2> QED
    BY <1>4, <2>1, <2>2 DEF HeartbeatFails
<1>5. CASE StatusArrives
  <2>0. /\ failures' = 0 /\ missed' = 0 /\ answer' = "none"
        /\ UNCHANGED <<form, main, outcome, raised, stop, ext, stream>>
        /\ hb = "answered" /\ ~revoked /\ main # "enter"
        /\ answer \in {"ok", "cut", "closed"}
    BY <1>5
    DEF StatusArrives, FailuresReset, HbRuns, MainVars, BeatInv, TypeOK, InLoop
  <2>1. CASE answer = "ok" /\ hb' = "wait" /\ UNCHANGED <<revoked, reason, intr>>
    BY <2>0, <2>1 DEF BeatInv, TypeOK, InLoop, Cause
  <2>2. CASE answer # "ok" /\ RevokeFor(answer)
    <3>1. Cause'
      BY <2>0, <2>2 DEF RevokeFor, BeatInv, Cause
    <3>2. /\ hb' \in {"revoke", "ended"} /\ (revoked' => hb' = "ended")
          /\ revoked' \in BOOLEAN /\ intr' \in BOOLEAN
          /\ reason' \in {"cut", "closed"}
      BY <2>0, <2>2 DEF RevokeFor
    <3> QED
      BY <2>0, <3>1, <3>2 DEF BeatInv, TypeOK, InLoop
  <2> QED
    BY <1>5, <2>1, <2>2 DEF StatusArrives
<1>6. CASE SetRevoked
  BY <1>6 DEF SetRevoked, MainVars, BeatInv, TypeOK, InLoop, Cause
<1>7. CASE CallbackReturns
  BY <1>7 DEF CallbackReturns, MainVars, BeatInv, TypeOK, InLoop, Cause
<1>8. CASE InterruptMain
  BY <1>8
  DEF InterruptMain, WithoutCallback, MainVars, BeatInv, TypeOK, InLoop, Cause
<1> QED
  BY <1>1, <1>2, <1>3, <1>4, <1>5, <1>6, <1>7, <1>8 DEF HbStep

LEMMA BeatNext == BeatInv /\ [Next]_vars => BeatInv'
<1> SUFFICES ASSUME BeatInv, [Next]_vars PROVE BeatInv'
  OBVIOUS
<1> USE StreamAssumption DEF StreamAssumption, MainVars, BeatVars, BeatInv, InLoop, Cause, TypeOK
<1>1. CASE OpenDenied
  BY <1>1 DEF OpenDenied
<1>2. CASE OpenGranted
  BY <1>2 DEF OpenGranted
<1>3. CASE BlockEnds
  BY <1>3 DEF BlockEnds
<1>4. CASE CancelTask
  BY <1>4 DEF CancelTask
<1>5. CASE BoundaryCuts
  BY <1>5 DEF BoundaryCuts
<1>6. CASE HbStep
  BY <1>6, BeatHb
<1>7. CASE ExitStops
  BY <1>7 DEF ExitStops
<1>8. CASE Join
  BY <1>8 DEF Join
<1>9. CASE Check
  BY <1>9 DEF Check
<1>10. CASE Close
  BY <1>10 DEF Close
<1>11. CASE Interrupted
  <2>1. /\ main \in {"block", "exit", "join", "check", "close"}
        /\ main' \in {"block", "exit", "done"}
        /\ ext' \in {ext, "taken"}
        /\ outcome' \in {outcome, "interrupted"}
        /\ raised' \in {raised, "interrupt"}
        /\ intr' \in BOOLEAN
        /\ UNCHANGED <<form, hb, answer, failures, missed, stop, revoked,
                       reason, stream>>
    BY <1>11 DEF Interrupted
  <2> QED
    BY <2>1
<1>12. CASE Cancelled
  <2>1. /\ main \in {"block", "join", "close"}
        /\ main' \in {"exit", "check", "done"}
        /\ ext' \in {"taken", "swallowed"}
        /\ outcome' \in {outcome, "cancelled"}
        /\ raised' \in {raised, "cancel"}
        /\ intr' \in BOOLEAN
        /\ UNCHANGED <<form, hb, answer, failures, missed, stop, revoked,
                       reason, stream>>
    BY <1>12 DEF Cancelled
  <2> QED
    BY <2>1
<1>13. CASE UNCHANGED vars
  BY <1>13 DEF vars
<1> QED
  BY <1>1, <1>2, <1>3, <1>4, <1>5, <1>6, <1>7, <1>8, <1>9, <1>10, <1>11, <1>12,
     <1>13
  DEF Next, ExitStep

\* The session's variables keep their types (StreamSession!TypeOK).
THEOREM TypeCorrect == Spec => []TypeOK
<1>1. BeatInv => TypeOK
  BY DEF BeatInv
<1> QED
  BY <1>1, BeatInit, BeatNext, PTL DEF Spec

\* After max_heartbeat_failures heartbeats in a row without an answer none is
\* waited for (StreamSession!UnverifiedStops).
THEOREM StreamStopped == Spec => []UnverifiedStops
<1>1. BeatInv => UnverifiedStops
  BY StreamAssumption
  DEF BeatInv, InLoop, UnverifiedStops, TypeOK, StreamAssumption
<1> QED
  BY <1>1, BeatInit, BeatNext, PTL DEF Spec

\* Every revocation has its cause (StreamSession!RevokedForCause).
THEOREM Justified == Spec => []RevokedForCause
<1>1. BeatInv => RevokedForCause
  BY DEF BeatInv, Cause, RevokedForCause
<1> QED
  BY <1>1, BeatInit, BeatNext, PTL DEF Spec

-----------------------------------------------------------------------------
(* The end of a session whose heartbeat is over when __exit__ looks.        *)

ExitInv ==
  /\ BeatInv
  /\ main \in {"check", "close"} => hb = "ended"
  /\ main = "close" => ~revoked
  /\ outcome \in {"clean", "error"} => hb = "ended" /\ ~revoked
  /\ outcome # "none" => main = "done"

LEMMA ExitInit == Init => ExitInv
BY BeatInit DEF Init, ExitInv

LEMMA ExitNext ==
  ASSUME ~form.sync \/ Patient, ExitInv, [Next]_vars PROVE ExitInv'
<1>0. BeatInv'
  BY BeatNext DEF ExitInv
<1> USE <1>0, StreamAssumption
    DEF StreamAssumption, MainVars, BeatVars, ExitInv
<1>1. CASE OpenDenied
  BY <1>1 DEF OpenDenied
<1>2. CASE OpenGranted
  BY <1>2 DEF OpenGranted
<1>3. CASE BlockEnds
  BY <1>3 DEF BlockEnds
<1>4. CASE CancelTask \/ BoundaryCuts
  BY <1>4 DEF CancelTask, BoundaryCuts
<1>5. CASE HbStep
  <2>1. hb # "ended" /\ UNCHANGED <<main, outcome, raised>>
    BY <1>5
    DEF HbStep, Beat, HbStops, BoundaryAnswers, HeartbeatFails, StatusArrives,
        SetRevoked, CallbackReturns, InterruptMain, HbRuns
  <2> QED
    BY <2>1
<1>6. CASE ExitStops
  BY <1>6 DEF ExitStops
<1>7. CASE Join
  BY <1>7 DEF Join
<1>8. CASE Check
  BY <1>8 DEF Check, IsRevoked
<1>9. CASE Close
  BY <1>9 DEF Close
<1>10. CASE Interrupted
  BY <1>10 DEF Interrupted
<1>11. CASE Cancelled
  BY <1>11 DEF Cancelled
<1>12. CASE UNCHANGED vars
  BY <1>12 DEF vars
<1> QED
  BY <1>1, <1>2, <1>3, <1>4, <1>5, <1>6, <1>7, <1>8, <1>9, <1>10, <1>11, <1>12
  DEF Next, ExitStep

\* A session keeps its form.
LEMMA FormStays == Next => UNCHANGED form
BY DEF Next, HbStep, ExitStep, OpenDenied, OpenGranted, Beat, HbStops,
       BoundaryAnswers, HeartbeatFails, StatusArrives, SetRevoked,
       CallbackReturns, InterruptMain, BlockEnds, Interrupted, CancelTask,
       Cancelled, ExitStops, Join, Check, Close, BoundaryCuts

\* When the heartbeat is a task of the loop, or a thread that is over within the
\* join, no revoked session looks clean (StreamSession!RevokedNeverClean).
THEOREM NeverClean == Spec => [](~form.sync \/ Patient => RevokedNeverClean)
<1>1. ExitInv => RevokedNeverClean
  BY DEF ExitInv, RevokedNeverClean
<1>2. (~form.sync \/ Patient => ExitInv) /\ [Next]_vars
        => (~form.sync \/ Patient => ExitInv)'
  BY ExitNext, FormStays DEF vars
<1> QED
  BY <1>1, <1>2, ExitInit, PTL DEF Spec

-----------------------------------------------------------------------------
(* What ends a session other than by name.                                  *)

\* Only a task is cancelled from outside, and only the heartbeat of a session
\* without a callback interrupts the main thread; a task that was cancelled
\* after its block had no heartbeat left that could revoke it.
NameInv ==
  /\ form.sync => ext = "no" /\ raised # "cancel" /\ outcome # "cancelled"
  /\ form.sync /\ (intr \/ outcome = "interrupted") => ~form.callback
  /\ outcome = "interrupted" => form.sync
  /\ outcome = "cancelled" => hb = "ended" /\ ~revoked

LEMMA NameInit == Init => NameInv
BY DEF Init, NameInv

LEMMA NameNext ==
  ASSUME BeatInv, ~form.sync => ExitInv, NameInv, [Next]_vars
  PROVE  NameInv'
<1> USE DEF MainVars, BeatVars, NameInv
<1>1. CASE OpenDenied
  BY <1>1 DEF OpenDenied
<1>2. CASE OpenGranted
  BY <1>2 DEF OpenGranted, BeatInv, TypeOK, ExitInv
<1>3. CASE BlockEnds
  BY <1>3 DEF BlockEnds
<1>4. CASE CancelTask \/ BoundaryCuts
  BY <1>4 DEF CancelTask, BoundaryCuts
<1>5. CASE HbStep
  <2>1. hb # "ended" /\ UNCHANGED <<form, main, outcome, raised, ext>>
    BY <1>5
    DEF HbStep, Beat, HbStops, BoundaryAnswers, HeartbeatFails, StatusArrives,
        SetRevoked, CallbackReturns, InterruptMain, HbRuns
  <2>2. form.sync /\ intr' => ~form.callback
    <3>1. ASSUME NEW r, RevokeFor(r), form.sync PROVE ~intr'
      BY <3>1 DEF RevokeFor
    <3> QED
      BY <1>5, <3>1
      DEF HbStep, Beat, HbStops, BoundaryAnswers, HeartbeatFails, StatusArrives,
          SetRevoked, CallbackReturns, InterruptMain, WithoutCallback
  <2> QED
    BY <2>1, <2>2
<1>6. CASE ExitStops
  BY <1>6 DEF ExitStops
<1>7. CASE Join
  BY <1>7 DEF Join
<1>8. CASE Check
  BY <1>8 DEF Check, IsRevoked, ExitInv
<1>9. CASE Close
  BY <1>9 DEF Close
<1>10. CASE Interrupted
  BY <1>10 DEF Interrupted, ExitInv
<1>11. CASE Cancelled
  BY <1>11 DEF Cancelled, ExitInv
<1>12. CASE UNCHANGED vars
  BY <1>12 DEF vars
<1> QED
  BY <1>1, <1>2, <1>3, <1>4, <1>5, <1>6, <1>7, <1>8, <1>9, <1>10, <1>11, <1>12
  DEF Next, ExitStep

\* A revocation reaches the code after the block by its name, except in a
\* thread without a callback, whatever a heartbeat takes and whoever else
\* cancels the task (StreamSession!NameLostToMainOnly).
THEOREM NameKept == Spec => []NameLostToMainOnly
<1> DEFINE Inv == BeatInv /\ (~form.sync => ExitInv) /\ NameInv
<1>1. Init => Inv
  BY BeatInit, ExitInit, NameInit
<1>2. Inv /\ [Next]_vars => Inv'
  BY BeatNext, ExitNext, NameNext, FormStays DEF vars
<1>3. Inv => NameLostToMainOnly
  BY DEF NameInv, NameLostToMainOnly, RevocationIsNamed
<1> QED
  BY <1>1, <1>2, <1>3, PTL DEF Spec
=============================================================================
