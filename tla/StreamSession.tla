--------------------------- MODULE StreamSession ---------------------------
(***************************************************************************)
(* A managed stream of the SDK (StreamSession, ai_native.py): the block of  *)
(* an agent runs between __enter__ and __exit__ while a heartbeat asks the  *)
(* boundary again and again whether the stream still stands.               *)
(*                                                                         *)
(* Under `with` the heartbeat is a thread, which may be anywhere when       *)
(* __exit__ runs; under `async with` it is a task of the agent's event      *)
(* loop, and a step is what one of the two tasks does between two awaits.   *)
(***************************************************************************)
EXTENDS Naturals

CONSTANTS
  Patient,     \* a heartbeat is over before the join of __exit__ times out
  MaxFailures  \* max_heartbeat_failures

ASSUME StreamAssumption ==
  /\ Patient \in BOOLEAN
  /\ MaxFailures \in Nat \ {0}

VARIABLES
  form,     \* sync: `with` (a thread) or `async with` (a task), callback: an
            \* on_revoke was given, catches: the block may catch its
            \* interruption and go on
  main,     \* "enter", "block", "exit", "join", "check", "close" or "done"
  outcome,  \* how the `with` statement ended, for the code after it
  raised,   \* what ended the block: nothing, its own error, an interruption
  hb,       \* "none", "wait", "asking", "answered", "revoke", "callback",
            \* "interrupt" or "ended"
  answer,   \* the status the boundary gave
  failures, \* consecutive heartbeats that failed
  stop,     \* _stop is set, or the heartbeat task is cancelled
  revoked,  \* the event
  reason,   \* revoked_reason
  intr,     \* an interruption by the heartbeat has yet to reach the block
  ext,      \* cancellation by others: "no", "asked", "taken" or "swallowed"
  stream,   \* the boundary's view: "none", "open", "cut" or "closed"
  missed    \* history: heartbeats without an answer since the last "ok"

vars == <<form, main, outcome, raised, hb, answer, failures, stop, revoked,
          reason, intr, ext, stream, missed>>

MainVars == <<main, outcome, raised>>
BeatVars == <<hb, answer, failures, missed>>

Forms == [sync : BOOLEAN, callback : BOOLEAN, catches : BOOLEAN]

Init ==
  /\ form \in Forms
  /\ main = "enter" /\ outcome = "none" /\ raised = "none"
  /\ hb = "none" /\ answer = "none" /\ failures = 0 /\ missed = 0
  /\ stop = FALSE /\ revoked = FALSE /\ reason = "none"
  /\ intr = FALSE /\ ext = "no" /\ stream = "none"

-----------------------------------------------------------------------------
(* __enter__.                                                               *)

\* A denied delegation window, a transport error, a decision without a stream.
OpenDenied ==
  /\ main = "enter"
  /\ main' = "done" /\ outcome' = "denied"
  /\ UNCHANGED <<form, raised, BeatVars, stop, revoked, reason, intr, ext,
                 stream>>

OpenGranted ==
  /\ main = "enter"
  /\ main' = "block" /\ hb' = "wait" /\ stream' = "open"
  /\ UNCHANGED <<form, outcome, raised, answer, failures, missed, stop,
                 revoked, reason, intr, ext>>

-----------------------------------------------------------------------------
(* The heartbeat.  A cancelled task does not go on.                         *)

HbRuns(from) == hb = from /\ (form.sync \/ ~stop)

StopIgnored == FALSE   \* Fault: the thread never looks at _stop.
Stopped == stop

\* The interval is over.
Beat ==
  /\ HbRuns("wait") /\ ~Stopped
  /\ hb' = "asking"
  /\ UNCHANGED <<form, MainVars, answer, failures, missed, stop, revoked,
                 reason, intr, ext, stream>>

HbStops ==
  /\ Stopped
  /\ hb \in IF form.sync THEN {"wait"} ELSE {"wait", "asking", "answered"}
  /\ hb' = "ended"
  /\ UNCHANGED <<form, MainVars, answer, failures, missed, stop, revoked,
                 reason, intr, ext, stream>>

\* The boundary answers from its registries as they are now; the answer takes
\* its time to arrive.
BoundaryAnswers ==
  /\ HbRuns("asking")
  /\ answer' = IF stream = "open" THEN "ok" ELSE stream
  /\ hb' = "answered"
  /\ UNCHANGED <<form, MainVars, failures, missed, stop, revoked, reason, intr,
                 ext, stream>>

\* _revoke_now and the interruption: one step of the task, several of the thread.
RevokeFor(r) ==
  /\ reason' = r
  /\ hb' = IF form.sync THEN "revoke" ELSE "ended"
  /\ revoked' = ~form.sync
  /\ intr' = ~form.sync

TooMany == failures + 1 >= MaxFailures

LoopLeft == "ended"   \* Fault: the exception leaves the loop.
AfterFailure == "wait"

\* The request raises: refused, timed out, not a 200, no status in the body.
HeartbeatFails ==
  /\ HbRuns("asking") \/ HbRuns("answered")
  /\ failures' = failures + 1
  /\ missed' = missed + 1
  /\ answer' = "none"
  /\ \/ TooMany /\ RevokeFor("gateway_unavailable")
     \/ ~TooMany /\ hb' = AfterFailure /\ UNCHANGED <<revoked, reason, intr>>
  /\ UNCHANGED <<form, MainVars, stop, ext, stream>>

FailuresKept == failures   \* Fault: failures add up over the whole stream.
FailuresReset == 0

StatusArrives ==
  /\ HbRuns("answered")
  /\ failures' = FailuresReset
  /\ missed' = 0
  /\ answer' = "none"
  /\ \/ answer = "ok" /\ hb' = "wait" /\ UNCHANGED <<revoked, reason, intr>>
     \/ answer # "ok" /\ RevokeFor(answer)
  /\ UNCHANGED <<form, MainVars, stop, ext, stream>>

\* The thread: the event, the callback, and the main thread's interruption,
\* which is the last resort of a session without a callback.
SetRevoked ==
  /\ hb = "revoke"
  /\ revoked' = TRUE
  /\ hb' = IF form.callback THEN "callback" ELSE "interrupt"
  /\ UNCHANGED <<form, MainVars, answer, failures, missed, stop, reason, intr,
                 ext, stream>>

CallbackReturns ==
  /\ hb = "callback"
  /\ hb' = "interrupt"
  /\ UNCHANGED <<form, MainVars, answer, failures, missed, stop, revoked,
                 reason, intr, ext, stream>>

WithCallback == form.callback   \* Fault: the condition is turned around.
WithoutCallback == ~form.callback

InterruptMain ==
  /\ hb = "interrupt"
  /\ hb' = "ended"
  /\ intr' = WithoutCallback
  /\ UNCHANGED <<form, MainVars, answer, failures, missed, stop, revoked,
                 reason, ext, stream>>

-----------------------------------------------------------------------------
(* The block and __exit__.                                                  *)

\* The agent's block is done, or fails by itself.  A task that has been
\* cancelled cannot resume without noticing.
BlockEnds ==
  /\ main = "block"
  /\ form.sync \/ (~intr /\ ext # "asked")
  /\ \E r \in {"none", "error"} : raised' = r
  /\ main' = "exit"
  /\ UNCHANGED <<form, outcome, BeatVars, stop, revoked, reason, intr, ext,
                 stream>>

\* The interruption by the heartbeat reaches the code that main is running.
Interrupted ==
  /\ intr /\ intr' = FALSE
  /\ \/ /\ main = "block"
        /\ \/ main' = "exit" /\ raised' = "interrupt"
           \/ form.catches /\ UNCHANGED <<main, raised>>
        /\ UNCHANGED outcome
     \/ /\ form.sync /\ main \in {"exit", "join", "check", "close"}
        /\ main' = "done" /\ outcome' = "interrupted"
        /\ UNCHANGED raised
  /\ ext' = IF ext = "asked" THEN "taken" ELSE ext
  /\ UNCHANGED <<form, BeatVars, stop, revoked, reason, stream>>

\* Somebody else cancels the agent's task, at one of its awaits.
CancelTask ==
  /\ ~form.sync /\ ext = "no" /\ main \in {"block", "join", "close"}
  /\ ext' = "asked"
  /\ UNCHANGED <<form, MainVars, BeatVars, stop, revoked, reason, intr,
                 stream>>

\* The CancelledError is raised there.  The await of the heartbeat task is in a
\* try that passes over it.
Cancelled ==
  /\ ext = "asked"
  /\ \/ /\ main = "block"
        /\ main' = "exit" /\ raised' = "cancel" /\ ext' = "taken"
        /\ UNCHANGED outcome
     \/ /\ main = "join" /\ hb = "ended"
        /\ main' = "check" /\ ext' = "swallowed"
        /\ UNCHANGED <<outcome, raised>>
     \/ /\ main = "close"
        /\ main' = "done" /\ outcome' = "cancelled" /\ ext' = "taken"
        /\ UNCHANGED raised
  /\ intr' = FALSE
  /\ UNCHANGED <<form, BeatVars, stop, revoked, reason, stream>>

ExitStops ==
  /\ main = "exit"
  /\ stop' = TRUE
  /\ main' = "join"
  /\ UNCHANGED <<form, outcome, raised, BeatVars, revoked, reason, intr, ext,
                 stream>>

\* join(timeout = interval + 5), or the await of the cancelled task.
Join ==
  /\ main = "join" /\ ext # "asked"
  /\ hb = "ended" \/ (form.sync /\ ~Patient /\ hb # "wait")
  /\ main' = "check"
  /\ UNCHANGED <<form, outcome, raised, BeatVars, stop, revoked, reason, intr,
                 ext, stream>>

RevokedAndRaised == revoked /\ raised # "none"   \* Fault: only a failed block.
IsRevoked == revoked

\* A revoked session raises AegisStreamRevoked; a task that was cancelled
\* leaves the network alone; anything else closes the stream.
Check ==
  /\ main = "check"
  /\ \/ IsRevoked /\ main' = "done" /\ outcome' = "revoked"
     \/ ~IsRevoked /\ raised = "cancel" /\ main' = "done" /\ outcome' = "cancelled"
     \/ ~IsRevoked /\ raised # "cancel" /\ main' = "close" /\ UNCHANGED outcome
  /\ UNCHANGED <<form, raised, BeatVars, stop, revoked, reason, intr, ext,
                 stream>>

\* stream_close, best-effort.
Close ==
  /\ main = "close" /\ ext # "asked"
  /\ main' = "done"
  /\ outcome' = IF raised = "none" THEN "clean" ELSE "error"
  /\ \/ stream' = IF stream = "open" THEN "closed" ELSE stream
     \/ UNCHANGED stream
  /\ UNCHANGED <<form, raised, BeatVars, stop, revoked, reason, intr, ext>>

\* A ceremony of the boundary (duress, legal hold, expiry, revocation).
BoundaryCuts ==
  /\ stream = "open" /\ stream' = "cut"
  /\ UNCHANGED <<form, MainVars, BeatVars, stop, revoked, reason, intr, ext>>

HbStep == Beat \/ HbStops \/ BoundaryAnswers \/ HeartbeatFails \/ StatusArrives
          \/ SetRevoked \/ CallbackReturns \/ InterruptMain
ExitStep == ExitStops \/ Join \/ Check \/ Close

Next ==
  \/ OpenDenied \/ OpenGranted \/ BlockEnds \/ CancelTask \/ BoundaryCuts
  \/ HbStep \/ ExitStep \/ Interrupted \/ Cancelled

Spec == Init /\ [][Next]_vars

\* The heartbeat is scheduled and its requests end, by an answer or by httpx's
\* timeout; __exit__ runs on; an interruption arrives.  The block need not end.
FairSpec ==
  /\ Spec
  /\ WF_vars(HbStep) /\ WF_vars(ExitStep) /\ WF_vars(Interrupted \/ Cancelled)

-----------------------------------------------------------------------------
(* Properties.                                                              *)

\* The types of the session and of what it knows of the boundary.
TypeOK ==
  /\ form \in Forms
  /\ main \in {"enter", "block", "exit", "join", "check", "close", "done"}
  /\ outcome \in {"none", "denied", "clean", "error", "revoked", "interrupted",
                  "cancelled"}
  /\ raised \in {"none", "error", "interrupt", "cancel"}
  /\ hb \in {"none", "wait", "asking", "answered", "revoke", "callback",
             "interrupt", "ended"}
  /\ answer \in {"none", "ok", "cut", "closed"}
  /\ failures \in 0 .. MaxFailures /\ missed \in 0 .. MaxFailures
  /\ stop \in BOOLEAN /\ revoked \in BOOLEAN /\ intr \in BOOLEAN
  /\ reason \in {"none", "gateway_unavailable", "cut", "closed"}
  /\ ext \in {"no", "asked", "taken", "swallowed"}
  /\ stream \in {"none", "open", "cut", "closed"}

\* "a revoked session can never look like a clean run" (class StreamSession): a
\* session that is told of its revocation tells the code after the block.  (That
\* its stream is closed may be the news of its own close.)
RevokedNeverClean ==
  revoked /\ reason # "closed" => outcome \notin {"clean", "error"}

\* "either way __exit__ raises AegisStreamRevoked" (same place): by its name,
\* not as a bare KeyboardInterrupt or CancelledError.
RevocationIsNamed ==
  outcome \in {"interrupted", "cancelled"} => ~revoked

\* The name is lost in one form only: a thread without a callback, which has
\* the main thread to interrupt.
NameLostToMainOnly ==
  RevocationIsNamed \/ (form.sync /\ ~form.callback)

\* "an unverifiable stream is a stopped stream": after max_heartbeat_failures
\* heartbeats in a row without an answer no further one is waited for.
UnverifiedStops ==
  missed >= MaxFailures => hb \notin {"wait", "asking", "answered"}

\* A session is revoked because the boundary cut or closed its stream, or went
\* without answering often enough in a row, and never for another reason.
RevokedForCause ==
  revoked => \/ reason = "gateway_unavailable" /\ missed >= MaxFailures
             \/ reason \in {"cut", "closed"} /\ stream = reason

\* "External cancellation: don't touch the network from a cancelled task"
\* (__aexit__): the stream of a cancelled task is not closed from it.
CancelledStaysOff ==
  [][main = "check" /\ main' = "close" => ext = "no"]_vars

\* A stream the boundary cut is noticed while the block runs, whatever
\* heartbeats are lost on the way.
CutIsNoticed == stream = "cut" /\ main = "block" ~> revoked \/ main = "done"

\* A block that does not catch its interruption is over some time after the
\* revocation, although it would have run on for ever.  (A synchronous session
\* with a callback leaves that to the callback.)
AgentStops ==
  revoked /\ ~form.catches /\ ~(form.sync /\ form.callback) ~> main = "done"

\* The heartbeat ends once the block has ended.
HeartbeatEnds ==
  main \notin {"enter", "block"} /\ outcome # "denied" ~> hb = "ended"

\* Neither end of the session waits for ever.
SessionEnds == AgentStops /\ HeartbeatEnds
=============================================================================
