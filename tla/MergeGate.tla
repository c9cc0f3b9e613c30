------------------------------ MODULE MergeGate ------------------------------
(***************************************************************************)
(* The merge that no person makes (ops/merge_on_green.py with the decision *)
(* of ops/auto_merge_decide.py, driven by merge-on-green.yml): a run is    *)
(* asked for when a check of a commit completes or a status is set, and    *)
(* its job reads the pull request, its checks and its statuses one after   *)
(* the other, and merges. Authors push, hold and release the pull request, *)
(* and checks run again, between any two of those reads. There is one pull *)
(* request.                                                                *)
(***************************************************************************)
EXTENDS Integers, Sequences, SequencesExt, FiniteSets

CONSTANTS
    Contexts,   \* the required checks
    MaxHeads,   \* bound on the commits pushed
    MaxMoves,   \* bound on what people, checks and statuses do
    MaxFaults   \* bound on requests and jobs that fail

\* (In `moved`, "pr" and "status" stand beside the names of checks.)
ASSUME MergeAssumption ==
    /\ MaxHeads \in Nat \ {0} /\ MaxMoves \in Nat /\ MaxFaults \in Nat
    /\ Contexts \cap {"pr", "status"} = {}

VARIABLES
    pr,         \* the pull request
    checks,     \* per commit and check: its runs, in the order they were started
    statuses,   \* per commit: the statuses of the required context, oldest first
    queued,     \* per commit: the run that waits (concurrency group)
    displaced,  \* per commit: the last job asked for was cancelled as it waited
    job,        \* per commit: where its run is, and if all it read was green
    verified,   \* the checks of main were dispatched after the merge
    red,        \* per commit: the last job that found work ended in red
    moved,      \* per commit: what changed since its job read it
    moves, faults

asked == <<queued, displaced>>
vars == <<pr, checks, statuses, asked, job, verified, red, moved, moves, faults>>
world == <<pr, checks, statuses>>

Commits == 1..MaxHeads
Core == "core"          \* the account that is declared for the status
Creators == {Core, "workflow"}
Authors == {"allowed", "other bot"}     \* people and the bots that are declared; other bots

-----------------------------------------------------------------------------
(* What the jobs decide.                                                    *)

\* auto_merge_decide: is this pull request left to the machine?
Decide(p) ==
    /\ p.base = "main" /\ ~p.fork
    /\ ~p.draft
    /\ p.author # "other bot"
    /\ ~p.held

LastIs(s, x) == s # <<>> /\ s[Len(s)] = x

\* The run that was started last counts.
RunGreen(runs) == LastIs(runs, "success")
JudgeChecks(c) == \A context \in Contexts : RunGreen(checks[c][context])

Declared(s) == s.by = Core
\* The newest status that the declared account set counts.
JudgeStatuses(c) ==
    LET mine == SelectSeq(statuses[c], Declared)
    IN LastIs([i \in 1..Len(mine) |-> mine[i].state], "success")

-----------------------------------------------------------------------------
(* The environment.                                                         *)

Move == moves < MaxMoves /\ moves' = moves + 1

\* What a job has read already has moved under it.
Moves(c, what) ==
    moved' = [moved EXCEPT ![c] = IF job[c].at = "idle" THEN @ ELSE @ \cup {what}]
MovesAll(what) ==
    moved' = [c \in Commits |-> IF job[c].at = "idle" THEN moved[c] ELSE moved[c] \cup {what}]

\* A run is asked for. Of the runs of a commit one is under way and one waits:
\* a newer one takes the place of the one that waits, whatever it is for.
Free(c) == job[c].at = "idle" /\ queued[c] = "none"
Ask(c, run) ==
    /\ queued' = IF Free(c) THEN queued ELSE [queued EXCEPT ![c] = run]
    /\ job' = IF Free(c) THEN [job EXCEPT ![c].at = run] ELSE job
    /\ displaced' = [displaced EXCEPT ![c] = run = "skipped" /\ (@ \/ queued[c] = "pulls")]

Push ==
    /\ Move /\ pr.state = "open" /\ pr.head < MaxHeads
    /\ pr' = [pr EXCEPT !.head = @ + 1]
    /\ UNCHANGED <<checks, statuses, asked, job, verified, red, moved, faults>>

\* A person makes it a draft, puts the label on it, retargets it, or undoes it;
\* main gets ahead of it and it conflicts, or no longer does.
Edit ==
    /\ Move /\ pr.state = "open"
    /\ \/ pr' = [pr EXCEPT !.draft = ~@]
       \/ pr' = [pr EXCEPT !.held = ~@]
       \/ pr' = [pr EXCEPT !.conflict = ~@]
       \/ pr' = [pr EXCEPT !.base = IF @ = "main" THEN "other" ELSE "main"]
    /\ MovesAll("pr")
    /\ UNCHANGED <<checks, statuses, asked, job, verified, red, faults>>

IsRunning(runs) == LastIs(runs, "running")

StartRun(c, context) ==
    /\ Move /\ c <= pr.head
    /\ ~IsRunning(checks[c][context])
    /\ checks' = [checks EXCEPT ![c][context] = Append(@, "running")]
    /\ Moves(c, context)
    /\ UNCHANGED <<pr, statuses, asked, job, verified, red, faults>>

\* A check ends, and with its workflow a job of its commit is asked for.
CompleteRun(c, context) ==
    /\ IsRunning(checks[c][context])
    /\ \E result \in {"success", "failure"} :
          checks' = [checks EXCEPT ![c][context] = Append(Front(@), result)]
    /\ Ask(c, "pulls")
    /\ Moves(c, context)
    /\ UNCHANGED <<pr, statuses, verified, red, moves, faults>>

RunFor(state) == IF state = "success" THEN "pulls" ELSE "skipped"

SetStatus(c, by) ==
    /\ Move /\ c <= pr.head
    /\ \E state \in {"success", "failure"} :
          /\ statuses' = [statuses EXCEPT ![c] = Append(@, [by |-> by, state |-> state])]
          /\ Ask(c, RunFor(state))
    /\ Moves(c, "status")
    /\ UNCHANGED <<pr, checks, verified, red, faults>>

-----------------------------------------------------------------------------
(* A job.                                                                   *)

Idle == [at |-> "idle", green |-> TRUE]
Goes(c, to, green) == job' = [job EXCEPT ![c] = [at |-> to, green |-> @.green /\ green]]
Ends(c) == job' = [job EXCEPT ![c] = Idle]
Turns(c, isRed) == red' = [red EXCEPT ![c] = isRed]
Waits(c) == Ends(c) /\ Turns(c, FALSE)                  \* exit codes 0 and 3
Fails(c) == Ends(c) /\ Turns(c, TRUE)                   \* exit codes 1 and 2
Fault == faults < MaxFaults /\ faults' = faults + 1

\* The run that waits starts when the one before it is over.
StartRunOf(c) ==
    /\ queued[c] # "none" /\ job[c].at = "idle"
    /\ queued' = [queued EXCEPT ![c] = "none"]
    /\ Goes(c, queued[c], TRUE)
    /\ UNCHANGED <<world, displaced, verified, red, moved, moves, faults>>

\* A run whose job is skipped ends with nothing done.
SkipJob(c) ==
    /\ job[c].at = "skipped" /\ Ends(c)
    /\ UNCHANGED <<world, asked, verified, red, moved, moves, faults>>

\* The pull requests of the commit, which need not be their head.
ReadPulls(c) ==
    /\ job[c].at = "pulls"
    /\ \/ pr.state = "open" /\ Goes(c, "pr", TRUE) /\ Turns(c, FALSE)
       \/ pr.state # "open" /\ Ends(c) /\ UNCHANGED red
    /\ moved' = [moved EXCEPT ![c] = {}]
    /\ UNCHANGED <<world, asked, verified, moves, faults>>

\* What the machine may not merge ends the job; a conflict is told at the end.
ReadPr(c) ==
    /\ job[c].at = "pr"
    /\ \/ Decide(pr) /\ Goes(c, "checks", ~pr.conflict) /\ UNCHANGED red
       \/ ~Decide(pr) /\ Waits(c)
    /\ moved' = [moved EXCEPT ![c] = @ \ {"pr"}]
    /\ UNCHANGED <<world, asked, verified, moves, faults>>

ReadChecks(c) ==
    /\ job[c].at = "checks"
    /\ Goes(c, "statuses", JudgeChecks(c))
    /\ moved' = [moved EXCEPT ![c] = @ \ Contexts]
    /\ UNCHANGED <<world, asked, verified, red, moves, faults>>

ReadStatuses(c) ==
    /\ job[c].at = "statuses"
    /\ LET all == job[c].green /\ JudgeStatuses(c)
       IN \/ all /\ Goes(c, "merge", TRUE) /\ UNCHANGED red
          \/ ~all /\ Waits(c)
    /\ moved' = [moved EXCEPT ![c] = @ \ {"status"}]
    /\ UNCHANGED <<world, asked, verified, moves, faults>>

\* Fault: the request names no commit, whatever is the head is merged.
AnyHead(c) == Commits
NamedHead(c) == {c}

\* External: the merge is taken when the pull request is open, no draft and
\* without a conflict, and its head is the commit that the request names.
Mergeable(c) == pr.state = "open" /\ ~pr.draft /\ ~pr.conflict /\ pr.head \in NamedHead(c)

\* An answer that is lost leaves the job red and the merge done.
Merge(c) ==
    /\ job[c].at = "merge"
    /\ \/ /\ Mergeable(c) /\ pr' = [pr EXCEPT !.state = "merged"]
          /\ \/ Goes(c, "dispatch", TRUE) /\ UNCHANGED <<red, faults>>
             \/ Fault /\ Fails(c)
       \/ ~Mergeable(c) /\ Fails(c) /\ UNCHANGED <<pr, faults>>
    /\ UNCHANGED <<checks, statuses, asked, verified, moved, moves>>

\* Fault: a dispatch that fails is passed over.
DispatchQuietly(c) ==
    /\ job[c].at = "dispatch" /\ Waits(c)
    /\ \/ verified' = TRUE /\ UNCHANGED faults
       \/ Fault /\ UNCHANGED verified
    /\ UNCHANGED <<world, asked, moved, moves>>
\* The push of a bot starts no workflow: the checks of main are dispatched.
Dispatch(c) ==
    /\ job[c].at = "dispatch"
    /\ \/ Waits(c) /\ verified' = TRUE /\ UNCHANGED faults
       \/ Fails(c) /\ Fault /\ UNCHANGED verified
    /\ UNCHANGED <<world, asked, moved, moves>>

\* A request fails, or the job runs into its time limit.
JobFails(c) ==
    /\ job[c].at \notin {"idle", "skipped", "dispatch"} /\ Fault /\ Fails(c)
    /\ UNCHANGED <<world, asked, verified, moved, moves>>

-----------------------------------------------------------------------------
Init ==
    /\ pr \in [state : {"open"}, head : {1}, base : {"main"}, fork : BOOLEAN,
               draft : {FALSE}, held : {FALSE}, conflict : {FALSE}, author : Authors]
    /\ checks = [c \in Commits |-> [context \in Contexts |-> <<>>]]
    /\ statuses = [c \in Commits |-> <<>>]
    /\ queued = [c \in Commits |-> "none"] /\ job = [c \in Commits |-> Idle]
    /\ displaced = [c \in Commits |-> FALSE]
    /\ verified = FALSE /\ red = [c \in Commits |-> FALSE]
    /\ moved = [c \in Commits |-> {}]
    /\ moves = 0 /\ faults = 0

JobStep(c) ==
    \/ StartRunOf(c) \/ SkipJob(c) \/ ReadPulls(c) \/ ReadPr(c) \/ ReadChecks(c) \/ ReadStatuses(c)
    \/ Merge(c) \/ Dispatch(c)

Environment(c) ==
    \/ \E context \in Contexts : StartRun(c, context) \/ CompleteRun(c, context)
    \/ \E by \in Creators : SetStatus(c, by)
    \/ JobFails(c)

Next == Push \/ Edit \/ \E c \in Commits : JobStep(c) \/ Environment(c)

\* Runs that are due are started, and run.
Spec == Init /\ [][Next]_vars /\ \A c \in Commits : WF_vars(JobStep(c))

-----------------------------------------------------------------------------
(* Properties.                                                              *)

Green(c) == JudgeChecks(c) /\ JudgeStatuses(c)

\* What is merged is the commit that was judged: at that moment the pull
\* request is one for the machine, and each required check and the status are
\* green on the head itself, except for what changed after the job of that very
\* commit had read it.  (The merge request names the commit; a run that was
\* started last and a status of the declared account are what counts.)
MergesWhatItJudged ==
    [][pr.state = "open" /\ pr'.state = "merged" =>
          LET c == pr.head
              newest == SelectSeq(statuses[c], LAMBDA s : s.by = Core)
          IN /\ (pr.base = "main" /\ ~pr.held /\ pr.author # "other bot") \/ "pr" \in moved[c]
             /\ ~pr.fork
             /\ \A context \in Contexts :
                   \/ LastIs(checks[c][context], "success")
                   \/ context \in moved[c]
             /\ LastIs([i \in 1..Len(newest) |-> newest[i].state], "success")
                \/ "status" \in moved[c]]_vars

\* A merge is followed by the checks of main, or the job that merged ends in red
\* and says that they may be missing (the dispatch at the end of main()).
MergeIsFollowedUp == pr.state = "merged" ~> verified \/ red[pr.head]


\* merge-on-green.yml:30-31: the status wakes it, so that a pull request which
\* waits for its last status is merged; here without the exception.
EveryGreenIsMerged ==
    [](Decide(pr) /\ ~pr.conflict) /\ <>[]Green(pr.head)
        => <>[](pr.state = "merged" \/ red[pr.head])

\* auto_merge_decide.py:22: a draft is not armed "until a person marks it
\* ready"; ready and green, it is merged.
ReadyIsMerged ==
    <>[](Decide(pr) /\ Green(pr.head) /\ ~displaced[pr.head])
        => <>[](pr.state = "merged" \/ red[pr.head])
=============================================================================
