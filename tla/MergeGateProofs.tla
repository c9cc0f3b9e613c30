--------------------------- MODULE MergeGateProofs ---------------------------
(***************************************************************************)
(* Proof about MergeGate, for any required checks and any number of        *)
(* commits, moves and failures.                                            *)
(*                                                                         *)
(*   MergedAsJudged   MergeGate!MergesWhatItJudged                         *)
(*                                                                         *)
(* A job reads the pull request, the checks and the statuses in steps of   *)
(* their own. JudgedInv says, for each place a job may be at, that what it *)
(* read by then is still so, unless it is noted as moved.                  *)
(***************************************************************************)
EXTENDS MergeGate, TLAPS

\* The maps have their domains.
Shaped ==
  /\ pr = [state |-> pr.state, head |-> pr.head, base |-> pr.base,
           fork |-> pr.fork, draft |-> pr.draft, held |-> pr.held,
           conflict |-> pr.conflict, author |-> pr.author]
  /\ checks = [c \in Commits |-> [x \in Contexts |-> checks[c][x]]]
  /\ statuses = [c \in Commits |-> statuses[c]]
  /\ job = [c \in Commits |-> [at |-> job[c].at, green |-> job[c].green]]
  /\ moved = [c \in Commits |-> moved[c]]
  /\ queued \in [Commits -> {"none", "pulls", "skipped"}]

\* The pull request is one for the machine, or moved since it was read.
PrRead(c) ==
  /\ (pr.base = "main" /\ ~pr.held) \/ "pr" \in moved[c]
  /\ ~pr.fork /\ pr.author # "other bot"
ChecksRead(c) ==
  \A x \in Contexts : RunGreen(checks[c][x]) \/ x \in moved[c]
StatusesRead(c) == JudgeStatuses(c) \/ "status" \in moved[c]

Judged(c) ==
  /\ job[c].at \in {"checks", "statuses", "merge"} => PrRead(c)
  /\ job[c].at \in {"statuses", "merge"} /\ job[c].green => ChecksRead(c)
  /\ job[c].at = "merge" => job[c].green /\ StatusesRead(c)

JudgedInv == Shaped /\ \A c \in Commits : Judged(c)

LEMMA JudgedInit == Init => JudgedInv
BY DEF Init, JudgedInv, Shaped, Judged, Idle

-----------------------------------------------------------------------------
(* What happens beside a job is noted.                                      *)

LEMMA EditKeeps == JudgedInv /\ Edit => JudgedInv'
<1> SUFFICES ASSUME JudgedInv, Edit
             PROVE  JudgedInv'
  OBVIOUS
<1>1. /\ pr'.fork = pr.fork /\ pr'.author = pr.author
      /\ pr' = [state |-> pr'.state, head |-> pr'.head, base |-> pr'.base,
                fork |-> pr'.fork, draft |-> pr'.draft, held |-> pr'.held,
                conflict |-> pr'.conflict, author |-> pr'.author]
  BY DEF Edit, JudgedInv, Shaped
<1>2. /\ moved' = [c \in Commits |-> IF job[c].at = "idle" THEN moved[c]
                                     ELSE moved[c] \cup {"pr"}]
      /\ UNCHANGED <<checks, statuses, job, queued>>
  BY DEF Edit, MovesAll, asked
<1>3. Shaped'
  BY <1>1, <1>2 DEF JudgedInv, Shaped
<1>4. ASSUME NEW c \in Commits
      PROVE  Judged(c)'
  <2>1. CASE job[c].at = "idle"
    BY <1>2, <2>1 DEF Judged
  <2>2. CASE job[c].at # "idle"
    <3>1. moved'[c] = moved[c] \cup {"pr"}
      BY <1>2, <2>2
    <3> QED
      BY <1>1, <1>2, <3>1
      DEF JudgedInv, Judged, PrRead, ChecksRead, StatusesRead, RunGreen,
          JudgeStatuses
  <2> QED
    BY <2>1, <2>2
<1> QED
  BY <1>3, <1>4 DEF JudgedInv

\* The jobs after a step that may ask for a run of commit d: they are where they
\* were, but for one of d that takes the group when it is free.
Asks(d) ==
  /\ queued' \in [Commits -> {"none", "pulls", "skipped"}]
  /\ \/ job' = job
     \/ \E run \in {"pulls", "skipped"} : job' = [job EXCEPT ![d].at = run]
                                          /\ job[d].at = "idle"

LEMMA AskAsks ==
  ASSUME JudgedInv, NEW d \in Commits, NEW run \in {"pulls", "skipped"}, Ask(d, run)
  PROVE  Asks(d)
BY DEF JudgedInv, Shaped, Ask, Asks, Free

LEMMA NoneAsks ==
  ASSUME JudgedInv, NEW d \in Commits, UNCHANGED <<job, asked>>
  PROVE  Asks(d)
BY DEF JudgedInv, Shaped, Asks, asked

LEMMA AsksShape ==
  ASSUME JudgedInv, NEW d \in Commits, Asks(d)
  PROVE  /\ job' = [c \in Commits |-> [at |-> job'[c].at, green |-> job'[c].green]]
         /\ \A c \in Commits : job'[c].at \notin {"idle", "pulls", "skipped"} =>
                              job'[c] = job[c] /\ job[c].at # "idle"
<1>1. job = [c \in Commits |-> [at |-> job[c].at, green |-> job[c].green]]
  BY DEF JudgedInv, Shaped
<1>2. CASE job' = job
  <2>1. \A c \in Commits : job'[c] = job[c]
    BY <1>2
  <2>2. job' = [c \in Commits |-> [at |-> job'[c].at, green |-> job'[c].green]]
    BY ONLY <1>1, <1>2
  <2>3. \A c \in Commits : job'[c].at \notin {"idle", "pulls", "skipped"} =>
                              job'[c] = job[c] /\ job[c].at # "idle"
    BY <2>1
  <2> QED
    BY ONLY <2>2, <2>3
<1>3. ASSUME NEW run \in {"pulls", "skipped"}, job' = [job EXCEPT ![d].at = run]
      PROVE  /\ job' = [c \in Commits |-> [at |-> job'[c].at, green |-> job'[c].green]]
             /\ \A c \in Commits : job'[c].at \notin {"idle", "pulls", "skipped"} =>
                              job'[c] = job[c] /\ job[c].at # "idle"
  <2>1. job' = [c \in Commits |-> IF c = d THEN [at |-> run, green |-> job[d].green]
                                  ELSE [at |-> job[c].at, green |-> job[c].green]]
    BY <1>1, <1>3
  <2>2. job'[d] = [at |-> run, green |-> job[d].green]
    BY <2>1
  <2>3. ASSUME NEW c \in Commits, c # d
        PROVE  job'[c] = job[c]
    BY <1>1, <2>1, <2>3
  <2>4. \A c \in Commits : job'[c] = [at |-> job'[c].at, green |-> job'[c].green]
    BY <2>1
  <2>5. job' = [c \in Commits |-> job'[c]]
    BY <2>1
  <2>6. job' = [c \in Commits |-> [at |-> job'[c].at, green |-> job'[c].green]]
    BY <2>4, <2>5
  <2>7. \A c \in Commits : job'[c].at \notin {"idle", "pulls", "skipped"} =>
                              job'[c] = job[c] /\ job[c].at # "idle"
    BY <2>2, <2>3
  <2> QED
    BY ONLY <2>6, <2>7
<1> QED
  BY <1>2, <1>3 DEF Asks

\* A check starts or ends.
LEMMA CheckKeeps ==
  ASSUME JudgedInv, NEW d \in Commits, NEW y \in Contexts, NEW runs,
         checks' = [checks EXCEPT ![d][y] = runs],
         Moves(d, y), Asks(d), UNCHANGED <<pr, statuses>>
  PROVE  JudgedInv'
<1>1. moved' = [moved EXCEPT ![d] = IF job[d].at = "idle" THEN @ ELSE @ \cup {y}]
  BY DEF Moves
<1>2. Shaped'
  <2>1. moved' = [c \in Commits |-> moved'[c]]
    BY <1>1 DEF JudgedInv, Shaped
  <2>2. checks' = [c \in Commits |-> [x \in Contexts |-> checks'[c][x]]]
    <3>1. \A c \in Commits : checks'[c] = IF c = d THEN [checks[d] EXCEPT ![y] = runs]
                                         ELSE checks[c]
      BY DEF JudgedInv, Shaped
    <3>2. ASSUME NEW c \in Commits
          PROVE  checks'[c] = [x \in Contexts |-> checks'[c][x]]
      <4>1. checks[c] = [x \in Contexts |-> checks[c][x]]
        BY DEF JudgedInv, Shaped
      <4>2. CASE c # d
        BY <3>1, <4>1, <4>2
      <4>3. CASE c = d
        <5>1. checks'[d] = [checks[d] EXCEPT ![y] = runs]
          BY <3>1
        <5> QED
          BY <4>1, <4>3, <5>1
      <4> QED
        BY <4>2, <4>3
    <3>3. checks' = [c \in Commits |-> checks'[c]]
      BY DEF JudgedInv, Shaped
    <3> QED
      BY <3>2, <3>3
  <2> QED
    BY <2>1, <2>2, AsksShape DEF JudgedInv, Shaped, Asks
<1>3. ASSUME NEW c \in Commits
      PROVE  Judged(c)'
  <2>1. CASE job'[c].at \in {"idle", "pulls", "skipped"}
    BY <2>1 DEF Judged
  <2>2. CASE job'[c] = job[c] /\ job[c].at # "idle"
    <3>1. moved[c] \subseteq moved'[c] /\ (c = d => y \in moved'[c])
      BY <1>1, <2>2 DEF JudgedInv, Shaped
    <3>2. ASSUME NEW x \in Contexts
          PROVE  checks'[c][x] = checks[c][x] \/ x \in moved'[c]
      BY <3>1 DEF JudgedInv, Shaped
    <3> QED
      BY <2>2, <3>1, <3>2
      DEF JudgedInv, Judged, PrRead, ChecksRead, StatusesRead, RunGreen,
          JudgeStatuses
  <2> QED
    BY <2>1, <2>2, AsksShape
<1> QED
  BY <1>2, <1>3 DEF JudgedInv

LEMMA StatusKeeps ==
  ASSUME JudgedInv, NEW d \in Commits, NEW by \in Creators, SetStatus(d, by)
  PROVE  JudgedInv'
<1>1. PICK s : statuses' = [statuses EXCEPT ![d] = Append(@, s)]
  BY DEF SetStatus
<1>2. /\ moved' = [moved EXCEPT ![d] = IF job[d].at = "idle" THEN @
                                       ELSE @ \cup {"status"}]
      /\ UNCHANGED <<pr, checks>>
  BY DEF SetStatus, Moves
<1>a. Asks(d)
  <2>1. \A state : RunFor(state) \in {"pulls", "skipped"}
    BY DEF RunFor
  <2> QED
    BY <2>1, AskAsks DEF SetStatus
<1>3. Shaped'
  BY <1>1, <1>2, <1>a, AsksShape DEF JudgedInv, Shaped, Asks
<1>4. ASSUME NEW c \in Commits
      PROVE  Judged(c)'
  <2>1. CASE job'[c].at \in {"idle", "pulls", "skipped"}
    BY <2>1 DEF Judged
  <2>2. CASE job'[c] = job[c] /\ job[c].at # "idle"
    <3>1. moved[c] \subseteq moved'[c] /\ (c = d => "status" \in moved'[c])
      BY <1>2, <2>2 DEF JudgedInv, Shaped
    <3>2. statuses'[c] = statuses[c] \/ "status" \in moved'[c]
      BY <1>1, <3>1 DEF JudgedInv, Shaped
    <3>3. StatusesRead(c) => StatusesRead(c)'
      BY <3>1, <3>2 DEF StatusesRead, JudgeStatuses
    <3> QED
      BY <1>2, <2>2, <3>1, <3>3
      DEF JudgedInv, Judged, PrRead, ChecksRead, RunGreen
  <2> QED
    BY <2>1, <2>2, <1>a, AsksShape
<1> QED
  BY <1>3, <1>4 DEF JudgedInv

-----------------------------------------------------------------------------
(* Jobs.                                                                    *)

\* The job of a commit moves on: the others, and what they read, stay.
LEMMA OthersKeep ==
  ASSUME JudgedInv, NEW d \in Commits, NEW to, NEW green,
         UNCHANGED <<checks, statuses>>,
         queued' \in [Commits -> {"none", "pulls", "skipped"}],
         job' = [job EXCEPT ![d] = [at |-> to, green |-> green]],
         \/ UNCHANGED moved
         \/ \E set : moved' = [moved EXCEPT ![d] = set],
         /\ pr'.base = pr.base /\ pr'.held = pr.held
         /\ pr'.fork = pr.fork /\ pr'.author = pr.author
         /\ pr' = [state |-> pr'.state, head |-> pr'.head, base |-> pr'.base,
                   fork |-> pr'.fork, draft |-> pr'.draft, held |-> pr'.held,
                   conflict |-> pr'.conflict, author |-> pr'.author],
         Judged(d)'
  PROVE  JudgedInv'
<1>1. Shaped'
  BY DEF JudgedInv, Shaped
<1>2. ASSUME NEW c \in Commits, c # d
      PROVE  Judged(c)'
  <2>1. job'[c] = job[c] /\ moved'[c] = moved[c]
    BY <1>2 DEF JudgedInv, Shaped
  <2> QED
    BY <2>1
    DEF JudgedInv, Judged, PrRead, ChecksRead, StatusesRead, RunGreen,
        JudgeStatuses
<1> QED
  BY <1>1, <1>2 DEF JudgedInv

\* Where the job of a commit is afterwards.
LEMMA GoesTo ==
  ASSUME JudgedInv, NEW d \in Commits, NEW to, NEW green, Goes(d, to, green)
  PROVE  /\ job' = [job EXCEPT ![d] = [at |-> to, green |-> job[d].green /\ green]]
         /\ job'[d].at = to /\ (job'[d].green <=> job[d].green /\ green)
BY DEF Goes, JudgedInv, Shaped

LEMMA EndsAt ==
  ASSUME JudgedInv, NEW d \in Commits, Ends(d)
  PROVE  /\ job' = [job EXCEPT ![d] = [at |-> "idle", green |-> TRUE]]
         /\ job'[d].at = "idle"
BY DEF Ends, Idle, JudgedInv, Shaped

\* A job that ends has nothing to answer for.
LEMMA EndKeeps ==
  ASSUME JudgedInv, NEW d \in Commits, Ends(d), UNCHANGED <<checks, statuses, queued>>,
         moved' = moved \/ \E set : moved' = [moved EXCEPT ![d] = set],
         pr' = pr \/ \E state : pr' = [pr EXCEPT !.state = state]
  PROVE  JudgedInv'
<1>1. /\ pr'.base = pr.base /\ pr'.held = pr.held
      /\ pr'.fork = pr.fork /\ pr'.author = pr.author
      /\ pr' = [state |-> pr'.state, head |-> pr'.head, base |-> pr'.base,
                fork |-> pr'.fork, draft |-> pr'.draft, held |-> pr'.held,
                conflict |-> pr'.conflict, author |-> pr'.author]
  BY DEF JudgedInv, Shaped
<1>2. Judged(d)'
  BY EndsAt DEF Judged
<1>3. queued' \in [Commits -> {"none", "pulls", "skipped"}]
  BY DEF JudgedInv, Shaped
<1> QED
  BY <1>1, <1>2, <1>3, EndsAt, OthersKeep

\* A job that goes on answers for what it has read so far.
LEMMA GoKeeps ==
  ASSUME JudgedInv, NEW d \in Commits, NEW to, NEW green, Goes(d, to, green),
         UNCHANGED <<checks, statuses>>,
         queued' \in [Commits -> {"none", "pulls", "skipped"}],
         moved' = moved \/ \E set : moved' = [moved EXCEPT ![d] = set],
         pr' = pr \/ \E state : pr' = [pr EXCEPT !.state = state],
         Judged(d)'
  PROVE  JudgedInv'
<1>1. /\ pr'.base = pr.base /\ pr'.held = pr.held
      /\ pr'.fork = pr.fork /\ pr'.author = pr.author
      /\ pr' = [state |-> pr'.state, head |-> pr'.head, base |-> pr'.base,
                fork |-> pr'.fork, draft |-> pr'.draft, held |-> pr'.held,
                conflict |-> pr'.conflict, author |-> pr'.author]
  BY DEF JudgedInv, Shaped
<1>2. job' = [job EXCEPT ![d] = [at |-> to, green |-> job[d].green /\ green]]
  BY GoesTo
<1> QED
  BY <1>1, <1>2, OthersKeep

LEMMA JobKeeps ==
  ASSUME JudgedInv, NEW d \in Commits, JobStep(d) \/ JobFails(d)
  PROVE  JudgedInv'
<1>0. queued \in [Commits -> {"none", "pulls", "skipped"}]
  BY DEF JudgedInv, Shaped
<1>1. CASE StartRunOf(d)
  <2>1. /\ Goes(d, queued[d], TRUE) /\ job'[d].at = queued[d]
        /\ queued[d] \in {"pulls", "skipped"}
    BY <1>0, <1>1, GoesTo DEF StartRunOf
  <2>2. Judged(d)'
    BY <2>1 DEF Judged
  <2>3. /\ queued' \in [Commits -> {"none", "pulls", "skipped"}]
        /\ UNCHANGED <<pr, checks, statuses, moved>>
    BY <1>0, <1>1 DEF StartRunOf, world
  <2> QED
    BY <2>1, <2>2, <2>3, GoKeeps
<1>9. CASE SkipJob(d)
  BY <1>9, EndKeeps DEF SkipJob, world, asked
<1>2. CASE ReadPulls(d)
  <2>1. /\ UNCHANGED <<pr, checks, statuses, queued>>
        /\ moved' = [moved EXCEPT ![d] = {}]
    BY <1>2 DEF ReadPulls, world, asked
  <2>2. CASE Goes(d, "pr", TRUE)
    <3>1. job'[d].at = "pr"
      BY <2>2, GoesTo
    <3>2. Judged(d)'
      BY <3>1 DEF Judged
    <3> QED
      BY <1>0, <2>1, <2>2, <3>2, GoKeeps
  <2>3. CASE Ends(d)
    BY <2>1, <2>3, EndKeeps
  <2> QED
    BY <1>2, <2>2, <2>3 DEF ReadPulls
<1>3. CASE ReadPr(d)
  <2>1. /\ UNCHANGED <<pr, checks, statuses, queued>>
        /\ moved' = [moved EXCEPT ![d] = moved[d] \ {"pr"}]
    BY <1>3 DEF ReadPr, world, asked
  <2>2. CASE Decide(pr) /\ Goes(d, "checks", ~pr.conflict)
    <3>1. PrRead(d)'
      BY <2>1, <2>2 DEF PrRead, Decide
    <3>2. Judged(d)'
      BY <2>2, <3>1, GoesTo DEF Judged
    <3> QED
      BY <1>0, <2>1, <2>2, <3>2, GoKeeps
  <2>3. CASE Ends(d)
    BY <2>1, <2>3, EndKeeps
  <2> QED
    BY <1>3, <2>2, <2>3 DEF ReadPr, Waits
<1>4. CASE ReadChecks(d)
  <2>1. /\ Goes(d, "statuses", JudgeChecks(d)) /\ job[d].at = "checks"
        /\ UNCHANGED <<pr, checks, statuses, queued>>
        /\ moved' = [moved EXCEPT ![d] = moved[d] \ Contexts]
        /\ moved'[d] = moved[d] \ Contexts
    BY <1>4 DEF ReadChecks, world, asked, JudgedInv, Shaped
  <2>2. PrRead(d)'
    BY <2>1, MergeAssumption DEF JudgedInv, Judged, PrRead, MergeAssumption
  <2>3. JudgeChecks(d) => ChecksRead(d)'
    BY <2>1 DEF JudgeChecks, ChecksRead, RunGreen
  <2>4. Judged(d)'
    BY <2>1, <2>2, <2>3, GoesTo DEF Judged
  <2> QED
    BY <1>0, <2>1, <2>4, GoKeeps
<1>5. CASE ReadStatuses(d)
  <2>1. /\ job[d].at = "statuses"
        /\ UNCHANGED <<pr, checks, statuses, queued>>
        /\ moved' = [moved EXCEPT ![d] = moved[d] \ {"status"}]
        /\ moved'[d] = moved[d] \ {"status"}
    BY <1>5 DEF ReadStatuses, world, asked, JudgedInv, Shaped
  <2>2. CASE job[d].green /\ JudgeStatuses(d) /\ Goes(d, "merge", TRUE)
    <3>1. PrRead(d)'
      BY <2>1 DEF JudgedInv, Judged, PrRead
    <3>2. ChecksRead(d)'
      BY <2>1, <2>2, MergeAssumption
      DEF JudgedInv, Judged, ChecksRead, RunGreen, MergeAssumption
    <3>3. StatusesRead(d)'
      BY <2>1, <2>2 DEF StatusesRead, JudgeStatuses
    <3>4. Judged(d)'
      BY <2>2, <3>1, <3>2, <3>3, GoesTo DEF Judged
    <3> QED
      BY <1>0, <2>1, <2>2, <3>4, GoKeeps
  <2>3. CASE Ends(d)
    BY <2>1, <2>3, EndKeeps
  <2> QED
    BY <1>5, <2>2, <2>3 DEF ReadStatuses, Waits
<1>6. CASE Merge(d)
  <2>1. UNCHANGED <<checks, statuses, moved, queued>>
    BY <1>6 DEF Merge, asked
  <2>2. pr' = pr \/ \E state : pr' = [pr EXCEPT !.state = state]
    BY <1>6 DEF Merge
  <2>3. CASE Goes(d, "dispatch", TRUE)
    <3>1. job'[d].at = "dispatch"
      BY <2>3, GoesTo
    <3>2. Judged(d)'
      BY <3>1 DEF Judged
    <3> QED
      BY <1>0, <2>1, <2>2, <2>3, <3>2, GoKeeps
  <2>4. CASE Ends(d)
    BY <2>1, <2>2, <2>4, EndKeeps
  <2> QED
    BY <1>6, <2>3, <2>4 DEF Merge, Fails
<1>7. CASE Dispatch(d)
  BY <1>7, EndKeeps DEF Dispatch, Waits, Fails, world, asked
<1>8. CASE JobFails(d)
  BY <1>8, EndKeeps DEF JobFails, Fails, world, asked
<1> QED
  BY <1>1, <1>2, <1>3, <1>4, <1>5, <1>6, <1>7, <1>8, <1>9 DEF JobStep

LEMMA JudgedNext == JudgedInv /\ [Next]_vars => JudgedInv'
<1> SUFFICES ASSUME JudgedInv, [Next]_vars
             PROVE  JudgedInv'
  OBVIOUS
<1>1. CASE Push
  BY <1>1 DEF Push, asked, JudgedInv, Shaped, Judged, PrRead, ChecksRead, StatusesRead,
              RunGreen, JudgeStatuses
<1>2. CASE Edit
  BY <1>2, EditKeeps
<1>3. ASSUME NEW c \in Commits, JobStep(c) \/ JobFails(c)
      PROVE  JudgedInv'
  BY <1>3, JobKeeps
<1>4. ASSUME NEW c \in Commits, NEW x \in Contexts, StartRun(c, x)
      PROVE  JudgedInv'
  BY <1>4, CheckKeeps, NoneAsks DEF StartRun
<1>5. ASSUME NEW c \in Commits, NEW x \in Contexts, CompleteRun(c, x)
      PROVE  JudgedInv'
  BY <1>5, CheckKeeps, AskAsks DEF CompleteRun
<1>6. ASSUME NEW c \in Commits, NEW by \in Creators, SetStatus(c, by)
      PROVE  JudgedInv'
  BY <1>6, StatusKeeps
<1>7. CASE UNCHANGED vars
  BY <1>7 DEF vars, asked, JudgedInv, Shaped, Judged, PrRead, ChecksRead, StatusesRead,
              RunGreen, JudgeStatuses
<1> QED
  BY <1>1, <1>2, <1>3, <1>4, <1>5, <1>6, <1>7 DEF Next, Environment

-----------------------------------------------------------------------------
\* The pull request leaves the open state only by the merge of its head's job.
LEMMA WhoMerges ==
  ASSUME JudgedInv, [Next]_vars, pr.state = "open", pr'.state = "merged"
  PROVE  pr.head \in Commits /\ job[pr.head].at = "merge"
<1>1. PICK c \in Commits : Merge(c) /\ Mergeable(c)
  BY DEF Next, vars, world, Push, Edit, JobStep, Environment, StartRunOf, SkipJob, ReadPulls,
         ReadPr, ReadChecks, ReadStatuses, Merge, Dispatch, StartRun, CompleteRun,
         SetStatus, JobFails, JudgedInv, Shaped
<1> QED
  BY <1>1 DEF Merge, Mergeable, NamedHead

\* Whatever people, checks and statuses do between the steps of a job, and
\* however many jobs run, what is merged is the commit that was judged and was
\* green where it was read (MergeGate!MergesWhatItJudged).
THEOREM MergedAsJudged == Spec => MergesWhatItJudged
<1> DEFINE M == pr.state = "open" /\ pr'.state = "merged" =>
          LET c == pr.head
              newest == SelectSeq(statuses[c], LAMBDA s : s.by = Core)
          IN /\ (pr.base = "main" /\ ~pr.held /\ pr.author # "other bot") \/ "pr" \in moved[c]
             /\ ~pr.fork
             /\ \A context \in Contexts :
                   \/ LastIs(checks[c][context], "success")
                   \/ context \in moved[c]
             /\ LastIs([i \in 1..Len(newest) |-> newest[i].state], "success")
                \/ "status" \in moved[c]
<1>1. JudgedInv /\ [Next]_vars => M
  <2> SUFFICES ASSUME JudgedInv, [Next]_vars, pr.state = "open", pr'.state = "merged"
               PROVE  M
    OBVIOUS
  <2>1. pr.head \in Commits /\ job[pr.head].at = "merge"
    BY WhoMerges
  <2>2. PrRead(pr.head) /\ ChecksRead(pr.head) /\ StatusesRead(pr.head)
    BY <2>1 DEF JudgedInv, Judged
  <2> QED
    BY <2>2 DEF PrRead, ChecksRead, StatusesRead, JudgeStatuses, RunGreen, Declared
<1>2. JudgedInv /\ [Next]_vars => [M]_vars
  BY <1>1
<1> HIDE DEF M
<1>3. Spec => [][M]_vars
  BY <1>2, JudgedInit, JudgedNext, PTL DEF Spec
<1> QED
  BY <1>3, PTL DEF M, MergesWhatItJudged
=============================================================================
