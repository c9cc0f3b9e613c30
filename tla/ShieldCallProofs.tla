-------------------------- MODULE ShieldCallProofs --------------------------
(***************************************************************************)
(* Proofs about ShieldCall, for any callers, time to live and bounds,      *)
(* about History, the store its calls are recorded in, for any processes,  *)
(* threads, payloads and bounds, and about AuthorityDecision, the reader   *)
(* of the decisions its calls are given, for any objects.                  *)
(*                                                                         *)
(*   TypeCorrect    the types of the calls and of what they share          *)
(*   TellsTruth     the local history says of a call what happened to it   *)
(*   Implements     the calls are gated calls: run after the permit,       *)
(*                  released after the ingest, governed by one decision    *)
(*   RefreshTakes   a refresh that returned reached the module's client    *)
(*   StaleEnds      the memory of the mode does not outlive its time       *)
(*   AnswersStand   what is told of an idempotency key stays true          *)
(*   KeyOnce        the key is kept once until an overtaken caller appends  *)
(*   GenuineRead    both SDKs take what an authority can have composed     *)
(*                                                                         *)
(* The first three come from CallInv, which says of each place of a call   *)
(* what was decided, granted, run and accounted for on the way to it.  The *)
(* next two are about event loops and come from LoopInv: at most one       *)
(* caller is between two awaits, so the clock, the environment and the     *)
(* token stand still from the look at them to the assignment.              *)
(*                                                                         *)
(* The two about History come from HistoryInv: a caller that inserted its  *)
(* row finds it uncommitted or in the file, and what Node remembers is in  *)
(* the file.                                                               *)
(* KeyOnce needs OnceInv besides: whoever has looked at the key, found     *)
(* nothing and was not overtaken since is right, for there is no row.      *)
(*                                                                         *)
(* GenuineRead rests on WinnerIsFirst and NodeWinnerIsFirst, what the two  *)
(* loops over the parts of a decision return at every length.              *)
(***************************************************************************)
EXTENDS ShieldCall, LocalHistory, DecisionReader, Sequences, FiniteSetTheorems, TLAPS

-----------------------------------------------------------------------------
(* What has been decided and done when a call is at a place.                *)

Undecided == {"idle", "look", "probe", "assign", "stamp", "return"}
Beyond    == {"body", "filter", "ingest", "report"}

\* The mode of a call at its place.
PlaceInv(c) ==
    /\ pc[c] \in Undecided => mode[c] = "none"
    /\ pc[c] = "start" => mode[c] = "lite"
    /\ pc[c] \in {"gate", "ingest"} => mode[c] = "full"
    /\ pc[c] \in {"client", "build"} => mode[c] # "lite"
    /\ pc[c] \in Beyond => mode[c] # "none"

\* What detection has found, of a call that is detecting.
FoundInv(c) ==
    /\ pc[c] = "assign" => found[c] # "none"
    /\ pc[c] = "probe" => found[c] = "full"
    /\ pc[c] \in {"client", "build"} /\ mode[c] = "none" => found[c] = "full"
    /\ pc[c] \in {"stamp", "return"} => detected # "none"

\* What the gateway and the function have done for a call at its place.
DoneInv(c) ==
    /\ c \in permitted => mode[c] = "full" /\ pc[c] \in Beyond \cup {"gate", "done"}
    /\ c \in ran => /\ pc[c] \in Beyond \cup {"done"} /\ mode[c] # "none"
                    /\ mode[c] = "full" => c \in permitted
    /\ c \in ledger => /\ pc[c] \in {"report", "done"} /\ mode[c] = "full"
                       /\ c \in ran
    /\ pc[c] \in Beyond => c \in ran
    /\ pc[c] = "report" /\ mode[c] = "full" => c \in ledger

\* How a call ended and what the history holds of it.
EndInv(c) ==
    /\ pc[c] = "done" <=> result[c] # "none"
    /\ result[c] = "content" => /\ c \in ran /\ mode[c] # "none"
                                /\ mode[c] = "full" => c \in ledger
    /\ trail[c] # "none" => pc[c] = "done"
    /\ trail[c] = "allow" => mode[c] = "full" /\ result[c] = "content"
    /\ trail[c] = "lite"  => mode[c] = "lite" /\ result[c] = "content"
    /\ trail[c] \in {"deny", "fail_closed"} => result[c] = "empty"

CallInv ==
    /\ TypeOK
    /\ \A c \in Callers : PlaceInv(c) /\ FoundInv(c) /\ DoneInv(c) /\ EndInv(c)

-----------------------------------------------------------------------------
(* What an event loop adds.                                                 *)

\* At most one caller, or the refresher, is between two awaits.
OneBusy == \A p, q \in Builders : Busy(p) /\ Busy(q) => p = q

TokenInv ==
    /\ newToken <= token /\ refreshed <= token
    /\ \A c \in Callers : pc[c] = "build" => refreshed <= tokenOf[c]
    /\ refresh = "build" => refreshed <= tokenOf[Refresher]
    /\ client # NoClient => refreshed <= tokenOf[client]

MemoryInv ==
    /\ litAt <= clock
    /\ env = "lite" => litAt = clock
    /\ \A c \in Callers :
          /\ began[c] <= clock
          /\ pc[c] = "stamp" => detected = found[c]
          /\ pc[c] \in {"assign", "stamp"} /\ found[c] = "lite" => litAt = clock
          /\ pc[c] = "return" /\ detected = "lite" => clock - litAt < TTL
    /\ detected = "lite" /\ (\A c \in Callers : pc[c] # "stamp") => stamp <= litAt

LoopInv == form # "threads" => OneBusy /\ TokenInv /\ MemoryInv

-----------------------------------------------------------------------------
(* The steps, one by one.                                                   *)

CallStep(c) ==
    \/ TakeMode(c) \/ RefuseSyncFull(c) \/ DetectMode(c) \/ LookAtEnvironment(c) \/ Probe(c)
    \/ Assign(c) \/ Stamp(c) \/ ReturnMode(c) \/ HasClient(c) \/ NewClient(c) \/ KeepClient(c)
    \/ NoClientBuilt(c) \/ Granted(c) \/ Denied(c) \/ StartBody(c) \/ BodyReturns(c) \/ Raises(c)
    \/ Filtered(c) \/ IngestAccepted(c) \/ IngestFails(c) \/ Release(c)

OtherStep == RefreshToken \/ Rotate \/ ChangeEnvironment \/ Tick

LEMMA Steps == Next => OtherStep \/ \E c \in Callers : CallStep(c)
BY Zenon DEF Next, CallStep, OtherStep, Wrapper, AsyncWrapper, NodeWrapped, Gating, Detecting, GetClient,
   ShieldLite, ShieldFull, ShieldFullAsync, ApplyAndAuditLite, GateAndRunFull, Local, Governed

\* What stands still while a call or the surroundings move.
LEMMA OtherFrame == ASSUME OtherStep PROVE UNCHANGED <<setup, detected, stamp, calls>>
BY DEF OtherStep, RefreshToken, ReadToken, RefreshBuilds, RefreshKeeps, RefreshSets, Refreshing, Rotate,
   ChangeEnvironment, Tick, setup

LEMMA TypeInit == Init => TypeOK
<1> SUFFICES ASSUME Init PROVE TypeOK
  OBVIOUS
<1>1. isAsync \in [Callers -> BOOLEAN]
  BY DEF Init
<1>2. tokenOf \in [Builders -> Nat] /\ client \in Builders \cup {NoClient}
  BY DEF Init
<1> QED
  BY <1>1, <1>2 DEF Init, TypeOK, Modes, Places

LEMMA TypeOther == ASSUME TypeOK, OtherStep PROVE TypeOK'
<1> USE ShieldAssumption DEF ShieldAssumption
<1>1. UNCHANGED <<setup, detected, stamp, calls>>
  BY OtherFrame
<1>2. /\ env' \in {"lite", "full", "auto"}
      /\ changes' \in Nat /\ token' \in Nat /\ clock' \in Nat /\ litAt' \in Nat
      /\ newToken' \in Nat /\ refreshed' \in Nat
  BY DEF OtherStep, RefreshToken, ReadToken, RefreshBuilds, RefreshKeeps, RefreshSets, Refreshing, Rotate,
         ChangeEnvironment, Tick, TypeOK
<1>3. /\ client' \in Builders \cup {NoClient}
      /\ tokenOf' \in [Builders -> Nat]
      /\ refresh' \in {"idle", "client", "build"}
  BY DEF OtherStep, RefreshToken, ReadToken, RefreshBuilds, RefreshKeeps, RefreshSets, Refreshing, Rotate,
         ChangeEnvironment, Tick, TypeOK, Builders, SetToken
<1> QED
  BY <1>1, <1>2, <1>3 DEF TypeOK, setup, calls

\* A call that ends.
LEMMA FinishType ==
  ASSUME TypeOK, NEW c \in Callers, NEW from, NEW got \in {"content", "empty", "error"},
         NEW heard \in {"none", "allow", "lite", "deny", "fail_closed"}, Finish(c, from, got, heard)
  PROVE  /\ UNCHANGED setup
         /\ pc' \in [Callers -> Places]
         /\ result' \in [Callers -> {"none", "content", "empty", "error"}]
         /\ trail' \in [Callers -> {"none", "allow", "lite", "deny", "fail_closed"}]
BY DEF Finish, Goto, TypeOK, Places, setup

LEMMA TypeCall == ASSUME TypeOK, NEW c \in Callers, CallStep(c) PROVE TypeOK'
<1>1. CASE TakeMode(c) \/ RefuseSyncFull(c) \/ DetectMode(c)
  <2>1. CASE TakeMode(c)
    BY <2>1 DEF TakeMode, Goto, TypeOK, process, setup, Places, Modes
  <2>2. CASE RefuseSyncFull(c)
    BY <2>2, FinishType DEF RefuseSyncFull, TypeOK, process, setup
  <2>3. CASE DetectMode(c)
    BY <2>3 DEF DetectMode, Goto, TypeOK, process, setup, Places
  <2> QED
    BY <1>1, <2>1, <2>2, <2>3
<1>2. CASE LookAtEnvironment(c) \/ Probe(c) \/ Assign(c) \/ Stamp(c) \/ ReturnMode(c)
  <2>1. CASE LookAtEnvironment(c)
    BY <2>1 DEF LookAtEnvironment, Goto, TypeOK, process, setup, Places, Modes
  <2>2. CASE Probe(c) \/ Assign(c)
    BY <2>2 DEF Probe, Assign, Goto, TypeOK, process, setup, Places
  <2>3. CASE Stamp(c) \/ ReturnMode(c)
    BY <2>3 DEF Stamp, ReturnMode, Goto, TypeOK, process, setup, Places
  <2> QED
    BY <1>2, <2>1, <2>2, <2>3
<1>3. CASE HasClient(c) \/ NewClient(c) \/ KeepClient(c) \/ NoClientBuilt(c)
  <2>1. CASE HasClient(c)
    BY <2>1 DEF HasClient, AfterClient, Goto, TypeOK, process, setup, Places
  <2>2. CASE NewClient(c)
    BY <2>2 DEF NewClient, Goto, TypeOK, setup, Places, Builders
  <2>3. CASE KeepClient(c)
    BY <2>3 DEF KeepClient, AfterClient, Goto, TypeOK, setup, Places, Builders
  <2>4. CASE NoClientBuilt(c)
    BY <2>4, FinishType DEF NoClientBuilt, TypeOK, process, setup
  <2> QED
    BY <1>3, <2>1, <2>2, <2>3, <2>4
<1>4. CASE Granted(c) \/ Denied(c) \/ StartBody(c) \/ BodyReturns(c)
  <2>1. CASE Granted(c)
    BY <2>1 DEF Granted, TypeOK, process, setup
  <2>2. CASE Denied(c)
    BY <2>2, FinishType DEF Denied, TypeOK, process, setup
  <2>3. CASE StartBody(c)
    BY <2>3 DEF StartBody, Goto, TypeOK, process, setup, Places
  <2>4. CASE BodyReturns(c)
    BY <2>4 DEF BodyReturns, Goto, TypeOK, process, setup, Places
  <2> QED
    BY <1>4, <2>1, <2>2, <2>3, <2>4
<1>5. CASE Raises(c) \/ Filtered(c) \/ IngestAccepted(c)
  <2>1. CASE Raises(c)
    BY <2>1, FinishType DEF Raises, TypeOK, process, setup
  <2>2. CASE Filtered(c)
    BY <2>2 DEF Filtered, Goto, TypeOK, process, setup, Places
  <2>3. CASE IngestAccepted(c)
    BY <2>3 DEF IngestAccepted, Goto, TypeOK, process, setup, Places
  <2> QED
    BY <1>5, <2>1, <2>2, <2>3
<1>6. CASE IngestFails(c) \/ Release(c)
  <2>1. CASE IngestFails(c)
    <3>1. ledger' \subseteq Callers
      BY <2>1 DEF IngestFails, TypeOK
    <3> QED
      BY <2>1, <3>1, FinishType DEF IngestFails, TypeOK, process, setup
  <2>2. CASE Release(c)
    BY <2>2, FinishType DEF Release, TypeOK, process, setup
  <2> QED
    BY <1>6, <2>1, <2>2
<1> QED
  BY <1>1, <1>2, <1>3, <1>4, <1>5, <1>6, Zenon DEF CallStep

\* Every variable keeps its type, for any callers and bounds.
THEOREM TypeCorrect == Spec => []TypeOK
<1>1. TypeOK /\ UNCHANGED vars => TypeOK'
  BY DEF TypeOK, vars, setup, process, calls
<1>2. TypeOK /\ [Next]_vars => TypeOK'
  BY <1>1, Steps, TypeOther, TypeCall
<1> QED
  BY TypeInit, <1>2, PTL DEF Spec

-----------------------------------------------------------------------------
(* CallInv is inductive.                                                    *)

\* A step of one call leaves the others where they are; a mode once detected
\* stays detected.
LEMMA OthersKeep ==
  ASSUME CallInv, NEW c \in Callers, CallStep(c), NEW d \in Callers, d # c
  PROVE  /\ pc'[d] = pc[d] /\ mode'[d] = mode[d] /\ found'[d] = found[d]
         /\ result'[d] = result[d] /\ trail'[d] = trail[d]
         /\ d \in permitted' <=> d \in permitted
         /\ d \in ran' <=> d \in ran
         /\ d \in ledger' <=> d \in ledger
         /\ detected # "none" => detected' # "none"
<1> USE DEF CallInv, TypeOK, Goto, process
<1>1. CASE TakeMode(c) \/ RefuseSyncFull(c) \/ DetectMode(c) \/ LookAtEnvironment(c) \/ Probe(c)
  BY <1>1 DEF TakeMode, RefuseSyncFull, DetectMode, LookAtEnvironment, Probe, Finish
<1>2. CASE Assign(c)
  BY <1>2 DEF Assign, FoundInv
<1>3. CASE Stamp(c) \/ ReturnMode(c) \/ HasClient(c) \/ NewClient(c) \/ KeepClient(c) \/ NoClientBuilt(c)
  BY <1>3 DEF Stamp, ReturnMode, HasClient, NewClient, KeepClient, NoClientBuilt, Finish
<1>4. CASE Granted(c) \/ Denied(c) \/ StartBody(c) \/ BodyReturns(c) \/ Raises(c)
  BY <1>4 DEF Granted, Denied, StartBody, BodyReturns, Raises, Finish
<1>5. CASE Filtered(c) \/ IngestAccepted(c) \/ IngestFails(c) \/ Release(c)
  BY <1>5 DEF Filtered, IngestAccepted, IngestFails, Release, Finish
<1> QED
  BY <1>1, <1>2, <1>3, <1>4, <1>5, Zenon DEF CallStep

LEMMA OthersInv ==
  ASSUME CallInv, NEW c \in Callers, CallStep(c), NEW d \in Callers, d # c
  PROVE  (PlaceInv(d) /\ FoundInv(d) /\ DoneInv(d) /\ EndInv(d))'
<1>1. PlaceInv(d) /\ FoundInv(d) /\ DoneInv(d) /\ EndInv(d)
  BY DEF CallInv
<1> QED
  BY <1>1, OthersKeep DEF PlaceInv, FoundInv, DoneInv, EndInv

\* The call that takes the step.
LEMMA OwnPlace == ASSUME CallInv, NEW c \in Callers, CallStep(c) PROVE PlaceInv(c)'
<1> USE DEF CallInv, TypeOK, Goto, process, PlaceInv, Undecided, Beyond
<1>1. CASE TakeMode(c) \/ RefuseSyncFull(c) \/ DetectMode(c)
  BY <1>1 DEF TakeMode, RefuseSyncFull, DetectMode, Finish, Modes
<1>2. CASE LookAtEnvironment(c) \/ Probe(c) \/ Assign(c) \/ Stamp(c)
  BY <1>2 DEF LookAtEnvironment, Probe, Assign, Stamp
<1>3. CASE ReturnMode(c)
  BY <1>3 DEF ReturnMode, FoundInv, Modes
<1>4. CASE HasClient(c) \/ NewClient(c) \/ KeepClient(c) \/ NoClientBuilt(c)
  BY <1>4 DEF HasClient, NewClient, KeepClient, NoClientBuilt, AfterClient, Finish, Modes
<1>5. CASE Granted(c) \/ Denied(c) \/ StartBody(c) \/ BodyReturns(c) \/ Raises(c)
  BY <1>5 DEF Granted, Denied, StartBody, MayRun, BodyReturns, Raises, Finish
<1>6. CASE Filtered(c) \/ IngestAccepted(c) \/ IngestFails(c) \/ Release(c)
  BY <1>6 DEF Filtered, NeedsIngest, IngestAccepted, IngestFails, Release, Finish
<1> QED
  BY <1>1, <1>2, <1>3, <1>4, <1>5, <1>6, Zenon DEF CallStep

LEMMA OwnFound == ASSUME CallInv, NEW c \in Callers, CallStep(c) PROVE FoundInv(c)'
<1> USE DEF CallInv, TypeOK, Goto, process, FoundInv
<1>1. CASE TakeMode(c) \/ RefuseSyncFull(c) \/ DetectMode(c)
  BY <1>1 DEF TakeMode, RefuseSyncFull, DetectMode, Fresh, Finish, Modes
<1>2. CASE LookAtEnvironment(c)
  BY <1>2 DEF LookAtEnvironment, PlaceInv, Undecided
<1>3. CASE Probe(c) \/ Assign(c) \/ Stamp(c)
  BY <1>3 DEF Probe, Assign, Stamp
<1>4. CASE ReturnMode(c)
  BY <1>4 DEF ReturnMode
<1>5. CASE HasClient(c) \/ NewClient(c) \/ KeepClient(c) \/ NoClientBuilt(c)
  BY <1>5 DEF HasClient, NewClient, KeepClient, NoClientBuilt, AfterClient, Finish
<1>6. CASE Granted(c) \/ Denied(c) \/ StartBody(c) \/ BodyReturns(c) \/ Raises(c)
  BY <1>6 DEF Granted, Denied, StartBody, MayRun, BodyReturns, Raises, Finish
<1>7. CASE Filtered(c) \/ IngestAccepted(c) \/ IngestFails(c) \/ Release(c)
  BY <1>7 DEF Filtered, IngestAccepted, IngestFails, Release, Finish
<1> QED
  BY <1>1, <1>2, <1>3, <1>4, <1>5, <1>6, <1>7, Zenon DEF CallStep

LEMMA OwnDone == ASSUME CallInv, NEW c \in Callers, CallStep(c) PROVE DoneInv(c)'
<1> USE DEF CallInv, TypeOK, Goto, process, DoneInv, PlaceInv, Undecided, Beyond
<1>1. CASE TakeMode(c) \/ RefuseSyncFull(c) \/ DetectMode(c)
  BY <1>1 DEF TakeMode, RefuseSyncFull, DetectMode, Finish
<1>2. CASE LookAtEnvironment(c) \/ Probe(c) \/ Assign(c) \/ Stamp(c) \/ ReturnMode(c)
  BY <1>2 DEF LookAtEnvironment, Probe, Assign, Stamp, ReturnMode
<1>3. CASE HasClient(c) \/ NewClient(c) \/ KeepClient(c) \/ NoClientBuilt(c)
  BY <1>3 DEF HasClient, NewClient, KeepClient, NoClientBuilt, AfterClient, Finish
<1>4. CASE Granted(c) \/ Denied(c)
  BY <1>4 DEF Granted, Denied, Finish
<1>5. CASE StartBody(c)
  BY <1>5 DEF StartBody, MayRun
<1>6. CASE BodyReturns(c) \/ Raises(c)
  BY <1>6 DEF BodyReturns, Raises, Finish
<1>7. CASE Filtered(c) \/ IngestAccepted(c)
  BY <1>7 DEF Filtered, NeedsIngest, IngestAccepted
<1>8. CASE IngestFails(c) \/ Release(c)
  BY <1>8 DEF IngestFails, Release, Finish
<1> QED
  BY <1>1, <1>2, <1>3, <1>4, <1>5, <1>6, <1>7, <1>8, Zenon DEF CallStep

LEMMA OwnEnd == ASSUME CallInv, NEW c \in Callers, CallStep(c) PROVE EndInv(c)'
<1> USE DEF CallInv, TypeOK, Goto, process, EndInv
<1>1. CASE TakeMode(c) \/ RefuseSyncFull(c) \/ DetectMode(c)
  BY <1>1 DEF TakeMode, RefuseSyncFull, DetectMode, Finish
<1>2. CASE LookAtEnvironment(c) \/ Probe(c) \/ Assign(c) \/ Stamp(c) \/ ReturnMode(c)
  BY <1>2 DEF LookAtEnvironment, Probe, Assign, Stamp, ReturnMode
<1>3. CASE HasClient(c) \/ NewClient(c) \/ KeepClient(c) \/ NoClientBuilt(c)
  BY <1>3 DEF HasClient, NewClient, KeepClient, NoClientBuilt, AfterClient, Finish
<1>4. CASE Granted(c) \/ Denied(c) \/ StartBody(c) \/ BodyReturns(c) \/ Raises(c)
  BY <1>4 DEF Granted, Denied, StartBody, MayRun, BodyReturns, Raises, Finish
<1>5. CASE Filtered(c) \/ IngestAccepted(c) \/ IngestFails(c)
  BY <1>5 DEF Filtered, IngestAccepted, IngestFails, Finish
<1>6. CASE Release(c)
  BY <1>6 DEF Release, Finish, DoneInv, PlaceInv, Beyond, Modes
<1> QED
  BY <1>1, <1>2, <1>3, <1>4, <1>5, <1>6, Zenon DEF CallStep

LEMMA CallInit == Init => CallInv
<1> SUFFICES ASSUME Init PROVE CallInv
  OBVIOUS
<1>1. \A c \in Callers : PlaceInv(c) /\ FoundInv(c) /\ DoneInv(c) /\ EndInv(c)
  BY DEF Init, PlaceInv, FoundInv, DoneInv, EndInv, Undecided, Beyond
<1> QED
  BY <1>1, TypeInit DEF CallInv

LEMMA CallNext == CallInv /\ [Next]_vars => CallInv'
<1> SUFFICES ASSUME CallInv, [Next]_vars PROVE CallInv'
  OBVIOUS
<1>1. ASSUME NEW c \in Callers, CallStep(c) PROVE CallInv'
  <2>1. TypeOK'
    BY <1>1, TypeCall DEF CallInv
  <2>2. ASSUME NEW d \in Callers PROVE (PlaceInv(d) /\ FoundInv(d) /\ DoneInv(d) /\ EndInv(d))'
    <3>1. CASE d = c
      BY <1>1, <3>1, OwnPlace, OwnFound, OwnDone, OwnEnd
    <3>2. CASE d # c
      BY <1>1, <3>2, OthersInv
    <3> QED
      BY <3>1, <3>2
  <2> QED
    BY <2>1, <2>2 DEF CallInv
<1>2. ASSUME UNCHANGED <<detected, calls>>, TypeOK' PROVE CallInv'
  <2>1. \A d \in Callers : PlaceInv(d) /\ FoundInv(d) /\ DoneInv(d) /\ EndInv(d)
    BY DEF CallInv
  <2>2. \A d \in Callers : (PlaceInv(d) /\ FoundInv(d) /\ DoneInv(d) /\ EndInv(d))'
    BY <1>2, <2>1 DEF PlaceInv, FoundInv, DoneInv, EndInv, calls
  <2> QED
    BY <1>2, <2>2 DEF CallInv
<1>3. CASE OtherStep
  BY <1>2, <1>3, OtherFrame, TypeOther DEF CallInv
<1>4. CASE UNCHANGED vars
  <2>1. TypeOK'
    BY <1>4 DEF CallInv, TypeOK, vars, setup, process, calls
  <2> QED
    BY <1>2, <1>4, <2>1 DEF vars, process
<1> QED
  BY <1>1, <1>3, <1>4, Steps

LEMMA CallAlways == Spec => []CallInv
BY CallInit, CallNext, PTL DEF Spec

\* What the local history says of a call is what happened: an allowed access
\* was granted, accounted for and released, a denied or failed one released
\* nothing (record_if_enabled and emitAudit, for any number of calls).
THEOREM TellsTruth == Spec => []HistoryTellsTruth
<1>1. CallInv => HistoryTellsTruth
  BY DEF CallInv, DoneInv, EndInv, HistoryTellsTruth
<1> QED
  BY <1>1, CallAlways, PTL

-----------------------------------------------------------------------------
(* The calls implement GatedCall.                                           *)


LEMMA GatedInit == Init => Gated!Init
BY DEF Init, Gated!Init, Governance, Progress

\* A step of a call moves no other call.
LEMMA OthersStay ==
  ASSUME CallInv, NEW c \in Callers, CallStep(c), NEW d \in Callers, d # c
  PROVE  Governance'[d] = Governance[d] /\ Progress'[d] = Progress[d]
BY OthersKeep DEF Governance, Progress

\* The shape of the two functions, and of their updates.
LEMMA Shapes ==
  /\ Governance = [d \in Callers |-> Governance[d]] /\ Governance' = [d \in Callers |-> Governance'[d]]
  /\ Progress = [d \in Callers |-> Progress[d]] /\ Progress' = [d \in Callers |-> Progress'[d]]
BY DEF Governance, Progress

LEMMA Moves ==
  ASSUME CallInv, NEW c \in Callers, CallStep(c), Governance'[c] = Governance[c]
  PROVE  Gated!Move(c, Progress[c], Progress'[c])
<1>1. Governance' = Governance
  BY OthersStay, Shapes
<1>2. Progress' = [Progress EXCEPT ![c] = Progress'[c]]
  BY OthersStay, Shapes
<1> QED
  BY <1>1, <1>2 DEF Gated!Move

LEMMA Stays ==
  ASSUME CallInv, NEW c \in Callers, CallStep(c),
         Governance'[c] = Governance[c], Progress'[c] = Progress[c]
  PROVE  UNCHANGED <<Governance, Progress>>
BY OthersStay, Shapes

\* What a call's own variables say of its two abstract ones.
LEMMA Reads ==
  ASSUME NEW c \in Callers
  PROVE  /\ Governance[c] = IF mode[c] = "lite" THEN "local"
                            ELSE IF mode[c] = "full" THEN "gateway" ELSE "open"
         /\ Progress[c] = IF result[c] = "content"  THEN "released"
                          ELSE IF result[c] # "none" THEN "withheld"
                          ELSE IF c \in ledger      THEN "accounted"
                          ELSE IF c \in ran         THEN "ran"
                          ELSE IF c \in permitted   THEN "permitted" ELSE "asked"
         /\ Governance'[c] = IF mode'[c] = "lite" THEN "local"
                             ELSE IF mode'[c] = "full" THEN "gateway" ELSE "open"
         /\ Progress'[c] = IF result'[c] = "content"  THEN "released"
                           ELSE IF result'[c] # "none" THEN "withheld"
                           ELSE IF c \in ledger'      THEN "accounted"
                           ELSE IF c \in ran'         THEN "ran"
                           ELSE IF c \in permitted'   THEN "permitted" ELSE "asked"
BY DEF Governance, Progress

\* A call that ends otherwise than with its content is withheld.
LEMMA Withholds ==
  ASSUME CallInv, NEW c \in Callers, CallStep(c),
         pc[c] # "done", mode'[c] = mode[c], result'[c] \in {"empty", "error"}
  PROVE  Gated!Withhold(c)
<1>1. Progress[c] # "released"
  BY Reads DEF CallInv, EndInv
<1>2. Progress'[c] = "withheld"
  BY Reads
<1>3. Governance'[c] = Governance[c]
  BY Reads
<1> QED
  BY <1>1, <1>2, <1>3, Moves DEF Gated!Withhold

LEMMA Decides ==
  ASSUME CallInv, NEW c \in Callers, TakeMode(c) \/ ReturnMode(c)
  PROVE  Gated!Decide(c)
<1> USE DEF CallInv, TypeOK, PlaceInv, FoundInv, DoneInv, EndInv, Undecided, Beyond, Goto
<1>1. Governance[c] = "open" /\ Progress[c] = "asked" /\ Progress'[c] = "asked"
  BY Reads DEF TakeMode, ReturnMode
<1>2. mode'[c] \in {"lite", "full"}
  BY DEF TakeMode, ReturnMode, Modes
<1>3. PICK g \in {"local", "gateway"} : Governance'[c] = g
  BY <1>2, Reads
<1>4. Governance' = [Governance EXCEPT ![c] = g]
  BY <1>3, OthersStay, Shapes DEF CallStep
<1>5. Progress' = Progress
  BY <1>1, OthersStay, Shapes DEF CallStep
<1> QED
  BY <1>1, <1>4, <1>5 DEF Gated!Decide

\* Each step of a call is a step of the gated call, or none.
LEMMA CallImplements ==
  ASSUME CallInv, NEW c \in Callers, CallStep(c)
  PROVE  Gated!Next \/ UNCHANGED <<Governance, Progress>>
<1> USE DEF CallInv, TypeOK, PlaceInv, FoundInv, DoneInv, EndInv, Undecided, Beyond, Goto
<1>1. CASE TakeMode(c) \/ ReturnMode(c)
  BY <1>1, Decides DEF Gated!Next
<1>2. CASE RefuseSyncFull(c) \/ NoClientBuilt(c) \/ Denied(c) \/ Raises(c) \/ IngestFails(c)
  <2>1. pc[c] # "done" /\ mode'[c] = mode[c] /\ result'[c] \in {"empty", "error"}
    BY <1>2 DEF RefuseSyncFull, NoClientBuilt, Denied, Raises, IngestFails, Finish
  <2> QED
    BY <2>1, Withholds DEF Gated!Next
<1>3. CASE DetectMode(c) \/ LookAtEnvironment(c) \/ Probe(c) \/ Assign(c) \/ Stamp(c)
  BY <1>3, Stays, Reads DEF DetectMode, LookAtEnvironment, Probe, Assign, Stamp
<1>4. CASE HasClient(c) \/ NewClient(c) \/ KeepClient(c) \/ BodyReturns(c) \/ Filtered(c)
  BY <1>4, Stays, Reads DEF HasClient, NewClient, KeepClient, BodyReturns, Filtered
<1>5. CASE Granted(c)
  <2>1. /\ Governance[c] = "gateway" /\ Governance'[c] = Governance[c]
        /\ Progress[c] = "asked" /\ Progress'[c] = "permitted"
    BY <1>5, Reads DEF Granted
  <2> QED
    BY <2>1, Moves DEF Gated!Permit, Gated!Next
<1>6. CASE StartBody(c)
  <2>1. /\ Governance[c] # "open" /\ Governance'[c] = Governance[c]
        /\ Progress[c] = (IF Governance[c] = "gateway" THEN "permitted" ELSE "asked")
        /\ Progress'[c] = "ran"
    BY <1>6, Reads DEF StartBody, MayRun
  <2> QED
    BY <2>1, Moves DEF Gated!Run, Gated!Next
<1>7. CASE IngestAccepted(c)
  <2>1. /\ Governance[c] = "gateway" /\ Governance'[c] = Governance[c]
        /\ Progress[c] = "ran" /\ Progress'[c] = "accounted"
    BY <1>7, Reads DEF IngestAccepted
  <2> QED
    BY <2>1, Moves DEF Gated!Account, Gated!Next
<1>8. CASE Release(c)
  <2>1. /\ Governance'[c] = Governance[c]
        /\ Progress[c] = (IF Governance[c] = "gateway" THEN "accounted" ELSE "ran")
        /\ Progress'[c] = "released"
    BY <1>8, Reads DEF Release, Finish, Modes
  <2> QED
    BY <2>1, Moves DEF Gated!Release, Gated!Next
<1> QED
  BY <1>1, <1>2, <1>3, <1>4, <1>5, <1>6, <1>7, <1>8, Zenon DEF CallStep

\* The gated call that the code implements: run after the permit, released
\* after the ingest, and governed by one decision however the detected mode
\* changes while the function runs (shield's wrappers, gateAndRunFull).
THEOREM Implements == Spec => ImplementsGatedCall
<1>1. CallInv /\ [Next]_vars => [Gated!Next]_<<Governance, Progress>>
  <2> SUFFICES ASSUME CallInv, [Next]_vars
               PROVE  Gated!Next \/ UNCHANGED <<Governance, Progress>>
    OBVIOUS
  <2>1. ASSUME UNCHANGED calls PROVE UNCHANGED <<Governance, Progress>>
    BY <2>1 DEF calls, Governance, Progress
  <2>2. CASE UNCHANGED vars
    BY <2>1, <2>2 DEF vars
  <2>3. CASE OtherStep
    BY <2>1, <2>3, OtherFrame
  <2> QED
    BY <2>2, <2>3, Steps, CallImplements
<1> QED
  BY <1>1, GatedInit, CallAlways, PTL DEF Spec, ImplementsGatedCall, Gated!Spec

-----------------------------------------------------------------------------
(* On an event loop.                                                        *)

\* A step is taken by one that nobody stands in the way of, or changes no place.
LEMMA StepsAlone ==
  ASSUME NEW c \in Callers, CallStep(c)
  PROVE  Free(c) \/ UNCHANGED <<pc, process>>
BY DEF CallStep, TakeMode, RefuseSyncFull, DetectMode, LookAtEnvironment, Probe, Assign, Stamp, ReturnMode,
   HasClient, NewClient, KeepClient, NoClientBuilt, Granted, Denied, StartBody, BodyReturns, Raises,
   Filtered, IngestAccepted, IngestFails, Release, Finish, Goto

\* What a call leaves alone, whichever step it takes.
LEMMA CallFrame ==
  ASSUME NEW c \in Callers, CallStep(c)
  PROVE  UNCHANGED <<setup, env, changes, token, clock, litAt, refresh, newToken, refreshed>>
<1> USE DEF Goto, process, Finish
<1>1. CASE TakeMode(c) \/ RefuseSyncFull(c) \/ DetectMode(c) \/ LookAtEnvironment(c) \/ Probe(c)
  BY <1>1 DEF TakeMode, RefuseSyncFull, DetectMode, LookAtEnvironment, Probe
<1>2. CASE Assign(c) \/ Stamp(c) \/ ReturnMode(c) \/ HasClient(c)
  BY <1>2 DEF Assign, Stamp, ReturnMode, HasClient
<1>3. CASE NewClient(c) \/ KeepClient(c) \/ NoClientBuilt(c)
  BY <1>3 DEF NewClient, KeepClient, NoClientBuilt
<1>4. CASE Granted(c) \/ Denied(c) \/ StartBody(c) \/ BodyReturns(c) \/ Raises(c)
  BY <1>4 DEF Granted, Denied, StartBody, BodyReturns, Raises
<1>5. CASE Filtered(c) \/ IngestAccepted(c) \/ IngestFails(c) \/ Release(c)
  BY <1>5 DEF Filtered, IngestAccepted, IngestFails, Release
<1> QED
  BY <1>1, <1>2, <1>3, <1>4, <1>5, Zenon DEF CallStep

LEMMA LoopInit == Init => LoopInv
<1> SUFFICES ASSUME Init PROVE LoopInv
  OBVIOUS
<1>1. OneBusy
  BY DEF Init, OneBusy, Busy, Awaits, Builders
<1>2. TokenInv
  BY DEF Init, TokenInv
<1>3. MemoryInv
  BY DEF Init, MemoryInv
<1> QED
  BY <1>1, <1>2, <1>3 DEF LoopInv

LEMMA CallBusy ==
  ASSUME CallInv, OneBusy, NEW c \in Callers, CallStep(c)
  PROVE  OneBusy'
<1>1. \A d \in Callers \ {c} : pc'[d] = pc[d]
  BY OthersKeep
<1>2. form' = form /\ refresh' = refresh
  BY CallFrame DEF setup
<1>3. CASE Free(c)
  <2>1. \A q \in Builders \ {c} : ~Busy(q)'
    BY <1>1, <1>2, <1>3, ShieldAssumption DEF Free, Busy, Awaits, Builders
  <2> QED
    BY <2>1 DEF OneBusy
<1>4. CASE UNCHANGED <<pc, process>>
  BY <1>2, <1>4 DEF OneBusy, Busy, Awaits
<1> QED
  BY <1>3, <1>4, StepsAlone

LEMMA OtherBusy == ASSUME OneBusy, OtherStep PROVE OneBusy'
<1>1. pc' = pc /\ form' = form
  BY OtherFrame DEF setup, calls
<1>2. CASE RefreshToken
  <2>1. Free(Refresher)
    BY <1>2 DEF RefreshToken, ReadToken, RefreshBuilds, RefreshKeeps, RefreshSets, Refreshing
  <2>2. \A q \in Builders \ {Refresher} : ~Busy(q)'
    BY <1>1, <2>1 DEF Free, Busy, Awaits
  <2> QED
    BY <2>2 DEF OneBusy
<1>3. CASE Rotate \/ ChangeEnvironment \/ Tick
  <2>1. refresh' = refresh
    BY <1>3 DEF Rotate, ChangeEnvironment, Tick
  <2> QED
    BY <1>1, <2>1 DEF OneBusy, Busy, Awaits
<1> QED
  BY <1>2, <1>3 DEF OtherStep

\* While a call is about to keep its client or its mode, only it can move.
LEMMA OnlyOne ==
  ASSUME form # "threads", NEW c \in Callers, NEW p \in Builders, p # c, Free(p)
  PROVE  pc[c] \notin {"look", "assign", "stamp", "return", "build"}
BY ShieldAssumption DEF ShieldAssumption, Free, Busy, Awaits, Builders

LEMMA NobodyThere ==
  ASSUME form # "threads", NobodyBusy, NEW c \in Callers
  PROVE  pc[c] \notin {"look", "assign", "stamp", "return", "build"}
BY ShieldAssumption DEF ShieldAssumption, NobodyBusy, Busy, Awaits, Builders

LEMMA CallTokens ==
  ASSUME CallInv, TokenInv, NEW c \in Callers, CallStep(c)
  PROVE  TokenInv'
<1> USE ShieldAssumption DEF ShieldAssumption, CallInv, TypeOK, TokenInv
<1>1. UNCHANGED <<token, refresh, newToken, refreshed>>
  BY CallFrame
<1>2. \A d \in Callers \ {c} : pc'[d] = pc[d]
  BY OthersKeep
<1>3. CASE NewClient(c)
  <2>1. tokenOf' = [tokenOf EXCEPT ![c] = token] /\ client' = client /\ client = NoClient
    BY <1>3 DEF NewClient
  <2> QED
    BY <1>1, <1>2, <2>1 DEF Builders
<1>4. CASE KeepClient(c)
  <2>1. tokenOf' = tokenOf /\ client' = c /\ pc[c] = "build" /\ pc'[c] # "build"
    BY <1>4 DEF KeepClient, Goto, AfterClient
  <2> QED
    BY <1>1, <1>2, <2>1
<1>5. ASSUME UNCHANGED <<tokenOf, client>>, pc'[c] = "build" => pc[c] = "build" PROVE TokenInv'
  BY <1>1, <1>2, <1>5
<1>6. CASE TakeMode(c) \/ RefuseSyncFull(c) \/ DetectMode(c) \/ LookAtEnvironment(c) \/ Probe(c)
  BY <1>5, <1>6 DEF TakeMode, RefuseSyncFull, DetectMode, LookAtEnvironment, Probe, Goto, Finish, process
<1>7. CASE Assign(c) \/ Stamp(c) \/ ReturnMode(c) \/ HasClient(c) \/ NoClientBuilt(c)
  BY <1>5, <1>7 DEF Assign, Stamp, ReturnMode, HasClient, AfterClient, NoClientBuilt, Goto, Finish, process
<1>8. CASE Granted(c) \/ Denied(c) \/ StartBody(c) \/ BodyReturns(c) \/ Raises(c)
  BY <1>5, <1>8 DEF Granted, Denied, StartBody, BodyReturns, Raises, Goto, Finish, process
<1>9. CASE Filtered(c) \/ IngestAccepted(c) \/ IngestFails(c) \/ Release(c)
  BY <1>5, <1>9 DEF Filtered, IngestAccepted, IngestFails, Release, Goto, Finish, process
<1> QED
  BY <1>3, <1>4, <1>6, <1>7, <1>8, <1>9, Zenon DEF CallStep

LEMMA OtherTokens ==
  ASSUME TypeOK, form # "threads", TokenInv, OtherStep
  PROVE  TokenInv'
<1> USE ShieldAssumption DEF ShieldAssumption, TypeOK, TokenInv
<1>1. pc' = pc
  BY OtherFrame DEF calls
<1>2. CASE ReadToken
  BY <1>1, <1>2 DEF ReadToken, Refreshing
<1>3. CASE RefreshBuilds
  BY <1>1, <1>3 DEF RefreshBuilds, Refreshing, Builders
<1>4. CASE RefreshKeeps
  BY <1>1, <1>4 DEF RefreshKeeps, Refreshing
<1>5. CASE RefreshSets
  <2>1. Free(Refresher) /\ client # NoClient /\ refresh' = "idle"
    BY <1>5 DEF RefreshSets, Refreshing
  <2>2. \A c \in Callers : pc[c] # "build"
    BY <2>1, OnlyOne DEF Builders
  <2>3. /\ tokenOf' = [tokenOf EXCEPT ![client] = newToken] /\ refreshed' = newToken
        /\ UNCHANGED <<client, newToken, token>>
    BY <1>5 DEF RefreshSets, SetToken, Refreshing
  <2> QED
    BY <1>1, <2>1, <2>2, <2>3
<1>6. CASE Rotate \/ ChangeEnvironment \/ Tick
  BY <1>1, <1>6 DEF Rotate, ChangeEnvironment, Tick
<1> QED
  BY <1>2, <1>3, <1>4, <1>5, <1>6 DEF OtherStep, RefreshToken

LEMMA CallMemory ==
  ASSUME CallInv, form # "threads", MemoryInv, NEW c \in Callers, CallStep(c)
  PROVE  MemoryInv'
<1> USE ShieldAssumption DEF ShieldAssumption, CallInv, TypeOK
<1>1. UNCHANGED <<env, clock, litAt>>
  BY CallFrame
<1>2. ASSUME NEW d \in Callers \ {c}
      PROVE  pc'[d] = pc[d] /\ found'[d] = found[d]
  BY <1>2, OthersKeep
<1>3. ASSUME NEW d \in Callers \ {c}, Free(c)
      PROVE  pc[d] \notin {"assign", "stamp", "return"}
  BY <1>3, OnlyOne DEF Builders
<1>4. CASE DetectMode(c)
  <2>1. /\ pc[c] = "idle" /\ Free(c)
        /\ pc' = [pc EXCEPT ![c] = IF Fresh(clock) THEN "return" ELSE "look"]
        /\ began' = [began EXCEPT ![c] = clock] /\ UNCHANGED <<detected, stamp, found>>
    BY <1>4 DEF DetectMode, Goto, process
  <2>2. \A d \in Callers : pc[d] # "stamp"
    BY <1>3, <2>1
  <2>3. Fresh(clock) /\ detected = "lite" => clock - litAt < TTL
    BY <2>2 DEF Fresh, MemoryInv
  <2> QED
    BY <1>1, <1>2, <2>1, <2>2, <2>3 DEF MemoryInv
<1>5. CASE LookAtEnvironment(c)
  <2>1. /\ pc[c] = "look"
        /\ pc' = [pc EXCEPT ![c] = IF env = "auto" THEN "client" ELSE "assign"]
        /\ found' = [found EXCEPT ![c] = IF env = "lite" THEN "lite" ELSE "full"]
        /\ UNCHANGED <<detected, stamp, began>>
    BY <1>5 DEF LookAtEnvironment, Goto, process
  <2> QED
    BY <1>1, <1>2, <2>1 DEF MemoryInv
<1>6. CASE Probe(c)
  <2>1. /\ pc[c] = "probe" /\ found[c] = "full" /\ pc' = [pc EXCEPT ![c] = "assign"]
        /\ UNCHANGED <<detected, stamp, began, found>>
    BY <1>6 DEF Probe, Goto, process, FoundInv
  <2> QED
    BY <1>1, <1>2, <2>1 DEF MemoryInv
<1>7. CASE Assign(c)
  <2>1. /\ pc[c] = "assign" /\ Free(c) /\ pc' = [pc EXCEPT ![c] = "stamp"]
        /\ detected' = found[c] /\ UNCHANGED <<stamp, began, found>>
    BY <1>7 DEF Assign, Goto
  <2> QED
    BY <1>1, <1>2, <1>3, <2>1 DEF MemoryInv
<1>8. CASE Stamp(c)
  <2>1. /\ pc[c] = "stamp" /\ Free(c) /\ pc' = [pc EXCEPT ![c] = "return"]
        /\ stamp' = began[c] /\ UNCHANGED <<detected, began, found>>
    BY <1>8 DEF Stamp, Goto
  <2>2. detected = "lite" => litAt = clock /\ began[c] <= litAt
    BY <2>1 DEF MemoryInv
  <2> QED
    BY <1>1, <1>2, <1>3, <2>1, <2>2 DEF MemoryInv
<1>9. ASSUME UNCHANGED <<detected, stamp, began, found>>, pc[c] # "stamp",
             pc'[c] \notin {"assign", "stamp", "return"} \/ pc'[c] = pc[c]
      PROVE  MemoryInv'
  BY <1>1, <1>2, <1>9 DEF MemoryInv
<1>10. CASE TakeMode(c) \/ RefuseSyncFull(c) \/ ReturnMode(c) \/ HasClient(c) \/ NoClientBuilt(c)
  BY <1>9, <1>10 DEF TakeMode, RefuseSyncFull, ReturnMode, HasClient, AfterClient, NoClientBuilt, Goto, Finish, process
<1>11. CASE NewClient(c) \/ KeepClient(c)
  BY <1>9, <1>11 DEF NewClient, KeepClient, AfterClient, Goto
<1>12. CASE Granted(c) \/ Denied(c) \/ StartBody(c) \/ BodyReturns(c) \/ Raises(c)
  BY <1>9, <1>12 DEF Granted, Denied, StartBody, MayRun, BodyReturns, Raises, Goto, Finish, process
<1>13. CASE Filtered(c) \/ IngestAccepted(c) \/ IngestFails(c) \/ Release(c)
  BY <1>9, <1>13 DEF Filtered, IngestAccepted, IngestFails, Release, Goto, Finish, process
<1> QED
  BY <1>4, <1>5, <1>6, <1>7, <1>8, <1>10, <1>11, <1>12, <1>13, Zenon DEF CallStep

LEMMA OtherMemory ==
  ASSUME TypeOK, form # "threads", MemoryInv, OtherStep
  PROVE  MemoryInv'
<1> USE ShieldAssumption DEF ShieldAssumption, TypeOK
<1>1. UNCHANGED <<detected, stamp, pc, began, found>>
  BY OtherFrame DEF calls
<1>2. CASE RefreshToken \/ Rotate
  <2>1. UNCHANGED <<env, clock, litAt>>
    BY <1>2 DEF RefreshToken, ReadToken, RefreshBuilds, RefreshKeeps, RefreshSets, Refreshing, Rotate
  <2> QED
    BY <1>1, <2>1 DEF MemoryInv
<1>3. CASE ChangeEnvironment \/ Tick
  <2>1. \A c \in Callers : pc[c] \notin {"assign", "stamp", "return"}
    BY <1>3, NobodyThere DEF ChangeEnvironment, Tick
  <2>2. /\ litAt' \in Nat /\ clock' \in Nat /\ litAt <= litAt' /\ litAt' <= clock' /\ clock <= clock'
        /\ env' = "lite" => litAt' = clock'
    BY <1>3 DEF ChangeEnvironment, Tick, MemoryInv
  <2>3. \A c \in Callers : began'[c] <= clock'
    BY <1>1, <2>2 DEF MemoryInv
  <2>4. detected' = "lite" => stamp' <= litAt'
    BY <1>1, <2>1, <2>2 DEF MemoryInv
  <2> QED
    BY <1>1, <2>1, <2>2, <2>3, <2>4 DEF MemoryInv
<1> QED
  BY <1>2, <1>3 DEF OtherStep

LEMMA LoopNext == CallInv /\ LoopInv /\ [Next]_vars => LoopInv'
<1> SUFFICES ASSUME CallInv, LoopInv, [Next]_vars, form' # "threads"
             PROVE  OneBusy' /\ TokenInv' /\ MemoryInv'
  BY DEF LoopInv
<1>1. form' = form
  BY Steps, CallFrame, OtherFrame DEF setup, vars
<1>2. OneBusy /\ TokenInv /\ MemoryInv /\ form # "threads"
  BY <1>1 DEF LoopInv
<1>3. ASSUME NEW c \in Callers, CallStep(c) PROVE OneBusy' /\ TokenInv' /\ MemoryInv'
  BY <1>2, <1>3, CallBusy, CallTokens, CallMemory
<1>4. CASE OtherStep
  BY <1>2, <1>4, OtherBusy, OtherTokens, OtherMemory DEF CallInv
<1>5. CASE UNCHANGED vars
  <2>1. OneBusy'
    BY <1>2, <1>5 DEF OneBusy, Busy, Awaits, vars, setup, process, calls
  <2>2. TokenInv' /\ MemoryInv'
    BY <1>2, <1>5 DEF TokenInv, MemoryInv, vars, setup, process, calls
  <2> QED
    BY <2>1, <2>2
<1> QED
  BY <1>3, <1>4, <1>5, Steps

LEMMA LoopAlways == Spec => [](CallInv /\ LoopInv)
<1>1. CallInv /\ LoopInv /\ [Next]_vars => (CallInv /\ LoopInv)'
  BY CallNext, LoopNext
<1> QED
  BY CallInit, LoopInit, <1>1, PTL DEF Spec

\* Once refresh_token returned, the module's client carries the token it read
\* or a newer one, on an event loop, whatever the calls in flight are building.
THEOREM RefreshTakes == Spec => []RefreshReachesClient
<1>1. CallInv /\ LoopInv => RefreshReachesClient
  BY DEF LoopInv, TokenInv, RefreshReachesClient
<1> QED
  BY <1>1, LoopAlways, PTL

\* A call on one event loop is left local by AUTO only when the environment
\* asked for no gateway less than a time to live ago, whoever renews the
\* memory of the mode (_DETECT_MODE_TTL_S).
THEOREM StaleEnds == Spec => StaleModeEnds
<1> DEFINE A == form # "threads" =>
                  \A c \in Callers : mode[c] = "none" /\ mode'[c] = "lite" /\ wants[c] = "auto"
                                     /\ pc[c] = "return" => clock - litAt < TTL
<1>1. CallInv /\ LoopInv /\ [Next]_vars => [A]_vars
  <2> SUFFICES ASSUME CallInv, LoopInv, Next, form # "threads",
                      NEW c \in Callers, mode[c] = "none", mode'[c] = "lite", pc[c] = "return"
               PROVE  clock - litAt < TTL
    OBVIOUS
  <2>1. ~OtherStep
    BY OtherFrame DEF calls
  <2>2. CallStep(c)
    BY <2>1, Steps, OthersKeep
  <2>3. ReturnMode(c)
    BY <2>2 DEF CallStep, TakeMode, RefuseSyncFull, DetectMode, LookAtEnvironment, Probe, Assign, Stamp,
                HasClient, NewClient, KeepClient, NoClientBuilt, Granted, Denied, StartBody, MayRun, BodyReturns,
                Raises, Filtered, IngestAccepted, IngestFails, Release, Finish, Goto
  <2>4. detected = "lite"
    BY <2>3 DEF ReturnMode, CallInv, TypeOK
  <2> QED
    BY <2>4 DEF LoopInv, MemoryInv
<1> QED
  BY <1>1, LoopAlways, PTL DEF Spec, StaleModeEnds

-----------------------------------------------------------------------------
(* The local history that the calls are written to.                        *)

Contents == Payloads \cup {"plain"}
HistoryRows == [keyed : BOOLEAN, payload : Contents \cup {"torn"}, ended : BOOLEAN]
Answers == [answer : {"wrote", "kept", "divergent", "error"}, payload : Contents, pending : BOOLEAN]
HistoryTypes ==
    /\ node \in BOOLEAN
    /\ file \in Seq(HistoryRows)
    /\ txn  \in [H!Procs -> Int]
    /\ open \in [H!Procs -> Seq(HistoryRows)]
    /\ seen \in [H!Procs -> Contents \cup {"torn", "none", "unseeded"}]
    /\ at   \in [Recorders -> {"idle", "missed", "inserted"}]
    /\ payload \in [Recorders -> Contents \cup {"none"}]
    /\ told \in SUBSET Answers

\* A snapshot is a part of the file.
Snapshots == \A p \in H!Procs : txn[p] <= Len(file)
\* A caller that inserted its row finds it uncommitted or, committed by
\* another thread of its process, in the file.
Inserted ==
    \A c \in Recorders :
        /\ at[c] # "idle" => payload[c] \in Contents /\ ~node
        /\ c \in Keyed /\ at[c] = "inserted" =>
              \/ \E i \in 1..Len(file) : file[i].keyed /\ file[i].payload = payload[c]
              \/ \E i \in 1..Len(open[Proc(c)]) :
                     open[Proc(c)][i].keyed /\ open[Proc(c)][i].payload = payload[c]
\* What Node remembers of the key is in the file.
Remembered ==
    \A p \in H!Procs : seen[p] \notin {"none", "unseeded"} =>
        \E i \in 1..Len(file) : file[i].keyed /\ file[i].payload = seen[p]

HistoryInv == HistoryTypes /\ Snapshots /\ Inserted /\ Remembered

LEMMA ProcOf == \A c \in Recorders : Proc(c) \in H!Procs
BY DEF H!Procs

\* What Answer adds to the answers is an answer.
LEMMA AnswerAdded ==
  ASSUME NEW a \in {"wrote", "kept", "divergent", "error"}, NEW new \in Contents, told \in SUBSET Answers,
         told' = told \/ told' = told \cup {[answer |-> a, payload |-> new, pending |-> FALSE]}
  PROVE  told' \in SUBSET Answers
<1>1. [answer |-> a, payload |-> new, pending |-> FALSE] \in Answers
  <2>1. FALSE \in BOOLEAN
    OBVIOUS
  <2> QED
    BY <2>1 DEF Answers
<1> QED
  BY <1>1

\* A set of naturals has a least member.
LEMMA LeastNatural ==
  ASSUME NEW S \in SUBSET Nat, S # {}
  PROVE  \E m \in S : \A k \in S : m <= k
<1> DEFINE Upto == {0..i : i \in S}
           Smaller == StrictSubsetOrdering(Nat)
           Finite == FiniteSubsetsOf(Nat)
<1>1. IsWellFoundedOn(Smaller, Finite)
  BY FS_StrictSubsetOrderingWellFounded
<1>2. Upto \subseteq Finite
  <2>1. ASSUME NEW i \in S
        PROVE  0..i \in FiniteSubsetsOf(Nat)
    <3>1. i \in Int /\ 0..i \subseteq Nat
      OBVIOUS
    <3>2. IsFiniteSet(0..i)
      BY <3>1, FS_Interval
    <3> QED
      BY <3>1, <3>2 DEF FiniteSubsetsOf
  <2> QED
    BY <2>1
<1>3. PICK i \in S : TRUE
  OBVIOUS
<1>4. 0..i \in Upto
  OBVIOUS
<1>5. PICK x \in Upto : \A y \in Upto : ~(<<y, x>> \in Smaller)
  <2> HIDE DEF Upto, Smaller, Finite
  <2> QED
    BY <1>1, <1>2, <1>4, WFMin
<1>6. PICK m \in S : x = 0..m
  OBVIOUS
<1>7. ASSUME NEW k \in S, k < m
      PROVE  FALSE
  <2>1. 0..k \in Upto /\ 0..k \subseteq 0..m /\ 0..k # 0..m
    BY <1>7
  <2>2. <<0..k, x>> \in Smaller
    BY <2>1, <1>6 DEF StrictSubsetOrdering
  <2> QED
    BY <2>1, <2>2, <1>5
<1> QED
  BY <1>7

\* And a greatest one, when there is a bound.
LEMMA GreatestNatural ==
  ASSUME NEW n \in Nat, NEW S \in SUBSET (1..n), S # {}
  PROVE  \E m \in S : \A k \in S : k <= m
<1> DEFINE D == {n - i : i \in S}
<1>1. D \in SUBSET Nat /\ D # {}
  <2>1. \A i \in S : n - i \in Nat
    OBVIOUS
  <2> QED
    BY <2>1
<1>2. PICK d \in D : \A k \in D : d <= k
  <2> HIDE DEF D
  <2> QED
    BY <1>1, LeastNatural
<1>3. PICK m \in S : d = n - m
  OBVIOUS
<1>4. \A k \in S : n - k \in D
  OBVIOUS
<1>5. \A k \in S : n - m <= n - k
  BY <1>2, <1>3, <1>4
<1> QED
  BY <1>5

\* The row that a SELECT returns is one under the key.
LEMMA UnderIsHit ==
  ASSUME NEW rows \in Seq(HistoryRows)
  PROVE  /\ H!Under(rows) \in Contents \cup {"torn", "none"}
         /\ (\A i \in 1..Len(rows) : ~rows[i].keyed) => H!Under(rows) = "none"
         /\ H!Under(rows) # "none" \/ (\E i \in 1..Len(rows) : rows[i].keyed)
               => \E i \in 1..Len(rows) : /\ rows[i].keyed /\ rows[i].payload = H!Under(rows)
                                          /\ \A k \in 1..Len(rows) : rows[k].keyed => i <= k
<1> DEFINE hits == {i \in 1..Len(rows) : rows[i].keyed}
<1>0. H!Hits(rows) = hits
  BY DEF H!Hits
<1>1. CASE hits = {}
  <2>1. H!Under(rows) = "none"
    BY <1>0, <1>1 DEF H!Under, H!NoPayload
  <2> QED
    BY <2>1, <1>1
<1>2. CASE hits # {}
  <2>1. hits \in SUBSET Nat
    OBVIOUS
  <2>2. \E m \in hits : \A k \in hits : m <= k
    <3> HIDE DEF hits
    <3> QED
      BY <2>1, <1>2, LeastNatural
  <2>3. PICK m \in hits : H!Min(hits) = m /\ \A k \in hits : m <= k
    BY <2>2 DEF H!Min
  <2>4. H!Under(rows) = rows[m].payload
    BY <1>0, <1>2, <2>3 DEF H!Under
  <2>5. rows[m] \in HistoryRows /\ rows[m].keyed /\ m \in 1..Len(rows)
    BY <2>3
  <2>6. rows[m].payload \in Contents \cup {"torn"}
    BY <2>5 DEF HistoryRows
  <2>7. \A k \in 1..Len(rows) : rows[k].keyed => m <= k
    BY <2>3
  <2> QED
    BY <2>4, <2>5, <2>6, <2>7
<1> QED
  BY <1>1, <1>2

\* Nor does the cache hold what no line holds.
LEMMA SeedIsLine ==
  ASSUME file \in Seq(HistoryRows)
  PROVE  /\ H!Seed \in Contents \cup {"torn", "none"}
         /\ H!KeptLines = {} => H!Seed = "none"
         /\ H!KeptLines # {} => \E i \in H!KeptLines : H!Seed = file[i].payload
<1> DEFINE hits == H!KeptLines
<1>1. CASE hits = {}
  BY <1>1 DEF H!Seed, H!NoPayload
<1>2. CASE hits # {}
  <2>1. hits \in SUBSET (1..Len(file)) /\ Len(file) \in Nat
    BY DEF H!KeptLines, H!Lines
  <2>2. \E m \in hits : \A k \in hits : k <= m
    <3> HIDE DEF hits
    <3> QED
      BY <2>1, <1>2, GreatestNatural
  <2>3. PICK m \in hits : H!Max(hits) = m
    BY <2>2 DEF H!Max
  <2>4. H!Seed = file[m].payload
    BY <1>2, <2>3 DEF H!Seed
  <2>5. file[m] \in HistoryRows
    BY <2>3, <2>1
  <2>6. file[m].payload \in Contents \cup {"torn"}
    BY <2>5 DEF HistoryRows
  <2> QED
    BY <2>4, <2>3, <2>6, <1>2
<1> QED
  BY <1>1, <1>2

\* Sequences of rows.
LEMMA CatRows ==
  ASSUME NEW a \in Seq(HistoryRows), NEW b \in Seq(HistoryRows)
  PROVE  /\ a \o b \in Seq(HistoryRows)
         /\ Len(a \o b) = Len(a) + Len(b)
         /\ \A i \in 1..Len(a) : (a \o b)[i] = a[i]
         /\ \A i \in 1..Len(b) : (a \o b)[Len(a) + i] = b[i]
         /\ \A i \in 1..Len(a \o b) : i > Len(a) =>
               i - Len(a) \in 1..Len(b) /\ (a \o b)[i] = b[i - Len(a)]
OBVIOUS

LEMMA CatOne ==
  ASSUME NEW a \in Seq(HistoryRows), NEW r \in HistoryRows
  PROVE  /\ Append(a, r) \in Seq(HistoryRows)
         /\ Len(Append(a, r)) = Len(a) + 1
         /\ \A i \in 1..Len(a) : Append(a, r)[i] = a[i]
         /\ Append(a, r)[Len(a) + 1] = r
OBVIOUS

LEMMA RowType ==
  ASSUME NEW k \in BOOLEAN, NEW x \in Contents
  PROVE  /\ H!Row(k, x) \in HistoryRows
         /\ H!Row(k, x).keyed = k /\ H!Row(k, x).payload = x
BY DEF H!Row, HistoryRows

\* What a failed append may leave has no end.
LEMMA UnendedType ==
  ASSUME NEW k \in BOOLEAN, NEW x \in Contents
  PROVE  /\ H!Unended(k, x) \in HistoryRows
         /\ H!Unended(k, x).keyed = k /\ ~H!Unended(k, x).ended
BY DEF H!Unended, H!Row, HistoryRows

LEMMA TornType == H!Torn \in HistoryRows /\ ~H!Torn.keyed
BY DEF H!Torn, HistoryRows

LEMMA HistoryInit == H!HistoryAssumption /\ H!Init => HistoryInv
<1> SUFFICES ASSUME H!HistoryAssumption, H!Init
             PROVE  HistoryInv
  OBVIOUS
<1> USE DEF H!Init, H!NoTxn, H!NoPayload, H!Unseeded
<1>1. HistoryTypes
  <2>1. node \in BOOLEAN
    BY DEF H!HistoryAssumption
  <2>2. <<>> \in Seq(HistoryRows)
    OBVIOUS
  <2> QED
    BY <2>1, <2>2 DEF HistoryTypes
<1>2. Snapshots /\ Inserted /\ Remembered
  BY DEF Snapshots, Inserted, Remembered
<1> QED
  BY <1>1, <1>2 DEF HistoryInv

-----------------------------------------------------------------------------
(* What each step does to the invariant.                                    *)

LEMMA SelectKeeps ==
  ASSUME H!HistoryAssumption, HistoryInv, NEW c \in Recorders, H!Select(c)
  PROVE  HistoryInv'
<1> USE DEF HistoryInv
<1>0. Proc(c) \in H!Procs
  BY ProcOf
<1>1. PICK new \in Payloads :
        \/ /\ at' = [at EXCEPT ![c] = "missed"] /\ payload' = [payload EXCEPT ![c] = new]
           /\ told' = told
        \/ /\ \E a \in {"kept", "divergent"}, b \in BOOLEAN :
                  told' = told \cup {[answer |-> a, payload |-> new, pending |-> b]}
           /\ at' = at /\ payload' = payload
  BY DEF H!Select, H!Told
<1>2. /\ ~node /\ at[c] = "idle" /\ c \in Keyed
      /\ UNCHANGED <<node, file, store, open, seen, faults>>
      /\ txn' \in {txn, [txn EXCEPT ![Proc(c)] = Len(file)]}
  <2>1. txn' = [txn EXCEPT ![Proc(c)] = IF @ = H!Begun /\ open[Proc(c)] = <<>> THEN Len(file) ELSE @]
    BY DEF H!Select
  <2>2. txn' \in {txn, [txn EXCEPT ![Proc(c)] = Len(file)]}
    BY <2>1 DEF HistoryTypes
  <2> QED
    BY <2>2 DEF H!Select
<1>3. Len(file) \in Int
  BY DEF HistoryTypes
<1>4. HistoryTypes'
  <2>1. txn' \in [H!Procs -> Int]
    BY <1>2, <1>3, <1>0 DEF HistoryTypes
  <2>2. told' \in SUBSET Answers
    BY <1>1 DEF HistoryTypes, Answers, Contents
  <2>3. at' \in [Recorders -> {"idle", "missed", "inserted"}] /\ payload' \in [Recorders -> Contents \cup {"none"}]
    BY <1>1 DEF HistoryTypes, Contents
  <2> QED
    BY <2>1, <2>2, <2>3, <1>2 DEF HistoryTypes
<1>5. Snapshots'
  <2>1. \A p \in H!Procs : txn'[p] = txn[p] \/ txn'[p] = Len(file)
    BY <1>2, <1>0 DEF HistoryTypes
  <2> QED
    BY <2>1, <1>2, <1>3 DEF Snapshots
<1>6. \A d \in Recorders : at'[d] = at[d] \/ (d = c /\ at'[d] = "missed")
  BY <1>1 DEF HistoryTypes
<1>8. Inserted'
  <2>1. \A d \in Recorders : d # c => at'[d] = at[d] /\ payload'[d] = payload[d]
    BY <1>1 DEF HistoryTypes
  <2>2. at'[c] = "idle" \/ (at'[c] = "missed" /\ payload'[c] \in Contents)
    BY <1>1, <1>2 DEF HistoryTypes, Contents
  <2>3. UNCHANGED <<node, file, open>>
    BY <1>2
  <2> QED
    BY <2>1, <2>2, <2>3, <1>2 DEF Inserted
<1>9. Remembered'
  BY <1>2 DEF Remembered
<1> QED
  BY <1>4, <1>5, <1>8, <1>9

LEMMA RecordKeeps ==
  ASSUME H!HistoryAssumption, HistoryInv, NEW c \in Recorders, H!Record(c)
  PROVE  HistoryInv'
<1> USE DEF HistoryInv
<1>1. payload' = [payload EXCEPT ![c] = "plain"]
  BY DEF H!Record, H!Plain
<1>2. /\ at[c] = "idle" /\ at' = [at EXCEPT ![c] = "missed"] /\ ~node /\ c \notin Keyed
      /\ UNCHANGED <<node, file, txn, open, seen, told>>
  BY DEF H!Record
<1>3. HistoryTypes'
  BY <1>1, <1>2 DEF HistoryTypes, Contents
<1>4. Snapshots' /\ Remembered'
  BY <1>2 DEF Snapshots, Remembered
<1>6. Inserted'
  <2>1. \A d \in Recorders : d # c => at'[d] = at[d] /\ payload'[d] = payload[d]
    BY <1>1, <1>2 DEF HistoryTypes
  <2>2. at'[c] = "missed" /\ payload'[c] \in Contents
    BY <1>1, <1>2 DEF HistoryTypes, Contents
  <2> QED
    BY <2>1, <2>2, <1>2 DEF Inserted
<1> QED
  BY <1>3, <1>4, <1>6

LEMMA InsertKeeps ==
  ASSUME H!HistoryAssumption, HistoryInv, NEW c \in Recorders, H!Insert(c)
  PROVE  HistoryInv'
<1> USE DEF HistoryInv
<1> DEFINE p == Proc(c)
           r == H!Row(c \in Keyed, payload[c])
<1>0. p \in H!Procs
  BY ProcOf
<1>1. /\ at[c] = "missed" /\ at' = [at EXCEPT ![c] = "inserted"]
      /\ open' = [open EXCEPT ![p] = Append(@, r)]
      /\ txn' = [txn EXCEPT ![p] = IF @ = H!NoTxn THEN H!Begun ELSE @]
      /\ UNCHANGED <<node, file, store, seen, payload, told, faults>>
  BY DEF H!Insert
<1>2. payload[c] \in Contents /\ ~node
  BY <1>1 DEF Inserted
<1>3. r \in HistoryRows /\ r.keyed = (c \in Keyed) /\ r.payload = payload[c]
  <2>1. (c \in Keyed) \in BOOLEAN
    OBVIOUS
  <2> QED
    BY <1>2, <2>1, RowType
<1>4. /\ open[p] \in Seq(HistoryRows)
      /\ open'[p] = Append(open[p], r)
      /\ \A q \in H!Procs : q # p => open'[q] = open[q]
  BY <1>0, <1>1 DEF HistoryTypes
<1>5. /\ open'[p] \in Seq(HistoryRows)
      /\ Len(open'[p]) = Len(open[p]) + 1 /\ Len(open[p]) \in Nat
      /\ \A i \in 1..Len(open[p]) : open'[p][i] = open[p][i]
      /\ open'[p][Len(open[p]) + 1] = r
  <2> HIDE DEF r
  <2> QED
    BY <1>3, <1>4, CatOne
<1> HIDE DEF r
<1>6. \A d \in Recorders : d # c => at'[d] = at[d]
  BY <1>1 DEF HistoryTypes
<1>7. at'[c] = "inserted"
  BY <1>1 DEF HistoryTypes
<1>8. HistoryTypes'
  <2>1. open' \in [H!Procs -> Seq(HistoryRows)]
    <3>1. open' = [open EXCEPT ![p] = open'[p]]
      BY <1>0, <1>1, <1>4 DEF HistoryTypes
    <3> QED
      BY <3>1, <1>5 DEF HistoryTypes
  <2>2. txn' \in [H!Procs -> Int]
    BY <1>1, <1>0 DEF HistoryTypes, H!Begun
  <2>3. at' \in [Recorders -> {"idle", "missed", "inserted"}]
    BY <1>1 DEF HistoryTypes
  <2> QED
    BY <2>1, <2>2, <2>3, <1>1 DEF HistoryTypes
<1>9. Snapshots'
  <2>1. \A q \in H!Procs : txn'[q] = txn[q] \/ txn'[q] = -1
    BY <1>1, <1>0 DEF HistoryTypes, H!Begun
  <2>2. Len(file) \in Nat
    BY DEF HistoryTypes
  <2> QED
    BY <2>1, <2>2, <1>1 DEF Snapshots
<1>11. Inserted'
  <2> SUFFICES ASSUME NEW d \in Recorders
               PROVE  /\ at'[d] # "idle" => payload[d] \in Contents /\ ~node
                      /\ d \in Keyed /\ at'[d] = "inserted" =>
                            \/ \E i \in 1..Len(file) : file[i].keyed /\ file[i].payload = payload[d]
                            \/ \E i \in 1..Len(open'[Proc(d)]) :
                                  open'[Proc(d)][i].keyed /\ open'[Proc(d)][i].payload = payload[d]
    BY <1>1 DEF Inserted
  <2>1. CASE d = c
    <3>1. Len(open[p]) + 1 \in 1..Len(open'[p])
      BY <1>5
    <3> QED
      BY <2>1, <3>1, <1>2, <1>3, <1>5
  <2>2. CASE d # c
    <3>1. Proc(d) \in H!Procs
      BY ProcOf
    <3>2. \A i \in 1..Len(open[Proc(d)]) :
             i \in 1..Len(open'[Proc(d)]) /\ open'[Proc(d)][i] = open[Proc(d)][i]
      BY <3>1, <1>4, <1>5
    <3> QED
      BY <2>2, <3>2, <1>6 DEF Inserted
  <2> QED
    BY <2>1, <2>2
<1>12. Remembered'
  BY <1>1 DEF Remembered
<1> QED
  BY <1>8, <1>9, <1>11, <1>12

LEMMA InsertFailsKeeps ==
  ASSUME H!HistoryAssumption, HistoryInv, NEW c \in Recorders, H!InsertFails(c)
  PROVE  HistoryInv'
<1> USE DEF HistoryInv
<1>0. Proc(c) \in H!Procs
  BY ProcOf
<1>1. /\ at[c] = "missed" /\ at' = [at EXCEPT ![c] = "idle"] /\ payload' = [payload EXCEPT ![c] = "none"]
      /\ txn' = [txn EXCEPT ![Proc(c)] = IF @ = H!NoTxn THEN H!Begun ELSE @]
      /\ UNCHANGED <<node, file, open, seen>>
  BY DEF H!InsertFails, H!Answer, H!NoPayload
<1>2. told' = told \/ told' = told \cup {[answer |-> "error", payload |-> payload[c], pending |-> FALSE]}
  BY DEF H!InsertFails, H!Answer, H!Told
<1>3. payload[c] \in Contents
  BY <1>1 DEF Inserted
<1>4. \A d \in Recorders : IF d = c THEN at'[d] = "idle" ELSE at'[d] = at[d] /\ payload'[d] = payload[d]
  BY <1>1 DEF HistoryTypes
<1>5. HistoryTypes'
  <2>1. told' \in SUBSET Answers
    BY <1>2, <1>3, AnswerAdded DEF HistoryTypes
  <2>2. txn' \in [H!Procs -> Int]
    BY <1>1, <1>0 DEF HistoryTypes, H!Begun
  <2>3. at' \in [Recorders -> {"idle", "missed", "inserted"}] /\ payload' \in [Recorders -> Contents \cup {"none"}]
    BY <1>1 DEF HistoryTypes
  <2> QED
    BY <2>1, <2>2, <2>3, <1>1 DEF HistoryTypes
<1>6. Snapshots'
  <2>1. \A q \in H!Procs : txn'[q] = txn[q] \/ txn'[q] = -1
    BY <1>1, <1>0 DEF HistoryTypes, H!Begun
  <2>2. Len(file) \in Nat
    BY DEF HistoryTypes
  <2> QED
    BY <2>1, <2>2, <1>1 DEF Snapshots
<1>8. Inserted'
  BY <1>1, <1>4 DEF Inserted
<1>9. Remembered'
  BY <1>1 DEF Remembered
<1> QED
  BY <1>5, <1>6, <1>8, <1>9

LEMMA CommitKeeps ==
  ASSUME H!HistoryAssumption, HistoryInv, NEW c \in Recorders, H!Commit(c)
  PROVE  HistoryInv'
<1> USE DEF HistoryInv
<1> DEFINE p == Proc(c)
<1>0. p \in H!Procs
  BY ProcOf
<1>1. /\ at[c] = "inserted" /\ at' = [at EXCEPT ![c] = "idle"] /\ payload' = [payload EXCEPT ![c] = "none"]
      /\ file' = file \o open[p]
      /\ open' = [open EXCEPT ![p] = <<>>]
      /\ txn' = [txn EXCEPT ![p] = -2]
      /\ UNCHANGED <<node, seen>>
  BY DEF H!Commit, H!Answer, H!NoPayload, H!NoTxn
<1>2. told' = told \/ told' = told \cup {[answer |-> "wrote", payload |-> payload[c], pending |-> FALSE]}
  BY DEF H!Commit, H!Answer, H!Told
<1>3. payload[c] \in Contents
  BY <1>1 DEF Inserted
<1>4. \A d \in Recorders : IF d = c THEN at'[d] = "idle" ELSE at'[d] = at[d] /\ payload'[d] = payload[d]
  BY <1>1 DEF HistoryTypes
<1>5. /\ file \in Seq(HistoryRows) /\ open[p] \in Seq(HistoryRows) /\ Len(file) \in Nat
      /\ open'[p] = <<>> /\ \A q \in H!Procs : q # p => open'[q] = open[q]
  BY <1>0, <1>1 DEF HistoryTypes
<1>6. /\ file' \in Seq(HistoryRows)
      /\ Len(file') = Len(file) + Len(open[p]) /\ Len(open[p]) \in Nat
      /\ \A i \in 1..Len(file) : i \in 1..Len(file') /\ file'[i] = file[i]
      /\ \A i \in 1..Len(open[p]) : Len(file) + i \in 1..Len(file') /\ file'[Len(file) + i] = open[p][i]
  <2> HIDE DEF p
  <2> QED
    BY <1>1, <1>5, CatRows
<1>7. HistoryTypes'
  <2>1. told' \in SUBSET Answers
    BY <1>2, <1>3, AnswerAdded DEF HistoryTypes
  <2>2. txn' \in [H!Procs -> Int]
    BY <1>1, <1>0 DEF HistoryTypes
  <2>3. at' \in [Recorders -> {"idle", "missed", "inserted"}] /\ payload' \in [Recorders -> Contents \cup {"none"}]
    BY <1>1 DEF HistoryTypes
  <2>4. open' \in [H!Procs -> Seq(HistoryRows)]
    BY <1>1, <1>0 DEF HistoryTypes
  <2> QED
    BY <2>1, <2>2, <2>3, <2>4, <1>6, <1>1 DEF HistoryTypes
<1>8. Snapshots'
  <2>1. \A q \in H!Procs : txn'[q] = txn[q] \/ txn'[q] = -2
    BY <1>1, <1>0 DEF HistoryTypes
  <2>2. \A q \in H!Procs : txn[q] \in Int
    BY DEF HistoryTypes
  <2> QED
    BY <2>1, <2>2, <1>5, <1>6 DEF Snapshots
<1>10. Inserted'
  <2> SUFFICES ASSUME NEW d \in Recorders, d # c
               PROVE  /\ at[d] # "idle" => payload[d] \in Contents /\ ~node
                      /\ d \in Keyed /\ at[d] = "inserted" =>
                            \/ \E i \in 1..Len(file') : file'[i].keyed /\ file'[i].payload = payload[d]
                            \/ \E i \in 1..Len(open'[Proc(d)]) :
                                  open'[Proc(d)][i].keyed /\ open'[Proc(d)][i].payload = payload[d]
    BY <1>1, <1>4 DEF Inserted
  <2>1. Proc(d) \in H!Procs
    BY ProcOf
  <2>2. CASE Proc(d) = p
    <3>1. ASSUME NEW i \in 1..Len(open[p]), open[p][i].keyed, open[p][i].payload = payload[d]
          PROVE  \E j \in 1..Len(file') : file'[j].keyed /\ file'[j].payload = payload[d]
      BY <3>1, <1>6
    <3>2. ASSUME NEW i \in 1..Len(file), file[i].keyed, file[i].payload = payload[d]
          PROVE  \E j \in 1..Len(file') : file'[j].keyed /\ file'[j].payload = payload[d]
      BY <3>2, <1>6
    <3> QED
      BY <2>2, <3>1, <3>2 DEF Inserted
  <2>3. CASE Proc(d) # p
    <3>1. open'[Proc(d)] = open[Proc(d)]
      BY <2>1, <2>3, <1>5
    <3> QED
      BY <3>1, <1>6 DEF Inserted
  <2> QED
    BY <2>2, <2>3
<1>11. Remembered'
  BY <1>1, <1>6 DEF Remembered
<1> QED
  BY <1>7, <1>8, <1>10, <1>11

LEMMA SeenKeysType ==
  ASSUME HistoryInv, NEW p \in H!Procs
  PROVE  /\ H!SeenKeys(p) \in Contents \cup {"torn", "none"}
         /\ H!SeenKeys(p) # "none" =>
               \E i \in 1..Len(file) : file[i].keyed /\ file[i].payload = H!SeenKeys(p)
<1>1. CASE seen[p] = "unseeded"
  <2>1. H!SeenKeys(p) = H!Seed
    BY <1>1 DEF H!SeenKeys, H!Unseeded
  <2>2. \A i \in H!KeptLines : i \in 1..Len(file) /\ file[i].keyed
    BY DEF H!KeptLines, H!Hits
  <2> QED
    BY <2>1, <2>2, SeedIsLine DEF HistoryInv, HistoryTypes
<1>2. CASE seen[p] # "unseeded"
  <2>1. H!SeenKeys(p) = seen[p]
    BY <1>2 DEF H!SeenKeys, H!Unseeded
  <2> QED
    BY <2>1, <1>2 DEF HistoryInv, HistoryTypes, Remembered
<1> QED
  BY <1>1, <1>2

\* A line is written, or a part of it, or nothing.
LEMMA AppendedLine ==
  ASSUME HistoryInv, NEW c \in Recorders, NEW new \in Contents, H!AppendLine(c, new)
  PROVE  \/ /\ file' = Append(file, H!Row(c \in Keyed, new))
            /\ told' = IF c \in Keyed
                       THEN told \cup {[answer |-> "wrote", payload |-> new, pending |-> FALSE]} ELSE told
            /\ seen' = [seen EXCEPT ![Proc(c)] = IF c \in Keyed THEN new ELSE @]
         \/ /\ \/ file' = file \/ file' = Append(file, H!Torn)
               \/ file' = Append(file, H!Unended(c \in Keyed, new))
            /\ told' = told
            /\ seen' = [seen EXCEPT ![Proc(c)] = IF c \in Keyed THEN H!SeenKeys(Proc(c)) ELSE @]
BY DEF H!AppendLine, H!Told

LEMMA AppendLineKeeps ==
  ASSUME H!HistoryAssumption, HistoryInv, NEW c \in Recorders, NEW new \in Contents, H!AppendLine(c, new),
         node, UNCHANGED <<node, store, txn, open, at, payload>>
  PROVE  HistoryInv'
<1> USE DEF HistoryInv
<1> DEFINE p == Proc(c)
<1>0. p \in H!Procs
  BY ProcOf
<1>1. file \in Seq(HistoryRows) /\ Len(file) \in Nat
  BY DEF HistoryTypes
<1>2. /\ file' \in Seq(HistoryRows) /\ Len(file') >= Len(file)
      /\ \A i \in 1..Len(file) : i \in 1..Len(file') /\ file'[i] = file[i]
  <2>1. CASE file' = file
    BY <1>1, <2>1
  <2>2. ASSUME NEW r \in HistoryRows, file' = Append(file, r)
        PROVE  /\ file' \in Seq(HistoryRows) /\ Len(file') >= Len(file)
               /\ \A i \in 1..Len(file) : i \in 1..Len(file') /\ file'[i] = file[i]
    BY <1>1, <2>2, CatOne
  <2>3. /\ H!Row(c \in Keyed, new) \in HistoryRows /\ H!Torn \in HistoryRows
        /\ H!Unended(c \in Keyed, new) \in HistoryRows
    <3>1. (c \in Keyed) \in BOOLEAN
      OBVIOUS
    <3> QED
      BY <3>1, RowType, UnendedType, TornType
  <2> QED
    BY <2>1, <2>2, <2>3, AppendedLine
<1>3. HistoryTypes'
  <2>1. seen' \in [H!Procs -> Contents \cup {"torn", "none", "unseeded"}]
    <3>1. H!SeenKeys(p) \in Contents \cup {"torn", "none", "unseeded"}
      BY <1>0, SeenKeysType
    <3>2. \E v \in Contents \cup {"torn", "none", "unseeded"} : seen' = [seen EXCEPT ![p] = v]
      BY <1>0, <3>1, AppendedLine DEF HistoryTypes
    <3> QED
      BY <1>0, <3>2 DEF HistoryTypes
  <2>2. told' \in SUBSET Answers
    <3>1. told' = told \/ told' = told \cup {[answer |-> "wrote", payload |-> new, pending |-> FALSE]}
      BY AppendedLine
    <3> QED
      BY <3>1, AnswerAdded DEF HistoryTypes
  <2> QED
    BY <2>1, <2>2, <1>2 DEF HistoryTypes
<1>4. Snapshots'
  BY <1>1, <1>2 DEF Snapshots, HistoryTypes
<1>6. Inserted'
  BY DEF Inserted, HistoryTypes
<1>7. Remembered'
  <2> SUFFICES ASSUME NEW q \in H!Procs, seen'[q] \notin {"none", "unseeded"}
               PROVE  \E i \in 1..Len(file') : file'[i].keyed /\ file'[i].payload = seen'[q]
    BY DEF Remembered
  <2>1. CASE seen'[q] = seen[q]
    BY <2>1, <1>2 DEF Remembered
  <2>2. CASE q = p /\ c \in Keyed /\ seen'[p] = new /\ file' = Append(file, H!Row(c \in Keyed, new))
    <3>1. (c \in Keyed) = TRUE
      BY <2>2
    <3> DEFINE r == H!Row(TRUE, new)
    <3>2. r \in HistoryRows /\ r.keyed /\ r.payload = new
      BY RowType
    <3>3. file' = Append(file, r)
      BY <2>2, <3>1
    <3> HIDE DEF r
    <3>4. Len(file) + 1 \in 1..Len(file') /\ file'[Len(file) + 1] = r
      BY <3>2, <3>3, <1>1, CatOne
    <3> QED
      BY <2>2, <3>2, <3>4
  <2>3. CASE q = p /\ seen'[p] = H!SeenKeys(p)
    BY <2>3, <1>0, <1>2, SeenKeysType
  <2>4. q # p => seen'[q] = seen[q]
    BY AppendedLine DEF HistoryTypes
  <2>5. c \notin Keyed => seen'[q] = seen[q]
    BY AppendedLine DEF HistoryTypes
  <2>6. c \in Keyed => \/ seen'[p] = new /\ file' = Append(file, H!Row(c \in Keyed, new))
                       \/ seen'[p] = H!SeenKeys(p)
    BY AppendedLine, <1>0 DEF HistoryTypes
  <2> QED
    BY <2>1, <2>2, <2>3, <2>4, <2>5, <2>6
<1> QED
  BY <1>3, <1>4, <1>6, <1>7

LEMMA RecordIdempotentKeeps ==
  ASSUME H!HistoryAssumption, HistoryInv, NEW c \in Recorders, H!RecordIdempotent(c)
  PROVE  HistoryInv'
<1> DEFINE p == Proc(c)
<1>0. p \in H!Procs
  BY ProcOf
<1>1. CASE H!SeenKeys(p) = "none"
  <2>1. PICK new \in Contents : H!AppendLine(c, new)
    BY <1>1 DEF H!RecordIdempotent, H!NoPayload, Contents
  <2> QED
    BY <2>1, AppendLineKeeps DEF H!RecordIdempotent
<1>2. CASE H!SeenKeys(p) # "none"
  <2>1. PICK new \in Payloads :
           /\ seen' = [seen EXCEPT ![p] = H!SeenKeys(p)]
           /\ \E a \in {"kept", "divergent"} :
                 told' = told \cup {[answer |-> a, payload |-> new, pending |-> FALSE]}
           /\ file' = file
    BY <1>2 DEF H!RecordIdempotent, H!NoPayload, H!Told
  <2>2. node /\ UNCHANGED <<node, store, txn, open, at, payload>>
    BY DEF H!RecordIdempotent
  <2>3. HistoryTypes'
    <3>1. seen' \in [H!Procs -> Contents \cup {"torn", "none", "unseeded"}]
      BY <1>0, <2>1, SeenKeysType DEF HistoryInv, HistoryTypes
    <3>2. told' \in SUBSET Answers
      <4>1. new \in Contents
        BY DEF Contents
      <4> QED
        BY <2>1, <4>1, AnswerAdded DEF HistoryInv, HistoryTypes
    <3> QED
      BY <3>1, <3>2, <2>1, <2>2 DEF HistoryInv, HistoryTypes
  <2>4. Snapshots' /\ Inserted'
    BY <2>1, <2>2 DEF HistoryInv, Snapshots, Inserted
  <2>5. Remembered'
    <3>1. \A q \in H!Procs : seen'[q] = IF q = p THEN H!SeenKeys(p) ELSE seen[q]
      BY <2>1, <1>0 DEF HistoryInv, HistoryTypes
    <3> QED
      BY <3>1, <1>0, <2>1, SeenKeysType DEF HistoryInv, Remembered
  <2> QED
    BY <2>3, <2>4, <2>5 DEF HistoryInv
<1> QED
  BY <1>1, <1>2

LEMMA RestartKeeps ==
  ASSUME H!HistoryAssumption, HistoryInv, NEW p \in H!Procs, H!Restart(p)
  PROVE  HistoryInv'
<1> USE DEF HistoryInv
<1>1. /\ txn' = [txn EXCEPT ![p] = -2]
      /\ open' = [open EXCEPT ![p] = <<>>]
      /\ seen' = [seen EXCEPT ![p] = "unseeded"]
      /\ at' = [c \in Recorders |-> IF Proc(c) = p THEN "idle" ELSE at[c]]
      /\ payload' = [c \in Recorders |-> IF Proc(c) = p THEN "none" ELSE payload[c]]
      /\ UNCHANGED <<node, file, told>>
  BY DEF H!Restart, H!NoTxn, H!NoPayload, H!Unseeded
<1>2. \A q \in H!Procs : IF q = p THEN open'[q] = <<>> /\ txn'[q] = -2 /\ seen'[q] = "unseeded"
                                  ELSE open'[q] = open[q] /\ txn'[q] = txn[q] /\ seen'[q] = seen[q]
  BY <1>1 DEF HistoryTypes
<1>3. \A c \in Recorders : IF Proc(c) = p THEN at'[c] = "idle"
                                        ELSE at'[c] = at[c] /\ payload'[c] = payload[c]
  BY <1>1
<1>4. HistoryTypes'
  BY <1>1 DEF HistoryTypes
<1>5. Snapshots'
  <2>1. Len(file) \in Nat
    BY DEF HistoryTypes
  <2> QED
    BY <2>1, <1>1, <1>2 DEF Snapshots
<1>7. Inserted'
  <2> SUFFICES ASSUME NEW d \in Recorders, Proc(d) # p
               PROVE  /\ at'[d] # "idle" => payload'[d] \in Contents /\ ~node
                      /\ d \in Keyed /\ at'[d] = "inserted" =>
                            \/ \E i \in 1..Len(file) : file[i].keyed /\ file[i].payload = payload'[d]
                            \/ \E i \in 1..Len(open'[Proc(d)]) :
                                  open'[Proc(d)][i].keyed /\ open'[Proc(d)][i].payload = payload'[d]
    BY <1>1, <1>3 DEF Inserted
  <2>1. open'[Proc(d)] = open[Proc(d)]
    BY <1>2, ProcOf
  <2> QED
    BY <2>1, <1>3 DEF Inserted
<1>8. Remembered'
  BY <1>1, <1>2 DEF Remembered
<1> QED
  BY <1>4, <1>5, <1>7, <1>8

LEMMA HistoryNext == H!HistoryAssumption /\ HistoryInv /\ [H!Next]_(H!vars) => HistoryInv'
<1> SUFFICES ASSUME H!HistoryAssumption, HistoryInv, [H!Next]_(H!vars)
             PROVE  HistoryInv'
  OBVIOUS
<1>1. ASSUME NEW p \in H!Procs, H!GetStore(p)
      PROVE  HistoryInv'
  BY <1>1 DEF H!GetStore, HistoryInv, HistoryTypes, Snapshots, Inserted, Remembered
<1>2. ASSUME NEW p \in H!Procs, H!Restart(p)
      PROVE  HistoryInv'
  BY <1>2, RestartKeeps
<1>3. ASSUME NEW c \in Recorders, H!NodeRecord(c)
      PROVE  HistoryInv'
  <2>1. H!AppendLine(c, "plain") /\ node /\ UNCHANGED <<node, store, txn, open, at, payload>>
    BY <1>3 DEF H!NodeRecord, H!Plain
  <2> QED
    BY <2>1, AppendLineKeeps DEF Contents
<1>4. CASE UNCHANGED H!vars
  BY <1>4 DEF H!vars, HistoryInv, HistoryTypes, Snapshots, Inserted, Remembered
<1> QED
  BY <1>1, <1>2, <1>3, <1>4, SelectKeeps, RecordKeeps, InsertKeeps, InsertFailsKeeps, CommitKeeps,
     RecordIdempotentKeeps DEF H!Next

LEMMA HistoryAlways == ASSUME H!HistoryAssumption PROVE H!Spec => []HistoryInv
<1>1. H!Init => HistoryInv
  BY HistoryInit
<1>2. HistoryInv /\ [H!Next]_(H!vars) => HistoryInv'
  BY HistoryNext
<1> QED
  BY <1>1, <1>2, PTL DEF H!Spec

-----------------------------------------------------------------------------
(* What is told of the key.                                                 *)

ToldInv ==
    \A t \in told : t.answer # "error" /\ ~t.pending =>
        \E i \in 1..Len(file) : file[i].keyed /\ H!Shows(t, file[i].payload)

\* No step takes a row from the file.
LEMMA FileGrows ==
  ASSUME HistoryInv, [H!Next]_(H!vars)
  PROVE  \A i \in 1..Len(file) : i \in 1..Len(file') /\ file'[i] = file[i]
<1>0. file \in Seq(HistoryRows)
  BY DEF HistoryInv, HistoryTypes
<1>1. CASE file' = file
  BY <1>1
<1>2. ASSUME NEW c \in Recorders, H!Commit(c)
      PROVE  \A i \in 1..Len(file) : i \in 1..Len(file') /\ file'[i] = file[i]
  <2>1. file' = file \o open[Proc(c)] /\ open[Proc(c)] \in Seq(HistoryRows)
    BY <1>2, ProcOf DEF H!Commit, HistoryInv, HistoryTypes
  <2> QED
    BY <1>0, <2>1, CatRows
<1>3. ASSUME NEW c \in Recorders, NEW new \in Contents, H!AppendLine(c, new)
      PROVE  \A i \in 1..Len(file) : i \in 1..Len(file') /\ file'[i] = file[i]
  <2>1. PICK r \in HistoryRows : file' = file \/ file' = Append(file, r)
    <3>1. /\ H!Row(c \in Keyed, new) \in HistoryRows /\ H!Torn \in HistoryRows
          /\ H!Unended(c \in Keyed, new) \in HistoryRows
      <4>1. (c \in Keyed) \in BOOLEAN
        OBVIOUS
      <4> QED
        BY <4>1, RowType, UnendedType, TornType
    <3>2. \/ file' = file \/ file' = Append(file, H!Torn)
          \/ file' = Append(file, H!Row(c \in Keyed, new))
          \/ file' = Append(file, H!Unended(c \in Keyed, new))
      BY <1>3, AppendedLine
    <3> QED
      BY <3>1, <3>2
  <2> QED
    BY <1>0, <2>1, CatOne
<1>4. \/ file' = file
      \/ \E c \in Recorders : H!Commit(c)
      \/ \E c \in Recorders, new \in Contents : H!AppendLine(c, new)
  BY DEF H!Next, H!vars, H!GetStore, H!Restart, H!Select, H!Record, H!Insert, H!InsertFails,
         H!RecordIdempotent, H!NodeRecord, Contents, H!Plain
<1> QED
  BY <1>1, <1>2, <1>3, <1>4

\* What a connection sees is what is committed, as of its snapshot, and its own.
LEMMA VisibleRows ==
  ASSUME HistoryInv, NEW p \in H!Procs
  PROVE  /\ H!Snapshot(p) \in Seq(HistoryRows) /\ H!Visible(p) \in Seq(HistoryRows)
         /\ \A i \in 1..Len(H!Snapshot(p)) :
               /\ i \in 1..Len(file) /\ H!Snapshot(p)[i] = file[i]
               /\ i \in 1..Len(H!Visible(p)) /\ H!Visible(p)[i] = file[i]
         /\ \A j \in 1..Len(open[p]) :
               \E i \in 1..Len(H!Visible(p)) : H!Visible(p)[i] = open[p][j]
<1> DEFINE base == H!Snapshot(p)
<1>1. file \in Seq(HistoryRows) /\ open[p] \in Seq(HistoryRows) /\ txn[p] \in Int /\ txn[p] <= Len(file)
  BY DEF HistoryInv, HistoryTypes, Snapshots
<1>2. base \in Seq(HistoryRows) /\ \A i \in 1..Len(base) : i \in 1..Len(file) /\ base[i] = file[i]
  <2>1. CASE txn[p] >= 0
    <3>1. base = SubSeq(file, 1, txn[p]) /\ txn[p] \in 0..Len(file)
      BY <2>1, <1>1 DEF H!Snapshot, H!Reading
    <3>2. base \in Seq(HistoryRows) /\ Len(base) = txn[p] /\ \A i \in 1..txn[p] : base[i] = file[i]
      BY <3>1, <1>1
    <3> QED
      BY <3>1, <3>2, <2>1
  <2>2. CASE ~(txn[p] >= 0)
    BY <2>2, <1>1 DEF H!Snapshot, H!Reading
  <2> QED
    BY <2>1, <2>2
<1>3. H!Visible(p) = base \o open[p]
  BY DEF H!Visible
<1> HIDE DEF base
<1>4. /\ H!Visible(p) \in Seq(HistoryRows)
      /\ Len(H!Visible(p)) = Len(base) + Len(open[p]) /\ Len(base) \in Nat /\ Len(open[p]) \in Nat
      /\ \A i \in 1..Len(base) : i \in 1..Len(H!Visible(p)) /\ H!Visible(p)[i] = base[i]
      /\ \A i \in 1..Len(open[p]) :
            Len(base) + i \in 1..Len(H!Visible(p)) /\ H!Visible(p)[Len(base) + i] = open[p][i]
  BY <1>1, <1>2, <1>3, CatRows
<1>5. \A j \in 1..Len(open[p]) : \E i \in 1..Len(H!Visible(p)) : H!Visible(p)[i] = open[p][j]
  BY <1>4
<1> QED
  BY <1>2, <1>4, <1>5 DEF base

\* A key found in the snapshot is found as a row of the file.
LEMMA FoundInFile ==
  ASSUME HistoryInv, NEW p \in H!Procs, H!Hits(H!Snapshot(p)) # {}
  PROVE  \E j \in 1..Len(file) : file[j].keyed /\ file[j].payload = H!Under(H!Visible(p))
<1> DEFINE base == H!Snapshot(p)
           all == H!Visible(p)
<1>1. PICK k \in 1..Len(base) : base[k].keyed
  BY DEF H!Hits
<1>2. k \in 1..Len(all) /\ all[k].keyed /\ base \in Seq(HistoryRows) /\ all \in Seq(HistoryRows)
  BY <1>1, VisibleRows
<1>3. PICK i \in 1..Len(all) : /\ all[i].keyed /\ all[i].payload = H!Under(all)
                               /\ \A m \in 1..Len(all) : all[m].keyed => i <= m
  <2> HIDE DEF all
  <2> QED
    BY <1>2, UnderIsHit
<1>4. i \in 1..Len(base)
  BY <1>1, <1>2, <1>3
<1>5. i \in 1..Len(file) /\ all[i] = file[i]
  BY <1>4, VisibleRows
<1> QED
  BY <1>3, <1>5

LEMMA ToldStep ==
  ASSUME HistoryInv, ToldInv, [H!Next]_(H!vars), NEW t, t \in told', t \notin told,
         t.answer # "error", ~t.pending
  PROVE  \E i \in 1..Len(file') : file'[i].keyed /\ H!Shows(t, file'[i].payload)
<1> DEFINE Goal == \E i \in 1..Len(file') : file'[i].keyed /\ H!Shows(t, file'[i].payload)
<1>1. \A i \in 1..Len(file) : i \in 1..Len(file') /\ file'[i] = file[i]
  BY FileGrows
<1>2. ASSUME NEW c \in Recorders, H!Commit(c)
      PROVE  Goal
  <2> DEFINE p == Proc(c)
  <2>1. /\ c \in Keyed /\ t = [answer |-> "wrote", payload |-> payload[c], pending |-> FALSE]
        /\ at[c] = "inserted"
    BY <1>2 DEF H!Commit, H!Answer, H!Told
  <2>2. file' = file \o open[p] /\ file \in Seq(HistoryRows) /\ open[p] \in Seq(HistoryRows)
    BY <1>2, ProcOf DEF H!Commit, HistoryInv, HistoryTypes
  <2>3. \A i \in 1..Len(open[p]) : Len(file) + i \in 1..Len(file') /\ file'[Len(file) + i] = open[p][i]
    <3> HIDE DEF p
    <3>1. Len(file) \in Nat /\ Len(open[p]) \in Nat
      BY <2>2
    <3> QED
      BY <2>2, <3>1, CatRows
  <2>4. \/ \E i \in 1..Len(file) : file[i].keyed /\ file[i].payload = payload[c]
        \/ \E i \in 1..Len(open[p]) : open[p][i].keyed /\ open[p][i].payload = payload[c]
    BY <2>1 DEF HistoryInv, Inserted
  <2>5. \E i \in 1..Len(file') : file'[i].keyed /\ file'[i].payload = payload[c]
    BY <2>3, <2>4, <1>1
  <2> QED
    BY <2>1, <2>5 DEF H!Shows
<1>3. ASSUME NEW c \in Recorders, H!Select(c)
      PROVE  Goal
  <2> DEFINE p == Proc(c)
             hit == H!Under(H!Visible(p))
  <2>1. file' = file
    BY <1>3 DEF H!Select
  <2>2. PICK new \in Payloads :
           t = [answer |-> IF hit = new THEN "kept" ELSE "divergent", payload |-> new,
                pending |-> H!Hits(H!Snapshot(p)) = {}]
    BY <1>3 DEF H!Select, H!Told
  <2>3. PICK j \in 1..Len(file) : file[j].keyed /\ file[j].payload = hit
    <3>1. t.pending = (H!Hits(H!Snapshot(p)) = {})
      BY <2>2
    <3>2. H!Hits(H!Snapshot(p)) # {}
      BY <3>1
    <3> QED
      BY <3>2, ProcOf, FoundInFile
  <2>4. t.payload = new /\ t.answer = IF hit = new THEN "kept" ELSE "divergent"
    BY <2>2
  <2>5. H!Shows(t, hit)
    BY <2>4 DEF H!Shows
  <2> QED
    BY <2>1, <2>3, <2>5
<1>4. ASSUME NEW c \in Recorders, H!RecordIdempotent(c)
      PROVE  Goal
  <2> DEFINE p == Proc(c)
             hit == H!SeenKeys(p)
  <2>1. CASE hit = "none"
    <3>1. PICK new \in Contents : H!AppendLine(c, new)
      BY <1>4, <2>1 DEF H!RecordIdempotent, H!NoPayload, Contents
    <3>2. /\ file' = Append(file, H!Row(c \in Keyed, new)) /\ c \in Keyed
          /\ t = [answer |-> "wrote", payload |-> new, pending |-> FALSE]
      BY <3>1, AppendedLine
    <3>3. (c \in Keyed) = TRUE
      BY <3>2
    <3> DEFINE r == H!Row(TRUE, new)
    <3>4. r \in HistoryRows /\ r.keyed /\ r.payload = new
      BY RowType
    <3>5. file' = Append(file, r) /\ file \in Seq(HistoryRows) /\ Len(file) \in Nat
      <4>1. file' = Append(file, r)
        BY <3>2, <3>3
      <4> QED
        BY <4>1 DEF HistoryInv, HistoryTypes
    <3> HIDE DEF r
    <3>6. Len(file) + 1 \in 1..Len(file') /\ file'[Len(file) + 1] = r
      BY <3>4, <3>5, CatOne
    <3> QED
      BY <3>2, <3>4, <3>6 DEF H!Shows
  <2>2. CASE hit # "none"
    <3>1. PICK new \in Payloads :
             /\ t = [answer |-> IF hit = new THEN "kept" ELSE "divergent", payload |-> new, pending |-> FALSE]
             /\ file' = file
      BY <1>4, <2>2 DEF H!RecordIdempotent, H!NoPayload, H!Told
    <3>2. \E i \in 1..Len(file') : file'[i].keyed /\ file'[i].payload = hit
      BY <2>2, <3>1, ProcOf, SeenKeysType
    <3> HIDE DEF hit
    <3>3. t.payload = new /\ t.answer = IF hit = new THEN "kept" ELSE "divergent"
      BY <3>1
    <3>4. H!Shows(t, hit)
      BY <3>3 DEF H!Shows
    <3> QED
      BY <3>2, <3>4
  <2> QED
    BY <2>1, <2>2
<1>5. ASSUME NEW c \in Recorders, H!InsertFails(c)
      PROVE  Goal
  <2>1. t = [answer |-> "error", payload |-> payload[c], pending |-> FALSE]
    BY <1>5 DEF H!InsertFails, H!Answer, H!Told
  <2> QED
    BY <2>1
<1>6. ASSUME NEW c \in Recorders, H!NodeRecord(c)
      PROVE  Goal
  <2>1. H!AppendLine(c, "plain") /\ c \notin Keyed
    BY <1>6 DEF H!NodeRecord, H!Plain
  <2> QED
    BY <2>1, AppendedLine DEF Contents
<1> HIDE DEF Goal
<1>7. Goal
  <2>1. CASE \E c \in Recorders : \/ H!Commit(c) \/ H!Select(c) \/ H!RecordIdempotent(c)
                                \/ H!InsertFails(c) \/ H!NodeRecord(c)
    BY <2>1, <1>2, <1>3, <1>4, <1>5, <1>6
  <2>2. CASE ~\E c \in Recorders : \/ H!Commit(c) \/ H!Select(c) \/ H!RecordIdempotent(c)
                                 \/ H!InsertFails(c) \/ H!NodeRecord(c)
    <3>1. told' = told
      BY <2>2 DEF H!Next, H!vars, H!GetStore, H!Restart, H!Record, H!Insert
    <3> QED
      BY <3>1
  <2> QED
    BY <2>1, <2>2
<1> QED
  BY <1>7 DEF Goal

LEMMA ToldNext == HistoryInv /\ ToldInv /\ [H!Next]_(H!vars) => ToldInv'
<1> SUFFICES ASSUME HistoryInv, ToldInv, [H!Next]_(H!vars), NEW t \in told',
                    t.answer # "error", ~t.pending
             PROVE  \E i \in 1..Len(file') : file'[i].keyed /\ H!Shows(t, file'[i].payload)
  BY DEF ToldInv, H!Shows
<1>1. CASE t \in told
  BY <1>1, FileGrows DEF ToldInv
<1>2. CASE t \notin told
  BY <1>2, ToldStep
<1> QED
  BY <1>1, <1>2

\* What a caller is told of the key stays true for whoever reads the file, for
\* any number of callers and processes, in Python and in Node: but for a row
\* that was not committed when it was spoken of, and a line that was run into
\* another by an append that failed (record_idempotent, recordIdempotent).
THEOREM AnswersStand == H!Spec => []ToldIsKept
<1> USE HistoryAssumption
<1>1. H!Init => ToldInv
  BY DEF H!Init, ToldInv
<1>2. HistoryInv /\ ToldInv => ToldIsKept
  <2> SUFFICES ASSUME HistoryInv, ToldInv, NEW t \in H!Answered
               PROVE  \E i \in H!Hits(file) : (i \in H!Kept \/ H!RunTogether(i)) /\ H!Shows(t, file[i].payload)
    BY DEF ToldIsKept, H!ToldIsKept
  <2>1. PICK i \in 1..Len(file) : file[i].keyed /\ H!Shows(t, file[i].payload)
    BY DEF ToldInv, H!Answered
  <2>2. i \in H!Hits(file)
    BY <2>1 DEF H!Hits
  <2>3. CASE ~node
    BY <2>1, <2>2, <2>3 DEF H!Kept
  <2>4. CASE node
    <3>1. file[i] # H!Torn
      BY <2>1, TornType
    <3>2. i \in H!KeptLines \/ H!RunTogether(i)
      BY <3>1, <2>2, <2>4 DEF H!KeptLines, H!Lines, H!RunTogether
    <3> QED
      BY <3>2, <2>1, <2>2, <2>4 DEF H!Kept
  <2> QED
    BY <2>3, <2>4 DEF HistoryInv, HistoryTypes
<1> QED
  BY <1>1, <1>2, ToldNext, HistoryAlways, PTL DEF H!Spec

-----------------------------------------------------------------------------
(* How often the key is appended.                                           *)

\* Python: one process writes at a time; a caller that missed the key, and was
\* not overtaken, would miss it still; and while no overtaken caller appends,
\* one row is in the file or on its way to it.
OneWriter == \A p, q \in H!Procs : open[p] # <<>> /\ open[q] # <<>> => p = q
StillMissing(c) ==
    /\ \A i \in 1..Len(file) : ~file[i].keyed
    /\ \A i \in 1..Len(open[Proc(c)]) : ~open[Proc(c)][i].keyed
OneRow ==
    /\ \A i, j \in 1..Len(file) : file[i].keyed /\ file[j].keyed => i = j
    /\ \A p \in H!Procs : \A i \in 1..Len(open[p]) : open[p][i].keyed =>
          /\ \A j \in 1..Len(open[p]) : open[p][j].keyed => i = j
          /\ \A j \in 1..Len(file) : ~file[j].keyed
OncePython ==
    /\ OneWriter
    /\ \A c \in Keyed : at[c] = "missed" /\ c \notin overtaken => StillMissing(c)
    /\ ~raced => OneRow

\* Node: one line that a process that starts would read; and a cache that holds
\* no row, and was not overtaken, is right, but for a last line without an end,
\* which the next line takes away.
KeptOf(rows) ==
    {i \in 1..Len(rows) : /\ rows[i].keyed
                          /\ i > 1 => rows[i - 1].ended
                          /\ i < Len(rows) => rows[i].ended}
Unsure(rows) == \A i \in KeptOf(rows) : i = Len(rows) /\ ~rows[i].ended
OnceNode ==
    /\ ~raced => \A i, j \in KeptOf(file) : i = j
    /\ \A c \in Keyed : seen[Proc(c)] = "none" /\ c \notin overtaken => Unsure(file)

OnceInv == (~node => OncePython) /\ (node => OnceNode)

LEMMA OnceInit == H!HistoryAssumption /\ H!Init => OnceInv
<1> SUFFICES ASSUME H!HistoryAssumption, H!Init
             PROVE  OnceInv
  OBVIOUS
<1>1. /\ file = <<>> /\ \A p \in H!Procs : open[p] = <<>> /\ txn[p] = -2 /\ seen[p] = "unseeded"
      /\ \A c \in Keyed : at[c] = "idle" /\ Proc(c) \in H!Procs
  BY ProcOf DEF H!Init, H!HistoryAssumption, H!NoTxn, H!Unseeded
<1>2. OncePython
  BY <1>1 DEF OncePython, OneWriter, OneRow
<1>3. OnceNode
  BY <1>1 DEF OnceNode, KeptOf
<1> QED
  BY <1>2, <1>3 DEF OnceInv

LEMMA KeptLinesOf ==
  ASSUME file \in Seq(HistoryRows)
  PROVE  H!KeptLines = KeptOf(file)
<1>1. ~H!Torn.keyed
  BY TornType
<1> QED
  BY <1>1 DEF H!KeptLines, H!Lines, H!Hits, KeptOf

\* A row put after the others is kept when the last of them has its end; they
\* are kept when they have theirs.
LEMMA KeptAppend ==
  ASSUME NEW rows \in Seq(HistoryRows), NEW r \in HistoryRows
  PROVE  /\ Append(rows, r) \in Seq(HistoryRows) /\ Len(Append(rows, r)) = Len(rows) + 1
         /\ Append(rows, r)[Len(rows) + 1] = r
         /\ \A i \in KeptOf(Append(rows, r)) :
               \/ i = Len(rows) + 1 /\ r.keyed
               \/ i \in KeptOf(rows) /\ rows[i].ended
<1> DEFINE more == Append(rows, r)
<1>1. /\ more \in Seq(HistoryRows)
      /\ Len(more) = Len(rows) + 1 /\ Len(rows) \in Nat
      /\ \A i \in 1..Len(rows) : more[i] = rows[i]
      /\ more[Len(rows) + 1] = r
  BY CatOne
<1> HIDE DEF more
<1>2. ASSUME NEW i \in KeptOf(more)
      PROVE  \/ i = Len(rows) + 1 /\ r.keyed
             \/ i \in KeptOf(rows) /\ rows[i].ended
  <2>1. /\ i \in 1..Len(more) /\ more[i].keyed
        /\ i > 1 => more[i - 1].ended
        /\ i < Len(more) => more[i].ended
    BY DEF KeptOf
  <2>2. CASE i = Len(rows) + 1
    BY <2>1, <2>2, <1>1
  <2>3. CASE i # Len(rows) + 1
    <3>1. i \in 1..Len(rows) /\ i < Len(more) /\ (i > 1 => i - 1 \in 1..Len(rows))
      BY <2>1, <2>3, <1>1
    <3>2. rows[i].keyed /\ rows[i].ended /\ (i > 1 => rows[i - 1].ended)
      BY <3>1, <2>1, <1>1
    <3> QED
      BY <3>1, <3>2 DEF KeptOf
  <2> QED
    BY <2>2, <2>3
<1> QED
  BY <1>1, <1>2 DEF more

\* Python's steps.
LEMMA OnceSelect ==
  ASSUME H!HistoryAssumption, HistoryInv, OncePython, NEW c \in Recorders, H!Select(c)
  PROVE  OncePython'
<1> DEFINE p == Proc(c)
           hit == H!Under(H!Visible(p))
<1>0. p \in H!Procs /\ at[c] = "idle" /\ UNCHANGED <<file, open, raced>>
  BY ProcOf DEF H!Select
<1>1. H!Visible(p) \in Seq(HistoryRows)
  BY <1>0, VisibleRows
<1>2. CASE hit # "none"
  <2>1. at' = at /\ overtaken' = overtaken
    BY <1>2 DEF H!Select, H!NoPayload
  <2> QED
    BY <2>1, <1>0 DEF OncePython, OneWriter, StillMissing, OneRow
<1>3. CASE hit = "none"
  <2>1. /\ at' = [at EXCEPT ![c] = "missed"]
        /\ overtaken' = IF H!Hits(file) = {} THEN overtaken ELSE overtaken \cup {c}
    BY <1>3 DEF H!Select, H!NoPayload
  <2>2. \A i \in 1..Len(H!Visible(p)) : ~H!Visible(p)[i].keyed
    <3> SUFFICES ASSUME NEW i \in 1..Len(H!Visible(p)), H!Visible(p)[i].keyed
                 PROVE  FALSE
      OBVIOUS
    <3>1. PICK k \in 1..Len(H!Visible(p)) : H!Visible(p)[k].keyed /\ H!Visible(p)[k].payload = hit
      BY <1>1, UnderIsHit
    <3>2. H!Visible(p)[k] \in HistoryRows
      BY <1>1, <3>1
    <3>3. "none" \in Payloads \cup {"torn", "plain"}
      BY <3>1, <3>2, <1>3 DEF HistoryRows, Contents
    <3> QED
      BY <3>3 DEF H!HistoryAssumption, H!NoPayload
  <2>3. \A i \in 1..Len(open[p]) : ~open[p][i].keyed
    BY <2>2, <1>0, VisibleRows
  <2>4. \A d \in Keyed : at'[d] = "missed" /\ d \notin overtaken' => StillMissing(d)
    <3> SUFFICES ASSUME NEW d \in Keyed, at'[d] = "missed", d \notin overtaken'
                 PROVE  StillMissing(d)
      OBVIOUS
    <3>1. d \in Recorders
      BY DEF H!HistoryAssumption
    <3>2. CASE d = c
      <4>1. H!Hits(file) = {}
        BY <2>1, <3>2
      <4> QED
        BY <4>1, <2>3, <3>2 DEF StillMissing, H!Hits
    <3>3. CASE d # c
      <4>1. at[d] = "missed" /\ d \notin overtaken
        BY <2>1, <3>1, <3>3 DEF HistoryInv, HistoryTypes
      <4> QED
        BY <4>1 DEF OncePython
    <3> QED
      BY <3>2, <3>3
  <2> QED
    BY <2>4, <1>0 DEF OncePython, OneWriter, StillMissing, OneRow
<1> QED
  BY <1>2, <1>3

LEMMA OnceInsert ==
  ASSUME H!HistoryAssumption, HistoryInv, OncePython, NEW c \in Recorders, H!Insert(c)
  PROVE  OncePython'
<1> DEFINE p == Proc(c)
           r == H!Row(c \in Keyed, payload[c])
<1>0. p \in H!Procs
  BY ProcOf
<1>1. /\ at[c] = "missed" /\ at' = [at EXCEPT ![c] = "inserted"]
      /\ \A q \in H!Procs : q # p => open[q] = <<>>
      /\ open' = [open EXCEPT ![p] = Append(@, r)]
      /\ overtaken' = (overtaken \ {c}) \cup
            IF c \in Keyed THEN {d \in Keyed : at[d] = "missed" /\ d # c /\ Proc(d) = p} ELSE {}
      /\ raced' = (raced \/ c \in overtaken)
      /\ file' = file
  BY DEF H!Insert, H!Locked, H!Looking
<1>2. r \in HistoryRows /\ (r.keyed => c \in Keyed)
  <2>1. (c \in Keyed) \in BOOLEAN
    OBVIOUS
  <2>2. payload[c] \in Contents
    BY <1>1 DEF HistoryInv, Inserted
  <2>3. r \in HistoryRows /\ r.keyed = (c \in Keyed)
    BY <2>1, <2>2, RowType
  <2> HIDE DEF r
  <2>4. r.keyed => c \in Keyed
    BY <2>3
  <2> QED
    BY <2>3, <2>4
<1>3. /\ open[p] \in Seq(HistoryRows)
      /\ open'[p] = Append(open[p], r)
      /\ \A q \in H!Procs : q # p => open'[q] = <<>>
  BY <1>0, <1>1 DEF HistoryInv, HistoryTypes
<1>4. /\ Len(open'[p]) = Len(open[p]) + 1 /\ Len(open[p]) \in Nat
      /\ \A i \in 1..Len(open[p]) : open'[p][i] = open[p][i]
      /\ open'[p][Len(open[p]) + 1] = r
  <2> HIDE DEF r
  <2> QED
    BY <1>2, <1>3, CatOne
<1> HIDE DEF r
<1>5. \A d \in Recorders : IF d = c THEN at'[d] = "inserted" ELSE at'[d] = at[d]
  BY <1>1 DEF HistoryInv, HistoryTypes
<1>6. OneWriter'
  BY <1>3 DEF OneWriter
<1>7. c \notin Keyed =>
         \A i \in 1..Len(open'[p]) : open'[p][i].keyed => i \in 1..Len(open[p]) /\ open[p][i].keyed
  <2> SUFFICES ASSUME c \notin Keyed, NEW i \in 1..Len(open'[p]), open'[p][i].keyed
               PROVE  i \in 1..Len(open[p]) /\ open[p][i].keyed
    OBVIOUS
  <2>1. i # Len(open[p]) + 1
    BY <1>2, <1>4
  <2> QED
    BY <2>1, <1>4
<1>8. ASSUME ~raced'
      PROVE  OneRow'
  <2>1. ~raced /\ c \notin overtaken
    BY <1>1, <1>8
  <2>2. ASSUME NEW i \in 1..Len(open'[p]), open'[p][i].keyed
        PROVE  /\ \A j \in 1..Len(open'[p]) : open'[p][j].keyed => i = j
               /\ \A j \in 1..Len(file) : ~file[j].keyed
    <3>1. CASE c \in Keyed
      <4>1. StillMissing(c)
        BY <2>1, <3>1, <1>1 DEF OncePython
      <4>2. \A j \in 1..Len(open'[p]) : open'[p][j].keyed => j = Len(open[p]) + 1
        BY <4>1, <1>4 DEF StillMissing
      <4> QED
        BY <2>2, <4>1, <4>2 DEF StillMissing
    <3>2. CASE c \notin Keyed
      BY <2>1, <2>2, <3>2, <1>0, <1>7 DEF OncePython, OneRow
    <3> QED
      BY <3>1, <3>2
  <2>3. \A q \in H!Procs : \A i \in 1..Len(open'[q]) : open'[q][i].keyed =>
           /\ \A j \in 1..Len(open'[q]) : open'[q][j].keyed => i = j
           /\ \A j \in 1..Len(file) : ~file[j].keyed
    <3> SUFFICES ASSUME NEW q \in H!Procs, NEW i \in 1..Len(open'[q]), open'[q][i].keyed
                 PROVE  /\ \A j \in 1..Len(open'[q]) : open'[q][j].keyed => i = j
                        /\ \A j \in 1..Len(file) : ~file[j].keyed
      OBVIOUS
    <3>1. q = p
      BY <1>3
    <3> QED
      BY <3>1, <2>2
  <2>4. \A i, j \in 1..Len(file) : file[i].keyed /\ file[j].keyed => i = j
    BY <2>1 DEF OncePython, OneRow
  <2> QED
    BY <2>3, <2>4, <1>1 DEF OneRow
<1>9. ASSUME NEW d \in Keyed, at'[d] = "missed", d \notin overtaken'
      PROVE  StillMissing(d)'
  <2>1. d \in Recorders /\ d # c /\ at[d] = "missed" /\ Proc(d) \in H!Procs
    BY <1>5, <1>9, ProcOf DEF H!HistoryAssumption
  <2>2. d \notin overtaken /\ ~(c \in Keyed /\ Proc(d) = p)
    BY <2>1, <1>1, <1>9
  <2>3. StillMissing(d)
    BY <2>1, <2>2 DEF OncePython
  <2>4. \A i \in 1..Len(open'[Proc(d)]) : ~open'[Proc(d)][i].keyed
    <3>1. CASE Proc(d) = p
      BY <3>1, <2>2, <2>3, <1>7 DEF StillMissing
    <3>2. CASE Proc(d) # p
      BY <3>2, <2>1, <1>3
    <3> QED
      BY <3>1, <3>2
  <2> QED
    BY <2>3, <2>4, <1>1 DEF StillMissing
<1> QED
  BY <1>6, <1>8, <1>9 DEF OncePython

LEMMA OnceCommit ==
  ASSUME H!HistoryAssumption, HistoryInv, OncePython, NEW c \in Recorders, H!Commit(c)
  PROVE  OncePython'
<1> DEFINE p == Proc(c)
<1>0. p \in H!Procs
  BY ProcOf
<1>1. /\ at[c] = "inserted" /\ at' = [at EXCEPT ![c] = "idle"]
      /\ file' = file \o open[p]
      /\ open' = [open EXCEPT ![p] = <<>>]
      /\ overtaken' = IF H!Hits(open[p]) = {} THEN overtaken
                      ELSE overtaken \cup {d \in Keyed : at[d] = "missed"}
      /\ raced' = raced
  BY DEF H!Commit, H!Answer, H!Looking
<1>2. /\ file \in Seq(HistoryRows) /\ open[p] \in Seq(HistoryRows) /\ Len(file) \in Nat /\ Len(open[p]) \in Nat
      /\ open'[p] = <<>> /\ \A q \in H!Procs : q # p => open'[q] = open[q]
  BY <1>0, <1>1 DEF HistoryInv, HistoryTypes
<1>3. \A d \in Recorders : IF d = c THEN at'[d] = "idle" ELSE at'[d] = at[d]
  BY <1>1 DEF HistoryInv, HistoryTypes
<1>4. \A i \in 1..Len(file') :
         \/ i \in 1..Len(file) /\ file'[i] = file[i]
         \/ i - Len(file) \in 1..Len(open[p]) /\ file'[i] = open[p][i - Len(file)]
  <2> HIDE DEF p
  <2>1. /\ Len(file') = Len(file) + Len(open[p])
        /\ \A i \in 1..Len(file) : file'[i] = file[i]
        /\ \A i \in 1..Len(file') : i > Len(file) =>
              i - Len(file) \in 1..Len(open[p]) /\ file'[i] = open[p][i - Len(file)]
    BY <1>1, <1>2, CatRows
  <2> TAKE i \in 1..Len(file')
  <2>2. i \in Nat /\ i >= 1
    BY <2>1, <1>2
  <2>3. CASE i <= Len(file)
    BY <2>1, <2>2, <2>3, <1>2
  <2>4. CASE i > Len(file)
    BY <2>1, <2>4
  <2> QED
    BY <2>2, <2>3, <2>4, <1>2
<1>5. OneWriter'
  <2> SUFFICES ASSUME NEW q \in H!Procs, NEW s \in H!Procs, open'[q] # <<>>, open'[s] # <<>>
               PROVE  q = s
    BY DEF OneWriter
  <2>1. open[q] # <<>> /\ open[s] # <<>>
    BY <1>2
  <2> QED
    BY <2>1 DEF OncePython, OneWriter
<1>6. ASSUME ~raced'
      PROVE  OneRow'
  <2>0. OneRow
    BY <1>1, <1>6 DEF OncePython
  <2>1. ASSUME NEW i \in 1..Len(file'), NEW j \in 1..Len(file'), file'[i].keyed, file'[j].keyed
        PROVE  i = j
    <3>1. CASE i \in 1..Len(file) /\ file'[i] = file[i] /\ j \in 1..Len(file) /\ file'[j] = file[j]
      BY <2>0, <2>1, <3>1 DEF OneRow
    <3>2. CASE /\ i - Len(file) \in 1..Len(open[p]) /\ file'[i] = open[p][i - Len(file)]
               /\ j - Len(file) \in 1..Len(open[p]) /\ file'[j] = open[p][j - Len(file)]
      <4>1. i - Len(file) = j - Len(file)
        BY <2>0, <2>1, <3>2, <1>0 DEF OneRow
      <4> QED
        BY <4>1, <1>2
    <3>3. CASE /\ i \in 1..Len(file) /\ file'[i] = file[i]
               /\ j - Len(file) \in 1..Len(open[p]) /\ file'[j] = open[p][j - Len(file)]
      BY <2>0, <2>1, <3>3, <1>0 DEF OneRow
    <3>4. CASE /\ j \in 1..Len(file) /\ file'[j] = file[j]
               /\ i - Len(file) \in 1..Len(open[p]) /\ file'[i] = open[p][i - Len(file)]
      BY <2>0, <2>1, <3>4, <1>0 DEF OneRow
    <3> QED
      BY <3>1, <3>2, <3>3, <3>4, <1>4
  <2>2. ASSUME NEW q \in H!Procs, NEW i \in 1..Len(open'[q]), open'[q][i].keyed
        PROVE  /\ \A j \in 1..Len(open'[q]) : open'[q][j].keyed => i = j
               /\ \A j \in 1..Len(file') : ~file'[j].keyed
    <3>1. q # p /\ open'[q] = open[q]
      BY <1>2
    <3>2. /\ \A j \in 1..Len(open[q]) : open[q][j].keyed => i = j
          /\ \A j \in 1..Len(file) : ~file[j].keyed
      BY <2>0, <2>2, <3>1 DEF OneRow
    <3>3. open[p] = <<>>
      BY <3>1, <1>0 DEF OncePython, OneWriter
    <3> QED
      BY <3>1, <3>2, <3>3, <1>4
  <2> QED
    BY <2>1, <2>2 DEF OneRow
<1>7. ASSUME NEW d \in Keyed, at'[d] = "missed", d \notin overtaken'
      PROVE  StillMissing(d)'
  <2>1. d \in Recorders /\ at[d] = "missed" /\ Proc(d) \in H!Procs
    BY <1>3, <1>7, ProcOf DEF H!HistoryAssumption
  <2>2. d \notin overtaken /\ \A i \in 1..Len(open[p]) : ~open[p][i].keyed
    BY <2>1, <1>1, <1>7 DEF H!Hits
  <2>3. StillMissing(d)
    BY <2>1, <2>2 DEF OncePython
  <2>4. \A i \in 1..Len(file') : ~file'[i].keyed
    BY <2>2, <2>3, <1>4 DEF StillMissing
  <2>5. \A i \in 1..Len(open'[Proc(d)]) : ~open'[Proc(d)][i].keyed
    BY <2>1, <2>3, <1>2 DEF StillMissing
  <2> QED
    BY <2>4, <2>5 DEF StillMissing
<1> QED
  BY <1>5, <1>6, <1>7 DEF OncePython

\* Nothing is added to what is under the key: the caller goes on or back.
LEMMA OnceOthers ==
  ASSUME H!HistoryAssumption, HistoryInv, OncePython, file' = file, raced' = raced,
         \A p \in H!Procs : open'[p] = open[p] \/ open'[p] = <<>>,
         \A c \in Keyed : at'[c] = "missed" /\ c \notin overtaken' => at[c] = "missed" /\ c \notin overtaken
  PROVE  OncePython'
<1>1. \A c \in Keyed : Proc(c) \in H!Procs
  BY ProcOf DEF H!HistoryAssumption
<1>2. \A p \in H!Procs : \A i \in 1..Len(open'[p]) : open'[p] = open[p] /\ i \in 1..Len(open[p])
  OBVIOUS
<1>3. OneWriter'
  BY DEF OncePython, OneWriter
<1>4. ASSUME ~raced'
      PROVE  OneRow'
  <2>0. OneRow
    BY <1>4 DEF OncePython
  <2>1. ASSUME NEW p \in H!Procs, NEW i \in 1..Len(open'[p]), open'[p][i].keyed
        PROVE  /\ \A j \in 1..Len(open'[p]) : open'[p][j].keyed => i = j
               /\ \A j \in 1..Len(file) : ~file[j].keyed
    <3>1. open'[p] = open[p]
      BY <1>2
    <3> QED
      BY <2>0, <2>1, <3>1 DEF OneRow
  <2> QED
    BY <2>0, <2>1 DEF OneRow
<1>5. ASSUME NEW c \in Keyed, at'[c] = "missed", c \notin overtaken'
      PROVE  StillMissing(c)'
  <2>1. StillMissing(c)
    BY <1>5 DEF OncePython
  <2> QED
    BY <2>1, <1>1, <1>2 DEF StillMissing
<1> QED
  BY <1>3, <1>4, <1>5 DEF OncePython

LEMMA OncePythonNext ==
  ASSUME H!HistoryAssumption, HistoryInv, OncePython, ~node, [H!Next]_(H!vars)
  PROVE  OncePython'
<1>1. ASSUME NEW c \in Recorders, H!Record(c)
      PROVE  OncePython'
  <2>1. /\ c \notin Keyed /\ UNCHANGED <<file, open, overtaken, raced>>
        /\ at' = [at EXCEPT ![c] = "missed"]
    BY <1>1 DEF H!Record
  <2>2. \A d \in Keyed : at'[d] = at[d]
    BY <2>1 DEF HistoryInv, HistoryTypes, H!HistoryAssumption
  <2> QED
    BY <2>1, <2>2, OnceOthers
<1>2. ASSUME NEW c \in Recorders, H!InsertFails(c)
      PROVE  OncePython'
  <2>1. /\ UNCHANGED <<file, open, raced>> /\ at' = [at EXCEPT ![c] = "idle"]
        /\ overtaken' = overtaken \ {c}
    BY <1>2 DEF H!InsertFails, H!Answer
  <2>2. \A d \in Keyed : at'[d] = "missed" /\ d \notin overtaken' => at[d] = "missed" /\ d \notin overtaken
    BY <2>1 DEF HistoryInv, HistoryTypes, H!HistoryAssumption
  <2> QED
    BY <2>1, <2>2, OnceOthers
<1>3. ASSUME NEW p \in H!Procs, H!Restart(p)
      PROVE  OncePython'
  <2>1. /\ UNCHANGED <<file, raced>> /\ open' = [open EXCEPT ![p] = <<>>]
        /\ at' = [c \in Recorders |-> IF Proc(c) = p THEN "idle" ELSE at[c]]
        /\ overtaken' = {c \in overtaken : Proc(c) # p}
    BY <1>3 DEF H!Restart
  <2>2. \A q \in H!Procs : open'[q] = open[q] \/ open'[q] = <<>>
    BY <2>1 DEF HistoryInv, HistoryTypes
  <2>3. \A d \in Keyed : at'[d] = "missed" /\ d \notin overtaken' => at[d] = "missed" /\ d \notin overtaken
    BY <2>1 DEF H!HistoryAssumption
  <2> QED
    BY <2>1, <2>2, <2>3, OnceOthers
<1>4. CASE UNCHANGED <<file, open, at, overtaken, raced>>
  BY <1>4, OnceOthers
<1>5. \/ \E c \in Recorders : H!Select(c) \/ H!Record(c) \/ H!Insert(c) \/ H!InsertFails(c) \/ H!Commit(c)
      \/ \E p \in H!Procs : H!Restart(p)
      \/ UNCHANGED <<file, open, at, overtaken, raced>>
  BY DEF H!Next, H!vars, H!GetStore, H!RecordIdempotent, H!NodeRecord
<1> QED
  BY <1>1, <1>2, <1>3, <1>4, <1>5, OnceSelect, OnceInsert, OnceCommit

\* Node's steps.
LEMMA SeenNothing ==
  ASSUME H!HistoryAssumption, HistoryInv, OnceNode, NEW c \in Keyed, H!SeenKeys(Proc(c)) = "none",
         c \notin overtaken
  PROVE  Unsure(file)
<1>1. file \in Seq(HistoryRows)
  BY DEF HistoryInv, HistoryTypes
<1>2. CASE seen[Proc(c)] = "unseeded"
  <2>1. H!Seed = "none"
    BY <1>2 DEF H!SeenKeys, H!Unseeded
  <2>2. ASSUME H!KeptLines # {}
        PROVE  FALSE
    <3>1. PICK i \in H!KeptLines : file[i].payload = "none"
      BY <1>1, <2>1, <2>2, SeedIsLine
    <3>2. i \in 1..Len(file)
      BY DEF H!KeptLines, H!Lines
    <3>3. file[i] \in HistoryRows
      BY <3>2, <1>1
    <3> QED
      BY <3>1, <3>3 DEF HistoryRows, Contents, H!HistoryAssumption, H!NoPayload
  <2>3. KeptOf(file) = {}
    BY <2>2, <1>1, KeptLinesOf
  <2> QED
    BY <2>3 DEF Unsure
<1>3. CASE seen[Proc(c)] # "unseeded"
  BY <1>3 DEF H!SeenKeys, H!Unseeded, OnceNode
<1> QED
  BY <1>2, <1>3

\* What an append does to the lines that are read: r is what was written, if
\* anything was.
LEMMA AppendedRow ==
  ASSUME HistoryInv, NEW c \in Recorders, NEW new \in Contents, H!AppendLine(c, new)
  PROVE  \/ /\ file' = file
            /\ UNCHANGED <<overtaken, raced>>
            /\ seen' = [seen EXCEPT ![Proc(c)] = IF c \in Keyed THEN H!SeenKeys(Proc(c)) ELSE @]
         \/ \E r \in HistoryRows :
               /\ file' = Append(file, r)
               /\ r.keyed => c \in Keyed
               /\ IF r.keyed
                  THEN /\ overtaken' = overtaken \cup
                              {d \in Keyed : Proc(d) # Proc(c) /\ seen[Proc(d)] = "none"}
                       /\ raced' = (raced \/ c \in overtaken)
                  ELSE UNCHANGED <<overtaken, raced>>
               /\ \/ seen' = [seen EXCEPT ![Proc(c)] = IF c \in Keyed THEN new ELSE @]
                  \/ /\ ~r.ended
                     /\ seen' = [seen EXCEPT ![Proc(c)] = IF c \in Keyed THEN H!SeenKeys(Proc(c)) ELSE @]
<1> DEFINE k == c \in Keyed
           whole == H!Row(k, new)
           cut == H!Unended(k, new)
<1>0. k \in BOOLEAN
  OBVIOUS
<1>1. /\ whole \in HistoryRows /\ whole.keyed = k
      /\ cut \in HistoryRows /\ cut.keyed = k /\ ~cut.ended
  BY <1>0, RowType, UnendedType
<1>2. H!Torn \in HistoryRows /\ H!Torn.keyed = FALSE /\ H!Torn.ended = FALSE
  BY TornType DEF H!Torn
<1>3. \/ /\ file' = Append(file, whole) /\ H!Overtakes(c)
         /\ seen' = [seen EXCEPT ![Proc(c)] = IF c \in Keyed THEN new ELSE @]
      \/ /\ \/ file' \in {file, Append(file, H!Torn)} /\ UNCHANGED <<overtaken, raced>>
            \/ file' = Append(file, cut) /\ H!Overtakes(c)
         /\ seen' = [seen EXCEPT ![Proc(c)] = IF c \in Keyed THEN H!SeenKeys(Proc(c)) ELSE @]
  BY DEF H!AppendLine, H!looks
<1>4. H!Overtakes(c) => IF k THEN /\ overtaken' = overtaken \cup
                                        {d \in Keyed : Proc(d) # Proc(c) /\ seen[Proc(d)] = "none"}
                                  /\ raced' = (raced \/ c \in overtaken)
                             ELSE UNCHANGED <<overtaken, raced>>
  BY DEF H!Overtakes, H!NoPayload, H!looks
<1> HIDE DEF whole, cut
<1>5. CASE file' = file /\ UNCHANGED <<overtaken, raced>>
           /\ seen' = [seen EXCEPT ![Proc(c)] = IF c \in Keyed THEN H!SeenKeys(Proc(c)) ELSE @]
  BY <1>5
<1>6. CASE file' = Append(file, H!Torn) /\ UNCHANGED <<overtaken, raced>>
           /\ seen' = [seen EXCEPT ![Proc(c)] = IF c \in Keyed THEN H!SeenKeys(Proc(c)) ELSE @]
  BY <1>6, <1>2
<1>7. CASE file' = Append(file, whole) /\ H!Overtakes(c)
           /\ seen' = [seen EXCEPT ![Proc(c)] = IF c \in Keyed THEN new ELSE @]
  BY <1>7, <1>1, <1>4
<1>8. CASE file' = Append(file, cut) /\ H!Overtakes(c)
           /\ seen' = [seen EXCEPT ![Proc(c)] = IF c \in Keyed THEN H!SeenKeys(Proc(c)) ELSE @]
  BY <1>8, <1>1, <1>4
<1> QED
  BY <1>3, <1>5, <1>6, <1>7, <1>8

LEMMA OnceAppendLine ==
  ASSUME H!HistoryAssumption, HistoryInv, OnceNode,
         NEW c \in Recorders, NEW new \in Contents, H!AppendLine(c, new),
         c \in Keyed => H!SeenKeys(Proc(c)) = "none" /\ new \in Payloads
  PROVE  OnceNode'
<1> DEFINE p == Proc(c)
<1>0. /\ p \in H!Procs /\ file \in Seq(HistoryRows)
      /\ \A d \in Keyed : d \in Recorders /\ Proc(d) \in H!Procs
  BY ProcOf DEF HistoryInv, HistoryTypes, H!HistoryAssumption
\* A process whose cache holds no row and was not overtaken is not sure yet.
<1>1. ASSUME NEW d \in Keyed, d \notin overtaken,
             seen[Proc(d)] = "none" \/ (c \in Keyed /\ Proc(d) = p)
      PROVE  Unsure(file)
  <2>1. CASE seen[Proc(d)] = "none"
    BY <2>1, <1>1 DEF OnceNode
  <2>2. CASE c \in Keyed /\ Proc(d) = p
    BY <2>2, <1>1, SeenNothing
  <2> QED
    BY <1>1, <2>1, <2>2
<1>2. CASE /\ file' = file
           /\ UNCHANGED <<overtaken, raced>>
           /\ seen' = [seen EXCEPT ![Proc(c)] = IF c \in Keyed THEN H!SeenKeys(Proc(c)) ELSE @]
  <2>1. ASSUME NEW d \in Keyed, seen'[Proc(d)] = "none", d \notin overtaken'
        PROVE  Unsure(file)
    <3>1. seen[Proc(d)] = "none" \/ (c \in Keyed /\ Proc(d) = p)
      BY <1>2, <2>1, <1>0 DEF HistoryInv, HistoryTypes
    <3> QED
      BY <3>1, <2>1, <1>1, <1>2
  <2> QED
    BY <2>1, <1>2 DEF OnceNode, Unsure, KeptOf
<1>3. ASSUME NEW r \in HistoryRows,
             file' = Append(file, r),
             r.keyed => c \in Keyed,
             IF r.keyed
             THEN /\ overtaken' = overtaken \cup {d \in Keyed : Proc(d) # p /\ seen[Proc(d)] = "none"}
                  /\ raced' = (raced \/ c \in overtaken)
             ELSE UNCHANGED <<overtaken, raced>>,
             \/ seen' = [seen EXCEPT ![p] = IF c \in Keyed THEN new ELSE @]
             \/ /\ ~r.ended
                /\ seen' = [seen EXCEPT ![p] = IF c \in Keyed THEN H!SeenKeys(p) ELSE @]
      PROVE  OnceNode'
  <2>1. /\ file' \in Seq(HistoryRows) /\ Len(file') = Len(file) + 1 /\ Len(file) \in Nat
        /\ file'[Len(file) + 1] = r
        /\ \A i \in KeptOf(file') : \/ i = Len(file) + 1 /\ r.keyed
                                    \/ i \in KeptOf(file) /\ file[i].ended
    BY <1>0, <1>3, KeptAppend
  <2>2. Unsure(file) => \A i \in KeptOf(file') : i = Len(file) + 1 /\ r.keyed
    BY <2>1 DEF Unsure
  <2>3. ASSUME ~raced', NEW i \in KeptOf(file'), NEW j \in KeptOf(file')
        PROVE  i = j
    <3>1. CASE r.keyed
      <4>1. c \in Keyed /\ c \notin overtaken
        BY <3>1, <2>3, <1>3
      <4>2. Unsure(file)
        BY <4>1, <1>1
      <4> QED
        BY <4>2, <2>2
    <3>2. CASE ~r.keyed
      <4>1. ~raced
        BY <3>2, <2>3, <1>3
      <4> QED
        BY <4>1, <3>2, <2>1 DEF OnceNode
    <3> QED
      BY <3>1, <3>2
  <2>4. ASSUME NEW d \in Keyed, seen'[Proc(d)] = "none", d \notin overtaken'
        PROVE  Unsure(file')
    <3>1. d \notin overtaken
      BY <2>4, <1>3
    <3>2. CASE Proc(d) # p
      <4>1. seen[Proc(d)] = "none"
        BY <3>2, <2>4, <1>0, <1>3 DEF HistoryInv, HistoryTypes
      <4>2. ~r.keyed
        BY <4>1, <3>2, <2>4, <1>3
      <4>3. Unsure(file)
        BY <3>1, <4>1, <1>1
      <4> QED
        BY <4>2, <4>3, <2>2 DEF Unsure
    <3>3. CASE Proc(d) = p /\ c \notin Keyed
      <4>1. seen[Proc(d)] = "none"
        BY <3>3, <2>4, <1>0, <1>3 DEF HistoryInv, HistoryTypes
      <4>2. ~r.keyed
        BY <3>3, <1>3
      <4>3. Unsure(file)
        BY <3>1, <4>1, <1>1
      <4> QED
        BY <4>2, <4>3, <2>2 DEF Unsure
    <3>4. CASE Proc(d) = p /\ c \in Keyed
      <4>1. new # "none"
        BY <3>4 DEF H!HistoryAssumption, H!NoPayload
      <4>2. ~r.ended
        BY <3>4, <4>1, <2>4, <1>0, <1>3 DEF HistoryInv, HistoryTypes
      <4>3. Unsure(file)
        BY <3>1, <3>4, <1>1
      <4> QED
        BY <4>2, <4>3, <2>1, <2>2 DEF Unsure
    <3> QED
      BY <3>2, <3>3, <3>4
  <2> QED
    BY <2>3, <2>4 DEF OnceNode, Unsure, KeptOf
<1> QED
  BY <1>2, <1>3, AppendedRow

LEMMA OnceNodeNext ==
  ASSUME H!HistoryAssumption, HistoryInv, OnceNode, node, [H!Next]_(H!vars)
  PROVE  OnceNode'
<1>0. \A c \in Keyed : c \in Recorders /\ Proc(c) \in H!Procs
  BY ProcOf DEF H!HistoryAssumption
<1>1. ASSUME NEW c \in Recorders, H!RecordIdempotent(c)
      PROVE  OnceNode'
  <2>1. CASE H!SeenKeys(Proc(c)) = "none"
    <3>1. PICK new \in Payloads : H!AppendLine(c, new)
      BY <1>1, <2>1 DEF H!RecordIdempotent, H!NoPayload
    <3> QED
      BY <2>1, <3>1, OnceAppendLine DEF Contents
  <2>2. CASE H!SeenKeys(Proc(c)) # "none"
    <3>1. UNCHANGED <<file, overtaken, raced>> /\ seen' = [seen EXCEPT ![Proc(c)] = H!SeenKeys(Proc(c))]
      BY <1>1, <2>2 DEF H!RecordIdempotent, H!NoPayload
    <3>2. \A d \in Keyed : seen'[Proc(d)] = "none" => seen[Proc(d)] = "none"
      BY <3>1, <2>2, <1>0 DEF HistoryInv, HistoryTypes
    <3> QED
      BY <3>1, <3>2 DEF OnceNode, KeptOf, Unsure
  <2> QED
    BY <2>1, <2>2
<1>2. ASSUME NEW c \in Recorders, H!NodeRecord(c)
      PROVE  OnceNode'
  <2>1. H!AppendLine(c, "plain") /\ c \notin Keyed
    BY <1>2 DEF H!NodeRecord, H!Plain
  <2> QED
    BY <2>1, OnceAppendLine DEF Contents
<1>3. ASSUME NEW p \in H!Procs, H!Restart(p)
      PROVE  OnceNode'
  <2>1. /\ UNCHANGED <<file, raced>> /\ seen' = [seen EXCEPT ![p] = "unseeded"]
        /\ overtaken' = {c \in overtaken : Proc(c) # p}
    BY <1>3 DEF H!Restart, H!Unseeded
  <2>2. \A d \in Keyed : seen'[Proc(d)] = "none" /\ d \notin overtaken' =>
                         seen[Proc(d)] = "none" /\ d \notin overtaken
    BY <2>1, <1>0 DEF HistoryInv, HistoryTypes
  <2> QED
    BY <2>1, <2>2 DEF OnceNode, KeptOf, Unsure
<1>4. CASE UNCHANGED <<file, seen, overtaken, raced>>
  BY <1>4 DEF OnceNode, KeptOf, Unsure
<1>5. ASSUME NEW c \in Recorders, H!Insert(c) \/ H!InsertFails(c) \/ H!Commit(c)
      PROVE  FALSE
  BY <1>5 DEF H!Insert, H!InsertFails, H!Commit, HistoryInv, Inserted
<1>6. \/ \E c \in Recorders : \/ H!RecordIdempotent(c) \/ H!NodeRecord(c)
                              \/ H!Insert(c) \/ H!InsertFails(c) \/ H!Commit(c)
      \/ \E p \in H!Procs : H!Restart(p)
      \/ UNCHANGED <<file, seen, overtaken, raced>>
  BY DEF H!Next, H!vars, H!GetStore, H!Select, H!Record
<1> QED
  BY <1>1, <1>2, <1>3, <1>4, <1>5, <1>6

LEMMA SdkStays == [H!Next]_(H!vars) => node' = node
BY DEF H!Next, H!vars, H!GetStore, H!Restart, H!Select, H!Record, H!Insert, H!InsertFails, H!Commit,
       H!RecordIdempotent, H!NodeRecord

LEMMA OnceNext ==
  ASSUME H!HistoryAssumption
  PROVE  HistoryInv /\ OnceInv /\ [H!Next]_(H!vars) => OnceInv'
BY OncePythonNext, OnceNodeNext, SdkStays DEF OnceInv

\* A set without two members has one at most.
LEMMA AtMostOne ==
  ASSUME NEW S, \A i, j \in S : i = j
  PROVE  Cardinality(S) <= 1
<1>1. CASE S = {}
  BY <1>1, FS_EmptySet
<1>2. CASE S # {}
  <2>1. PICK x \in S : S = {x}
    BY <1>2
  <2>2. Cardinality(S) = 1
    BY <2>1, FS_Singleton
  <2> QED
    BY <2>2
<1> QED
  BY <1>1, <1>2

LEMMA SameCardinality == \A S : H!Cardinality(S) = Cardinality(S)
BY DEF H!Cardinality, Cardinality

\* The key is kept once, for any number of callers in any number of processes
\* and threads that use it or record beside it, until one appends that was
\* overtaken (record_idempotent, recordIdempotent).
THEOREM KeyOnce == H!Spec => []AppendsOnce
<1> USE HistoryAssumption
<1>1. HistoryInv /\ OnceInv => AppendsOnce
  <2> SUFFICES ASSUME HistoryInv, OnceInv, ~raced
               PROVE  H!Cardinality(H!Kept) <= 1
    BY DEF AppendsOnce, H!AppendsOnce
  <2>1. CASE node
    <3>1. \A i, j \in H!KeptLines : i = j
      BY <2>1, KeptLinesOf DEF OnceInv, OnceNode, HistoryInv, HistoryTypes
    <3>2. Cardinality(H!KeptLines) <= 1
      BY <3>1, AtMostOne
    <3> QED
      BY <2>1, <3>2, SameCardinality DEF H!Kept
  <2>2. CASE ~node
    <3>1. \A i, j \in H!Hits(file) : i = j
      BY <2>2 DEF OnceInv, OncePython, OneRow, H!Hits
    <3>2. Cardinality(H!Hits(file)) <= 1
      BY <3>1, AtMostOne
    <3> QED
      BY <2>2, <3>2, SameCardinality DEF H!Kept
  <2> QED
    BY <2>1, <2>2 DEF HistoryInv, HistoryTypes
<1> QED
  BY <1>1, OnceInit, OnceNext, HistoryAlways, PTL DEF H!Spec

-----------------------------------------------------------------------------
(* The reader of decisions.                                                 *)

\* w is the first of the most severe of the first n parts.
IsFirstMost(parts, n, w) ==
    /\ w \in 1..n
    /\ \A i \in 1..n : parts[i].outcome <= parts[w].outcome
    /\ \A i \in 1..n : i < w => parts[i].outcome < parts[w].outcome

Ranked(parts) == \A i \in 1..Len(parts) : parts[i].outcome \in 1..5

\* The next part takes its place when it is more severe.
LEMMA FirstMostNext ==
  ASSUME NEW parts, NEW n \in Nat \ {0}, NEW w, IsFirstMost(parts, n, w),
         \A i \in 1..n + 1 : parts[i].outcome \in 1..5
  PROVE  IsFirstMost(parts, n + 1, IF parts[n + 1].outcome > parts[w].outcome THEN n + 1 ELSE w)
<1>1. w \in 1..n + 1 /\ \A i \in 1..n + 1 : i \in 1..n \/ i = n + 1
  BY DEF IsFirstMost
<1>2. CASE parts[n + 1].outcome > parts[w].outcome
  <2>1. \A i \in 1..n : parts[i].outcome < parts[n + 1].outcome
    BY <1>1, <1>2 DEF IsFirstMost
  <2> QED
    BY <1>1, <1>2, <2>1 DEF IsFirstMost
<1>3. CASE ~(parts[n + 1].outcome > parts[w].outcome)
  <2>1. parts[n + 1].outcome <= parts[w].outcome
    BY <1>1, <1>3
  <2> QED
    BY <1>1, <1>3, <2>1 DEF IsFirstMost
<1> QED
  BY <1>2, <1>3

\* The first part is the most severe of one.
LEMMA FirstMostOne ==
  ASSUME NEW parts, NEW w, parts[1].outcome \in 1..5
  PROVE  IsFirstMost(parts, 1, 1)
BY DEF IsFirstMost

\* There is one first.
LEMMA FirstMostUnique ==
  ASSUME NEW parts, NEW n \in Nat, NEW v, NEW w, IsFirstMost(parts, n, v), IsFirstMost(parts, n, w),
         \A i \in 1..n : parts[i].outcome \in 1..5
  PROVE  v = w
<1>1. ~(v < w) /\ ~(w < v)
  BY DEF IsFirstMost
<1> QED
  BY <1>1 DEF IsFirstMost

\* There is a first at every length: the least length without one would be a
\* step beyond a length that has one.
LEMMA FirstMostExists ==
  ASSUME NEW parts, NEW n \in Nat, \A i \in 1..n : parts[i].outcome \in 1..5
  PROVE  \A i \in 1..n : \E w \in 1..i : IsFirstMost(parts, i, w)
<1> DEFINE S == {i \in 1..n : ~\E w \in 1..i : IsFirstMost(parts, i, w)}
<1> SUFFICES ASSUME S # {}
             PROVE  FALSE
  OBVIOUS
<1>1. S \in SUBSET Nat
  OBVIOUS
<1>2. PICK m \in S : \A i \in S : m <= i
  <2> HIDE DEF S
  <2> QED
    BY <1>1, LeastNatural
<1>3. m # 1
  BY <1>2, FirstMostOne
<1>4. m - 1 \in 1..n /\ m - 1 \notin S /\ m - 1 \in Nat \ {0}
  BY <1>2, <1>3
<1>5. PICK w \in 1..m - 1 : IsFirstMost(parts, m - 1, w)
  BY <1>4
<1>6. \A i \in 1..(m - 1) + 1 : parts[i].outcome \in 1..5
  BY <1>2
<1>7. IsFirstMost(parts, (m - 1) + 1, IF parts[(m - 1) + 1].outcome > parts[w].outcome THEN (m - 1) + 1 ELSE w)
  BY <1>4, <1>5, <1>6, FirstMostNext
<1>8. (m - 1) + 1 = m
  BY <1>2
<1>9. \E v \in 1..m : IsFirstMost(parts, m, v)
  BY <1>7, <1>8 DEF IsFirstMost
<1> QED
  BY <1>2, <1>9

\* The loop that carries an index.
LEMMA WinnerIsFirst ==
  ASSUME NEW parts, Len(parts) \in Nat, Ranked(parts)
  PROVE  IF Len(parts) = 0 THEN R!Winner(parts) = 0 ELSE IsFirstMost(parts, Len(parts), R!Winner(parts))
<1> DEFINE n == Len(parts)
           Body(f, i) == IF i = 0 THEN 0
                         ELSE IF f[i - 1] = 0 \/ parts[i].outcome > parts[f[i - 1]].outcome
                         THEN i ELSE f[i - 1]
           winner[i \in 0..n] == IF i = 0 THEN 0
                                 ELSE IF winner[i - 1] = 0 \/ parts[i].outcome > parts[winner[i - 1]].outcome
                                 THEN i ELSE winner[i - 1]
           first == [i \in 0..n |-> IF i = 0 THEN 0 ELSE CHOOSE w \in 1..i : IsFirstMost(parts, i, w)]
<1>1. R!Winner(parts) = winner[n]
  BY DEF R!Winner
<1>2. \A i \in 1..n : parts[i].outcome \in 1..5
  BY DEF Ranked
<1>3. \A i \in 1..n : IsFirstMost(parts, i, first[i])
  <2> TAKE i \in 1..n
  <2>1. \E w \in 1..i : IsFirstMost(parts, i, w)
    BY <1>2, FirstMostExists
  <2>2. first[i] = CHOOSE w \in 1..i : IsFirstMost(parts, i, w)
    OBVIOUS
  <2> HIDE DEF first
  <2> QED
    BY <2>1, <2>2
<1>4. first[0] = 0
  OBVIOUS
<1>5. \A i \in 1..n : first[i] = Body(first, i)
  <2> SUFFICES ASSUME NEW i \in 1..n
               PROVE  first[i] = Body(first, i)
    OBVIOUS
  <2> HIDE DEF first
  <2>1. CASE i = 1
    <3>1. IsFirstMost(parts, 1, first[1])
      BY <2>1, <1>3
    <3>2. first[1] = 1
      BY <3>1 DEF IsFirstMost
    <3> QED
      BY <2>1, <3>2, <1>4
  <2>2. CASE i # 1
    <3>1. i - 1 \in 1..n /\ i - 1 \in Nat \ {0} /\ (i - 1) + 1 = i
      BY <2>2
    <3>2. IsFirstMost(parts, i - 1, first[i - 1])
      BY <3>1, <1>3
    <3>3. \A j \in 1..(i - 1) + 1 : parts[j].outcome \in 1..5
      BY <3>1, <1>2
    <3> DEFINE w == IF parts[i].outcome > parts[first[i - 1]].outcome THEN i ELSE first[i - 1]
    <3>4. IsFirstMost(parts, i, w)
      <4>1. IsFirstMost(parts, (i - 1) + 1,
                        IF parts[(i - 1) + 1].outcome > parts[first[i - 1]].outcome THEN (i - 1) + 1
                        ELSE first[i - 1])
        BY <3>1, <3>2, <3>3, FirstMostNext
      <4> QED
        BY <4>1, <3>1
    <3>5. first[i] = w
      <4> HIDE DEF w
      <4>1. IsFirstMost(parts, i, first[i]) /\ i \in Nat /\ \A j \in 1..i : parts[j].outcome \in 1..5
        BY <1>2, <1>3
      <4> QED
        BY <4>1, <3>4, FirstMostUnique
    <3>6. first[i - 1] # 0
      BY <3>2 DEF IsFirstMost
    <3> QED
      BY <3>5, <3>6, <3>1
  <2> QED
    BY <2>1, <2>2
<1>6. first = [i \in 0..n |-> Body(first, i)]
  <2>1. first = [i \in 0..n |-> first[i]]
    OBVIOUS
  <2> HIDE DEF first
  <2>2. \A i \in 0..n : first[i] = Body(first, i)
    <3>1. first[0] = Body(first, 0)
      BY <1>4
    <3> HIDE DEF Body
    <3>2. \A i \in 0..n : i = 0 \/ i \in 1..n
      OBVIOUS
    <3> QED
      BY <3>1, <3>2, <1>5
  <2> HIDE DEF Body
  <2> QED
    BY <2>1, <2>2
<1>7. winner = [i \in 0..n |-> Body(winner, i)]
  <2>1. \E f : f = [i \in 0..n |-> Body(f, i)]
    <3> HIDE DEF first, Body
    <3> QED
      BY <1>6
  <2> QED
    BY <2>1
<1>8. \A i \in 1..n : IsFirstMost(parts, i, winner[i])
  <2> DEFINE S == {i \in 1..n : ~IsFirstMost(parts, i, winner[i])}
  <2> SUFFICES ASSUME S # {}
               PROVE  FALSE
    OBVIOUS
  <2>1. PICK m \in S : \A i \in S : m <= i
    <3>1. S \in SUBSET Nat
      OBVIOUS
    <3> HIDE DEF S
    <3> QED
      BY <3>1, LeastNatural
  <2> HIDE DEF winner
  <2>2. winner[0] = 0 /\ \A i \in 1..n : winner[i] = Body(winner, i)
    <3>1. \A i \in 0..n : winner[i] = Body(winner, i)
      <4> HIDE DEF Body
      <4> QED
        BY <1>7
    <3> QED
      BY <3>1
  <2>3. m \in 1..n /\ ~IsFirstMost(parts, m, winner[m])
    BY <2>1
  <2>4. CASE m = 1
    <3>1. winner[1] = 1
      BY <2>2, <2>3, <2>4
    <3> QED
      BY <3>1, <2>3, <2>4, <1>2, FirstMostOne
  <2>5. CASE m # 1
    <3>1. m - 1 \in 1..n /\ m - 1 \in Nat \ {0} /\ (m - 1) + 1 = m
      BY <2>3, <2>5
    <3>2. IsFirstMost(parts, m - 1, winner[m - 1])
      BY <3>1, <2>1
    <3>3. winner[m - 1] # 0
      BY <3>2 DEF IsFirstMost
    <3>4. winner[m] = IF parts[m].outcome > parts[winner[m - 1]].outcome THEN m ELSE winner[m - 1]
      BY <2>2, <2>3, <3>3
    <3>5. \A j \in 1..(m - 1) + 1 : parts[j].outcome \in 1..5
      BY <3>1, <1>2
    <3>6. IsFirstMost(parts, (m - 1) + 1,
                      IF parts[(m - 1) + 1].outcome > parts[winner[m - 1]].outcome THEN (m - 1) + 1
                      ELSE winner[m - 1])
      BY <3>1, <3>2, <3>5, FirstMostNext
    <3> QED
      BY <3>1, <3>4, <3>6, <2>3
  <2> QED
    BY <2>4, <2>5
<1>9. winner[0] = 0
  <2> HIDE DEF winner
  <2> QED
    BY <1>7
<1> HIDE DEF winner
<1> QED
  BY <1>1, <1>8, <1>9

\* The loop that carries an index and its severity finds the same part.
LEMMA NodeWinnerIsFirst ==
  ASSUME NEW parts, Len(parts) \in Nat, Ranked(parts)
  PROVE  IF Len(parts) = 0 THEN R!NodeWinner(parts) = 0
         ELSE IsFirstMost(parts, Len(parts), R!NodeWinner(parts))
<1> DEFINE n == Len(parts)
           Body(f, i) == IF i = 0 THEN [winner |-> 0, rank |-> -1]
                         ELSE IF parts[i].outcome > f[i - 1].rank
                         THEN [winner |-> i, rank |-> parts[i].outcome] ELSE f[i - 1]
           held[i \in 0..n] == IF i = 0 THEN [winner |-> 0, rank |-> -1]
                               ELSE IF parts[i].outcome > held[i - 1].rank
                               THEN [winner |-> i, rank |-> parts[i].outcome] ELSE held[i - 1]
           At(w) == [winner |-> w, rank |-> parts[w].outcome]
           first == [i \in 0..n |-> IF i = 0 THEN [winner |-> 0, rank |-> -1]
                                    ELSE At(CHOOSE w \in 1..i : IsFirstMost(parts, i, w))]
           Holds(i, h) == \E w \in 1..i : h = At(w) /\ IsFirstMost(parts, i, w)
<1>1. R!NodeWinner(parts) = held[n].winner
  BY DEF R!NodeWinner
<1>2. \A i \in 1..n : parts[i].outcome \in 1..5
  BY DEF Ranked
\* One step of the loop, from any table.
<1>3. ASSUME NEW f, f[0] = [winner |-> 0, rank |-> -1]
      PROVE  Holds(1, Body(f, 1)) \/ n = 0
  <2> SUFFICES ASSUME n # 0
               PROVE  Holds(1, Body(f, 1))
    OBVIOUS
  <2>1. parts[1].outcome \in 1..5
    BY <1>2
  <2>2. Body(f, 1) = At(1)
    BY <2>1, <1>3
  <2> QED
    BY <2>1, <2>2, FirstMostOne
<1>4. ASSUME NEW f, NEW i \in 1..n, i # 1, Holds(i - 1, f[i - 1])
      PROVE  Holds(i, Body(f, i))
  <2>1. i - 1 \in Nat \ {0} /\ (i - 1) + 1 = i
    BY <1>4
  <2>2. PICK w \in 1..i - 1 : f[i - 1] = At(w) /\ IsFirstMost(parts, i - 1, w)
    BY <1>4
  <2>3. \A j \in 1..(i - 1) + 1 : parts[j].outcome \in 1..5
    BY <2>1, <1>2
  <2>4. IsFirstMost(parts, (i - 1) + 1,
                    IF parts[(i - 1) + 1].outcome > parts[w].outcome THEN (i - 1) + 1 ELSE w)
    BY <2>1, <2>2, <2>3, FirstMostNext
  <2>5. Body(f, i) = IF parts[i].outcome > parts[w].outcome THEN At(i) ELSE At(w)
    BY <2>2
  <2>6. i \in 1..i /\ w \in 1..i
    BY <2>1
  <2> HIDE DEF Body, At
  <2> QED
    BY <2>1, <2>4, <2>5, <2>6
<1>5. \A i \in 1..n : \A g, h : Holds(i, g) /\ Holds(i, h) => g = h
  BY <1>2, FirstMostUnique
<1>6. \A i \in 1..n : Holds(i, first[i])
  <2> SUFFICES ASSUME NEW i \in 1..n
               PROVE  Holds(i, first[i])
    OBVIOUS
  <2>1. \E w \in 1..i : IsFirstMost(parts, i, w)
    BY <1>2, FirstMostExists
  <2> DEFINE v == CHOOSE w \in 1..i : IsFirstMost(parts, i, w)
  <2>2. v \in 1..i /\ IsFirstMost(parts, i, v)
    BY <2>1
  <2>3. first[i] = At(v)
    OBVIOUS
  <2> HIDE DEF first, v, At
  <2> QED
    BY <2>2, <2>3
<1>7. first[0] = [winner |-> 0, rank |-> -1]
  OBVIOUS
<1>8. first = [i \in 0..n |-> Body(first, i)]
  <2>1. first = [i \in 0..n |-> first[i]]
    OBVIOUS
  <2> HIDE DEF first
  <2>2. first[0] = Body(first, 0)
    BY <1>7
  <2>3. \A i \in 1..n : Holds(i, Body(first, i))
    <3> TAKE i \in 1..n
    <3>1. CASE i = 1
      BY <3>1, <1>3, <1>7
    <3>2. CASE i # 1
      <4>1. i - 1 \in 1..n
        BY <3>2
      <4> HIDE DEF Holds, Body
      <4> QED
        BY <4>1, <3>2, <1>4, <1>6
    <3> QED
      BY <3>1, <3>2
  <2> HIDE DEF Holds, Body
  <2>4. \A i \in 1..n : first[i] = Body(first, i)
    BY <2>3, <1>5, <1>6
  <2>5. \A i \in 0..n : i = 0 \/ i \in 1..n
    OBVIOUS
  <2>6. \A i \in 0..n : first[i] = Body(first, i)
    BY <2>2, <2>4, <2>5
  <2> QED
    BY <2>1, <2>6
<1>9. held = [i \in 0..n |-> Body(held, i)]
  <2>1. \E f : f = [i \in 0..n |-> Body(f, i)]
    <3> HIDE DEF first, Body
    <3> QED
      BY <1>8
  <2> QED
    BY <2>1
<1> HIDE DEF held, first
<1>10. held[0] = [winner |-> 0, rank |-> -1] /\ \A i \in 1..n : held[i] = Body(held, i)
  <2>1. \A i \in 0..n : held[i] = Body(held, i)
    <3> HIDE DEF Body
    <3> QED
      BY <1>9
  <2>2. Body(held, 0) = [winner |-> 0, rank |-> -1]
    OBVIOUS
  <2>3. 0 \in 0..n /\ 1..n \subseteq 0..n
    OBVIOUS
  <2> HIDE DEF Body
  <2> QED
    BY <2>1, <2>2, <2>3
<1>11. \A i \in 1..n : Holds(i, held[i])
  <2> DEFINE S == {i \in 1..n : ~Holds(i, held[i])}
  <2> SUFFICES ASSUME S # {}
               PROVE  FALSE
    OBVIOUS
  <2>1. PICK m \in S : \A i \in S : m <= i
    <3>1. S \in SUBSET Nat
      OBVIOUS
    <3> HIDE DEF S
    <3> QED
      BY <3>1, LeastNatural
  <2>2. m \in 1..n /\ ~Holds(m, Body(held, m))
    <3> HIDE DEF Holds, Body
    <3> QED
      BY <2>1, <1>10
  <2>3. CASE m = 1
    BY <2>2, <2>3, <1>3, <1>10
  <2>4. CASE m # 1
    <3>1. m - 1 \in 1..n /\ m - 1 < m
      BY <2>2, <2>4
    <3> HIDE DEF Holds, Body
    <3>2. Holds(m - 1, held[m - 1])
      BY <3>1, <2>1
    <3> QED
      BY <3>2, <2>2, <2>4, <1>4
  <2> QED
    BY <2>3, <2>4
<1>12. CASE n = 0
  BY <1>12, <1>1, <1>10
<1>13. CASE n # 0
  <2>0. n \in 1..n
    BY <1>13
  <2>1. PICK w \in 1..n : held[n] = At(w) /\ IsFirstMost(parts, n, w)
    <3>1. Holds(n, held[n])
      <4> HIDE DEF Holds
      <4> QED
        BY <2>0, <1>11
    <3> HIDE DEF At
    <3> QED
      BY <3>1
  <2>2. held[n].winner = w
    BY <2>1
  <2> QED
    BY <2>1, <2>2, <1>1, <1>13
<1> QED
  BY <1>12, <1>13

-----------------------------------------------------------------------------
(* What an authority composes, member by member.                            *)

\* The most severe outcome and the fields of the first part that gave it.
LEMMA ComposedOfFirst ==
  ASSUME NEW parts, Len(parts) \in Nat \ {0}, Ranked(parts), NEW w, IsFirstMost(parts, Len(parts), w)
  PROVE  /\ R!Severest(parts) = parts[w].outcome
         /\ R!Enforced(parts) = parts[w].allowed
<1> DEFINE n == Len(parts)
           ranks == {parts[i].outcome : i \in 1..n}
           most == {i \in 1..n : parts[i].outcome = parts[w].outcome}
<1>1. w \in 1..n /\ \A i \in 1..n : parts[i].outcome <= parts[w].outcome
  BY DEF IsFirstMost
<1>2. \A i \in 1..n : parts[i].outcome \in 1..5
  BY DEF Ranked
<1>3. R!Max(ranks) = parts[w].outcome
  <2>1. parts[w].outcome \in ranks /\ \A r \in ranks : parts[w].outcome >= r
    BY <1>1, <1>2
  <2>2. \A r \in ranks : r \in 1..5
    BY <1>2
  <2> HIDE DEF ranks
  <2>3. \A x \in ranks : (\A r \in ranks : x >= r) => x = parts[w].outcome
    BY <2>1, <2>2
  <2> QED
    BY <2>1, <2>3 DEF R!Max
<1>4. R!Severest(parts) = parts[w].outcome
  BY <1>3 DEF R!Severest
<1>5. R!Min(most) = w
  <2>1. w \in most /\ \A i \in most : w <= i
    BY <1>1, <1>2 DEF IsFirstMost
  <2>2. \A x \in most : (\A i \in most : x <= i) => x = w
    BY <2>1
  <2> HIDE DEF most
  <2> QED
    BY <2>1, <2>2 DEF R!Min
<1>6. parts # <<>>
  OBVIOUS
<1> QED
  BY <1>4, <1>5, <1>6 DEF R!Enforced

\* The two kinds of decision an authority gives, on the trace ps.
LedgeredForm(d, ps) ==
    /\ d.outcome \in IF ps = <<>> THEN {5} ELSE R!Severest(ps)..5
    /\ d.verb = d.outcome /\ d.ledgered = TRUE /\ d.replayed \in BOOLEAN
    /\ d.decision_id = "id" /\ d.receipt_event_id = "id" /\ d.texts = "given"
    /\ d.generation \in {"absent", "whole", "whole float"} /\ d.withheld \in SUBSET FieldNames
    /\ d.allowed = R!Enforced(ps)
    /\ \E more \in SUBSET LabelNames : d.tags = R!Released(ps) \cup more
    /\ d.parts = ps
UnledgeredForm(d, ps) ==
    /\ d.outcome = 5 /\ d.verb = 5 /\ d.ledgered = FALSE /\ d.replayed = FALSE
    /\ d.decision_id \in {"", " "} /\ d.receipt_event_id \in {"", " "} /\ d.texts = "given"
    /\ d.generation \in {"absent", "whole", "whole float"}
    /\ d.withheld = {} /\ d.allowed = {} /\ d.tags = {} /\ d.parts = ps

\* A decision of an authority, member by member.
LEMMA GivesIs ==
  ASSUME NEW d \in R!DecisionObjects, NEW ps
  PROVE  d \in R!AuthorityGives(ps) <=> LedgeredForm(d, ps) \/ UnledgeredForm(d, ps)
<1> DEFINE Some == \E o \in R!Composed(ps) : d \in R!InLedger(ps, o)
<1>1. d \in R!AuthorityGives(ps) <=> Some \/ d \in R!NotInLedger(ps)
  <2> DEFINE All == UNION {R!InLedger(ps, o) : o \in R!Composed(ps)}
  <2>1. R!AuthorityGives(ps) = All \cup R!NotInLedger(ps)
    BY DEF R!AuthorityGives
  <2>2. d \in All <=> Some
    OBVIOUS
  <2> HIDE DEF All, Some
  <2> QED
    BY <2>1, <2>2
<1>2. d = [outcome |-> d.outcome, verb |-> d.verb, ledgered |-> d.ledgered, replayed |-> d.replayed,
           decision_id |-> d.decision_id, receipt_event_id |-> d.receipt_event_id, texts |-> d.texts,
           generation |-> d.generation, withheld |-> d.withheld, allowed |-> d.allowed,
           tags |-> d.tags, parts |-> d.parts]
  BY DEF R!DecisionObjects
<1>3. d \in R!NotInLedger(ps) <=> UnledgeredForm(d, ps)
  BY <1>2 DEF UnledgeredForm, R!NotInLedger, R!Blocked, R!Generations
<1>4. Some <=> LedgeredForm(d, ps)
  <2> USE DEF R!InLedger, R!Composed, R!Blocked, R!Generations, R!Id, LedgeredForm
  <2>1. ASSUME NEW o \in R!Composed(ps), d \in R!InLedger(ps, o)
        PROVE  LedgeredForm(d, ps)
    BY <2>1
  <2>2. ASSUME LedgeredForm(d, ps)
        PROVE  d \in R!InLedger(ps, d.outcome) /\ d.outcome \in R!Composed(ps)
    BY <2>2, <1>2
  <2> HIDE DEF R!InLedger, R!Composed, LedgeredForm
  <2> QED
    BY <2>1, <2>2
<1> QED
  BY <1>1, <1>3, <1>4

-----------------------------------------------------------------------------
(* What the readers ask of a decision, and what an authority gives.         *)

\* A part is taken if it is one that a boundary gives.
LEMMA PartIs ==
  ASSUME R!ReaderAssumption, NEW part \in {Bad} \cup R!PartObjects
  PROVE  R!ParsePart(part) <=> R!Whole(part) /\ part \in R!BoundaryGives
<1>1. CASE part = Bad
  BY <1>1 DEF R!ParsePart, R!Whole
<1>2. CASE part # Bad
  <2>1. part \in R!PartObjects
    BY <1>2
  <2>2. part = [outcome |-> part.outcome, texts |-> part.texts, allowed |-> part.allowed, tags |-> part.tags]
    BY <2>1 DEF R!PartObjects
  <2>3. R!Whole(part) <=> part.outcome # Bad /\ part.texts # Bad /\ part.allowed # Bad /\ part.tags # Bad
    <3>1. DOMAIN part = {"outcome", "texts", "allowed", "tags"}
      BY <2>2
    <3> QED
      BY <3>1, <1>2 DEF R!Whole
  <2>4. part \in R!BoundaryGives <=> /\ part.outcome \in R!Outcomes /\ part.texts = "given"
                                     /\ part.allowed \subseteq FieldNames /\ part.tags \subseteq LabelNames
    BY <2>2 DEF R!BoundaryGives
  <2>5. part.texts \in {Bad, "given"} /\ part.allowed \in {Bad} \cup SUBSET FieldNames
    BY <2>1 DEF R!PartObjects
  <2>6. Bad # "given" /\ Bad \notin R!Outcomes
    BY DEF R!ReaderAssumption
  <2> QED
    BY <1>2, <2>3, <2>4, <2>5, <2>6 DEF R!ParsePart, R!RequiredLabels
<1> QED
  BY <1>1, <1>2

\* Every member is there, and every part is one that a boundary gives.
WellFormed(d) ==
    /\ R!Whole(d) /\ d.verb = d.outcome
    /\ d.generation \in {"absent", "whole", "whole float"} /\ d.tags \subseteq LabelNames
    /\ \A i \in 1..Len(d.parts) : R!Whole(d.parts[i]) /\ d.parts[i] \in R!BoundaryGives

\* What Whole says of a decision, and the types that are left.
LEMMA WholeIs ==
  ASSUME R!ReaderAssumption, NEW d \in WireDecisions
  PROVE  /\ R!Whole(d) <=> /\ d.outcome # Bad /\ d.verb # Bad /\ d.ledgered # Bad /\ d.replayed # Bad
                           /\ d.decision_id # Bad /\ d.receipt_event_id # Bad /\ d.texts # Bad
                           /\ d.withheld # Bad /\ d.allowed # Bad /\ d.tags # Bad /\ d.parts # Bad
         /\ d.outcome # Bad <=> d.outcome \in 1..5
         /\ d.ledgered # Bad <=> d.ledgered \in BOOLEAN
         /\ d.replayed # Bad <=> d.replayed \in BOOLEAN
         /\ d.texts # Bad <=> d.texts = "given"
         /\ d.decision_id # Bad <=> d.decision_id \in {"", " ", "id"}
         /\ d.receipt_event_id # Bad <=> d.receipt_event_id \in {"", " ", "id"}
         /\ d.withheld # Bad => d.withheld \subseteq FieldNames
         /\ d.allowed # Bad => d.allowed \subseteq FieldNames
         /\ d.parts # Bad => d.parts \in Seq({Bad} \cup R!PartObjects)
<1>1. d \in R!DecisionObjects /\ d # Bad
  BY DEF R!ReaderAssumption
<1>2. DOMAIN d = {"outcome", "verb", "ledgered", "replayed", "decision_id", "receipt_event_id", "texts",
                  "generation", "withheld", "allowed", "tags", "parts"}
  BY <1>1 DEF R!DecisionObjects
<1>3. /\ d.outcome \in {Bad} \cup R!Outcomes /\ d.ledgered \in {Bad} \cup BOOLEAN
      /\ d.replayed \in {Bad} \cup BOOLEAN /\ d.decision_id \in {Bad} \cup R!Ids
      /\ d.receipt_event_id \in {Bad} \cup R!Ids /\ d.texts \in {Bad, "given"} /\ d.generation \in R!Spellings
      /\ d.withheld \in {Bad} \cup SUBSET FieldNames /\ d.allowed \in {Bad} \cup SUBSET FieldNames
      /\ d.parts \in {Bad} \cup Seq({Bad} \cup R!PartObjects)
  BY <1>1 DEF R!DecisionObjects, R!Id
<1>4. R!Whole(d) <=> /\ d.outcome # Bad /\ d.verb # Bad /\ d.ledgered # Bad /\ d.replayed # Bad
                     /\ d.decision_id # Bad /\ d.receipt_event_id # Bad /\ d.texts # Bad
                     /\ d.withheld # Bad /\ d.allowed # Bad /\ d.tags # Bad /\ d.parts # Bad
  <2>1. d.generation # Bad
    BY <1>3 DEF R!ReaderAssumption
  <2> QED
    BY <1>1, <1>2, <2>1 DEF R!Whole
<1>5. Bad \notin 1..5 /\ Bad \notin BOOLEAN
  BY DEF R!ReaderAssumption, R!Outcomes
<1>6. Bad # "" /\ Bad # " " /\ Bad # "id" /\ Bad # "given"
  BY DEF R!ReaderAssumption, R!Ids, R!Id
<1>7. (d.outcome # Bad <=> d.outcome \in 1..5) /\ (d.texts # Bad <=> d.texts = "given")
  BY <1>3, <1>5, <1>6 DEF R!Outcomes
<1>8. (d.ledgered # Bad <=> d.ledgered \in BOOLEAN) /\ (d.replayed # Bad <=> d.replayed \in BOOLEAN)
  BY <1>3, <1>5
<1>9. /\ d.decision_id # Bad <=> d.decision_id \in {"", " ", "id"}
      /\ d.receipt_event_id # Bad <=> d.receipt_event_id \in {"", " ", "id"}
  BY <1>3, <1>6 DEF R!Ids, R!Id
<1> QED
  BY <1>3, <1>4, <1>7, <1>8, <1>9

\* The shape both readers ask for.
LEMMA ShapedIs ==
  ASSUME R!ReaderAssumption, NEW d \in WireDecisions
  PROVE  R!Shaped(d) <=> WellFormed(d)
<1>1. ASSUME d.parts # Bad
      PROVE  (\A i \in 1..Len(d.parts) : R!ParsePart(d.parts[i]))
             <=> \A i \in 1..Len(d.parts) : R!Whole(d.parts[i]) /\ d.parts[i] \in R!BoundaryGives
  <2>1. d.parts \in Seq({Bad} \cup R!PartObjects)
    BY <1>1, WholeIs
  <2>2. \A i \in 1..Len(d.parts) : d.parts[i] \in {Bad} \cup R!PartObjects
    BY <2>1
  <2> QED
    BY <2>2, PartIs
<1>2. R!Shaped(d) => WellFormed(d)
  BY <1>1, WholeIs DEF R!Shaped, WellFormed, R!PolicyGeneration, R!RequiredLabels, R!Outcomes
<1>3. WellFormed(d) => R!Shaped(d)
  BY <1>1, WholeIs DEF R!Shaped, WellFormed, R!PolicyGeneration, R!RequiredLabels, R!Outcomes
<1> QED
  BY <1>2, <1>3

\* Node asks for the same shape.
LEMMA NodeShapedIs ==
  ASSUME R!ReaderAssumption, NEW d \in WireDecisions
  PROVE  R!NodeShaped(d) <=> R!Shaped(d)
<1> DEFINE e == [d EXCEPT !.parts = <<>>, !.generation = "absent"]
<1>1. d \in R!DecisionObjects
  BY DEF R!ReaderAssumption
<1>2. /\ e.outcome = d.outcome /\ e.verb = d.verb /\ e.ledgered = d.ledgered /\ e.replayed = d.replayed
      /\ e.decision_id = d.decision_id /\ e.receipt_event_id = d.receipt_event_id /\ e.texts = d.texts
      /\ e.withheld = d.withheld /\ e.allowed = d.allowed /\ e.tags = d.tags
      /\ e.parts = <<>> /\ e.generation = "absent"
  BY <1>1 DEF R!DecisionObjects
<1>3. R!NodeShaped(d) <=> /\ R!Shaped(e) /\ R!PolicyGeneration(d.generation)
                          /\ d.parts # Bad /\ \A i \in 1..Len(d.parts) : R!ParsePart(d.parts[i])
  BY DEF R!NodeShaped, R!NodePolicyGeneration, R!NodeParsePart
<1> HIDE DEF e
<1>4. <<>> # Bad /\ R!PolicyGeneration("absent") /\ \A i \in 1..Len(<<>>) : FALSE
  BY DEF R!ReaderAssumption, R!PolicyGeneration
<1> QED
  BY <1>2, <1>3, <1>4 DEF R!Shaped

\* The trace supports the decision.
Backed(d) ==
    /\ d.outcome \in IF d.parts = <<>> THEN {5} ELSE R!Severest(d.parts)..5
    /\ d.allowed = R!Enforced(d.parts)
    /\ R!Released(d.parts) \subseteq d.tags

\* The trace of a well-formed decision.
LEMMA TraceIs ==
  ASSUME R!ReaderAssumption, NEW d \in WireDecisions, WellFormed(d)
  PROVE  /\ Len(d.parts) \in Nat /\ (Len(d.parts) = 0 <=> d.parts = <<>>) /\ Ranked(d.parts)
         /\ d.outcome \in 1..5 /\ d.allowed \subseteq FieldNames
         /\ \A i \in 1..Len(d.parts) : d.parts[i].allowed \subseteq FieldNames
<1>1. d.parts \in Seq({Bad} \cup R!PartObjects) /\ d.outcome \in 1..5 /\ d.allowed \subseteq FieldNames
  BY WholeIs DEF WellFormed
<1>2. Len(d.parts) \in Nat /\ (Len(d.parts) = 0 <=> d.parts = <<>>)
  BY <1>1
<1>3. \A p \in R!BoundaryGives : p.outcome \in 1..5 /\ p.allowed \subseteq FieldNames
  BY DEF R!BoundaryGives, R!Outcomes
<1> QED
  BY <1>1, <1>2, <1>3 DEF WellFormed, Ranked

\* Both loops keep the same part, so both readers compare with the same fields.
LEMMA SameWinner ==
  ASSUME NEW parts, Len(parts) \in Nat, Ranked(parts)
  PROVE  R!Winner(parts) = R!NodeWinner(parts)
<1>1. CASE Len(parts) = 0
  BY <1>1, WinnerIsFirst, NodeWinnerIsFirst
<1>2. CASE Len(parts) # 0
  <2>1. IsFirstMost(parts, Len(parts), R!Winner(parts)) /\ IsFirstMost(parts, Len(parts), R!NodeWinner(parts))
    BY <1>2, WinnerIsFirst, NodeWinnerIsFirst
  <2> QED
    BY <2>1, FirstMostUnique DEF Ranked
<1> QED
  BY <1>1, <1>2

\* The rule of the trace is the composition of the authority.
LEMMA SupportedIs ==
  ASSUME R!ReaderAssumption, NEW d \in WireDecisions, WellFormed(d)
  PROVE  R!Supported(d) <=> Backed(d)
<1> DEFINE n == Len(d.parts)
           w == R!Winner(d.parts)
           Below == \A i \in 1..n : d.parts[i].outcome <= d.outcome /\ d.parts[i].tags \subseteq d.tags
<1>1. n \in Nat /\ (n = 0 <=> d.parts = <<>>) /\ Ranked(d.parts) /\ d.outcome \in 1..5
  BY TraceIs
<1>2. R!Supported(d) <=> Below /\ IF w = 0 THEN d.outcome = 5 /\ d.allowed = {}
                                   ELSE d.allowed = d.parts[w].allowed
  BY DEF R!Supported, R!Blocked
<1>3. R!Released(d.parts) \subseteq d.tags <=> \A i \in 1..n : d.parts[i].tags \subseteq d.tags
  BY DEF R!Released
<1>4. CASE n = 0
  <2>1. w = 0
    BY <1>1, <1>4, WinnerIsFirst
  <2>2. R!Enforced(d.parts) = {} /\ R!Released(d.parts) = {}
    BY <1>1, <1>4 DEF R!Enforced, R!Released
  <2> HIDE DEF w
  <2> QED
    BY <1>1, <1>2, <1>4, <2>1, <2>2 DEF Backed
<1>5. CASE n # 0
  <2>1. IsFirstMost(d.parts, n, w)
    BY <1>1, <1>5, WinnerIsFirst
  <2>2. R!Severest(d.parts) = d.parts[w].outcome /\ R!Enforced(d.parts) = d.parts[w].allowed
    BY <1>1, <1>5, <2>1, ComposedOfFirst
  <2>3. /\ w \in 1..n /\ w # 0
        /\ \A i \in 1..n : d.parts[i].outcome \in 1..5 /\ d.parts[i].outcome <= d.parts[w].outcome
    BY <1>1, <2>1 DEF IsFirstMost, Ranked
  <2> HIDE DEF w
  <2>4. (\A i \in 1..n : d.parts[i].outcome <= d.outcome) <=> d.outcome \in R!Severest(d.parts)..5
    <3>1. (\A i \in 1..n : d.parts[i].outcome <= d.outcome) <=> d.parts[w].outcome <= d.outcome
      <4> DEFINE bound == d.parts[w].outcome
      <4>1. bound \in 1..5 /\ \A i \in 1..n : d.parts[i].outcome \in 1..5 /\ d.parts[i].outcome <= bound
        BY <2>3
      <4>2. ASSUME bound <= d.outcome, NEW i \in 1..n
            PROVE  d.parts[i].outcome <= d.outcome
        <5>1. d.parts[i].outcome \in Int /\ d.parts[i].outcome <= bound /\ bound \in Int /\ d.outcome \in Int
          BY <1>1, <4>1
        <5> HIDE DEF bound
        <5> QED
          BY <4>2, <5>1
      <4> QED
        BY <2>3, <4>2
    <3>2. d.parts[w].outcome <= d.outcome <=> d.outcome \in d.parts[w].outcome..5
      BY <1>1, <2>3
    <3> QED
      BY <2>2, <3>1, <3>2
  <2> QED
    BY <1>1, <1>2, <1>3, <1>5, <2>2, <2>3, <2>4 DEF Backed
<1> QED
  BY <1>4, <1>5

\* Node compares sizes and members where Python compares sets.
LEMMA NodeSupportedIs ==
  ASSUME R!ReaderAssumption, NEW d \in WireDecisions, WellFormed(d)
  PROVE  R!NodeSupported(d) <=> R!Supported(d)
<1> DEFINE n == Len(d.parts)
           w == R!Winner(d.parts)
           Below == \A i \in 1..n : d.parts[i].outcome <= d.outcome /\ d.parts[i].tags \subseteq d.tags
           NodeSame == /\ R!Cardinality(d.allowed) = R!Cardinality(d.parts[w].allowed)
                       /\ \A f \in d.allowed : f \in d.parts[w].allowed
<1>1. n \in Nat /\ Ranked(d.parts)
  BY TraceIs
<1>2. R!NodeWinner(d.parts) = w
  BY <1>1, SameWinner
<1>3. w = 0 \/ w \in 1..n
  BY <1>1, WinnerIsFirst DEF IsFirstMost
<1>4. R!Supported(d) <=> Below /\ IF w = 0 THEN d.outcome = 5 /\ d.allowed = {}
                                   ELSE d.allowed = d.parts[w].allowed
  BY DEF R!Supported, R!Blocked
<1> HIDE DEF w
<1>5. R!NodeSupported(d) <=> Below /\ IF w = 0 THEN d.outcome = 5 /\ d.allowed = {} ELSE NodeSame
  BY <1>2 DEF R!NodeSupported, R!Blocked
<1>6. ASSUME w # 0
      PROVE  NodeSame <=> d.allowed = d.parts[w].allowed
  <2>1. d.allowed \subseteq FieldNames /\ d.parts[w].allowed \subseteq FieldNames
    BY <1>3, <1>6, TraceIs
  <2>2. IsFiniteSet(FieldNames)
    BY DEF R!ReaderAssumption, R!IsFiniteSet, IsFiniteSet
  <2>3. IsFiniteSet(d.parts[w].allowed)
    BY <2>1, <2>2, FS_Subset
  <2>4. d.allowed \subseteq d.parts[w].allowed /\ Cardinality(d.allowed) = Cardinality(d.parts[w].allowed)
        => d.allowed = d.parts[w].allowed
    BY <2>3, FS_Subset
  <2>5. /\ R!Cardinality(d.allowed) = Cardinality(d.allowed)
        /\ R!Cardinality(d.parts[w].allowed) = Cardinality(d.parts[w].allowed)
    BY DEF R!Cardinality, Cardinality
  <2> QED
    BY <2>4, <2>5
<1> HIDE DEF Below, NodeSame
<1> QED
  BY <1>4, <1>5, <1>6

\* What is taken is what an authority can have composed: in the ledger, with its
\* ids and a trace that supports it, or outside it, as a bare refusal.
LEMMA TakenIsGenuine ==
  ASSUME R!ReaderAssumption, NEW d \in WireDecisions
  PROVE  R!Shaped(d) /\ R!ChainWitness(d) /\ (d.ledgered => R!Supported(d)) <=> R!Genuine(d)
<1>1. R!Shaped(d) <=> WellFormed(d)
  BY ShapedIs
<1>2. R!Genuine(d) <=> /\ R!Whole(d)
                       /\ \A i \in 1..Len(d.parts) : R!Whole(d.parts[i]) /\ d.parts[i] \in R!BoundaryGives
                       /\ LedgeredForm(d, d.parts) \/ UnledgeredForm(d, d.parts)
  <2>1. d \in R!DecisionObjects
    BY DEF R!ReaderAssumption
  <2> QED
    BY <2>1, GivesIs DEF R!Genuine
<1>3. R!Genuine(d) => WellFormed(d)
  <2> SUFFICES ASSUME R!Genuine(d)
               PROVE  WellFormed(d)
    OBVIOUS
  <2>1. \A i \in 1..Len(d.parts) : R!Whole(d.parts[i]) /\ d.parts[i] \in R!BoundaryGives
    BY <1>2
  <2>2. d.tags \subseteq LabelNames
    <3>1. R!Released(d.parts) \subseteq LabelNames
      <4>1. \A p \in R!BoundaryGives : p.tags \subseteq LabelNames
        BY DEF R!BoundaryGives
      <4> QED
        BY <2>1, <4>1 DEF R!Released
    <3> QED
      BY <1>2, <3>1 DEF LedgeredForm, UnledgeredForm
  <2>3. d.verb = d.outcome /\ d.generation \in {"absent", "whole", "whole float"}
    BY <1>2 DEF LedgeredForm, UnledgeredForm
  <2> QED
    BY <1>2, <2>1, <2>2, <2>3 DEF WellFormed
<1>4. ASSUME WellFormed(d)
      PROVE  R!ChainWitness(d) /\ (d.ledgered => R!Supported(d))
             <=> LedgeredForm(d, d.parts) \/ UnledgeredForm(d, d.parts)
  <2>1. /\ d.ledgered \in BOOLEAN /\ d.replayed \in BOOLEAN /\ d.texts = "given"
        /\ d.decision_id \in {"", " ", "id"} /\ d.receipt_event_id \in {"", " ", "id"}
        /\ d.withheld \subseteq FieldNames
    BY <1>4, WholeIs DEF WellFormed
  <2>2. R!Supported(d) <=> Backed(d)
    BY <1>4, SupportedIs
  <2>3. d.verb = d.outcome /\ d.generation \in {"absent", "whole", "whole float"} /\ d.tags \subseteq LabelNames
    BY <1>4 DEF WellFormed
  <2>4. (\E more \in SUBSET LabelNames : d.tags = R!Released(d.parts) \cup more)
        <=> R!Released(d.parts) \subseteq d.tags
    BY <2>3
  <2>5. LedgeredForm(d, d.parts) <=> d.ledgered = TRUE /\ d.decision_id = "id" /\ d.receipt_event_id = "id"
                                     /\ Backed(d)
    BY <2>1, <2>3, <2>4 DEF LedgeredForm, Backed
  <2>6. UnledgeredForm(d, d.parts) <=> /\ d.ledgered = FALSE /\ d.outcome = 5 /\ d.replayed = FALSE
                                       /\ d.decision_id \in {"", " "} /\ d.receipt_event_id \in {"", " "}
                                       /\ d.tags = {} /\ d.allowed = {} /\ d.withheld = {}
    BY <2>1, <2>3 DEF UnledgeredForm
  <2>7. CASE d.ledgered = TRUE
    <3>1. R!ChainWitness(d) <=> d.decision_id = "id" /\ d.receipt_event_id = "id"
      BY <2>1, <2>7 DEF R!ChainWitness, R!IsBlank
    <3> QED
      BY <2>2, <2>5, <2>6, <2>7, <3>1
  <2>8. CASE d.ledgered = FALSE
    <3>1. R!ChainWitness(d) <=> /\ d.outcome = 5 /\ d.replayed = FALSE
                                /\ d.decision_id \in {"", " "} /\ d.receipt_event_id \in {"", " "}
                                /\ d.tags = {} /\ d.allowed = {} /\ d.withheld = {}
      BY <2>1, <2>8 DEF R!ChainWitness, R!IsBlank, R!Blocked
    <3> QED
      BY <2>5, <2>6, <2>8, <3>1
  <2> QED
    BY <2>1, <2>7, <2>8
<1> QED
  BY <1>1, <1>2, <1>3, <1>4 DEF WellFormed

\* A view is not a refusal, and neither is what stands before the reading.
LEMMA ReadIs ==
  ASSUME R!ReaderAssumption, NEW d \in WireDecisions
  PROVE  /\ R!ParseAuthorityDecision(d) # R!Refused <=> R!Genuine(d)
         /\ R!NodeParseAuthorityDecision(d) # R!Refused <=> R!Genuine(d)
<1>1. R!View(d) # R!Refused
  <2>1. R!View(d).read = "view" /\ R!Refused.read = "refused"
    BY DEF R!View, R!Refused
  <2> QED
    BY <2>1
<1>2. R!ParseAuthorityDecision(d) # R!Refused <=> R!Genuine(d)
  BY <1>1, TakenIsGenuine DEF R!ParseAuthorityDecision
<1>3. R!NodeShaped(d) /\ R!ChainWitness(d) /\ (d.ledgered => R!NodeSupported(d))
      <=> R!Shaped(d) /\ R!ChainWitness(d) /\ (d.ledgered => R!Supported(d))
  BY NodeShapedIs, ShapedIs, NodeSupportedIs
<1>4. R!NodeParseAuthorityDecision(d) # R!Refused <=> R!Genuine(d)
  BY <1>1, <1>3, TakenIsGenuine DEF R!NodeParseAuthorityDecision
<1> QED
  BY <1>2, <1>4

\* Each view is what its reader makes of the one decision.
ReaderInv ==
    /\ decision \in WireDecisions
    /\ pythonView \in {R!Unread, R!ParseAuthorityDecision(decision)}
    /\ nodeView \in {R!Unread, R!NodeParseAuthorityDecision(decision)}

\* For every set of decisions, fields and labels: each SDK takes a decision
\* exactly when an authority can have composed it from the parts it comes
\* with, so both take the same ones (parse_authority_decision of client.py,
\* parseAuthorityDecision of client.ts).
THEOREM GenuineRead ==
  R!Spec => []ReadsTheGenuine
<1>1. R!Init => ReaderInv
  BY DEF R!Init, ReaderInv
<1>2. ASSUME ReaderInv, [R!Next]_(R!vars)
      PROVE  ReaderInv'
  <2>1. CASE R!PythonReads
    BY <1>2, <2>1 DEF ReaderInv, R!PythonReads
  <2>2. CASE R!NodeReads
    BY <1>2, <2>2 DEF ReaderInv, R!NodeReads
  <2>3. CASE UNCHANGED R!vars
    BY <1>2, <2>3 DEF ReaderInv, R!vars
  <2> QED
    BY <1>2, <2>1, <2>2, <2>3 DEF R!Next
<1>3. ReaderInv => ReadsTheGenuine
  BY ReaderAssumption, ReadIs DEF ReaderInv, ReadsTheGenuine, R!ReadsTheGenuine
<1> QED
  BY <1>1, <1>2, <1>3, PTL DEF R!Spec

=============================================================================
