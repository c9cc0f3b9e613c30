----------------------------- MODULE ShieldCall -----------------------------
(***************************************************************************)
(* Calls of functions that @shield wraps (shield.py; shield() and          *)
(* detectMode of the Node SDK): the mode is taken or detected, under the   *)
(* gateway the access is checked before the function runs and ingested     *)
(* before its filtered result is released, and the local history is told.  *)
(*                                                                         *)
(* The calls of one process share the detected mode, remembered for a time *)
(* to live, and the module's client, which carries the token that the      *)
(* environment held when it was built or last refreshed.  The callers are  *)
(* threads, where every step is one statement others may come between, or  *)
(* tasks of one event loop (async Python, Node), where only an await lets   *)
(* another in and a clock step falls only there.                           *)
(***************************************************************************)
EXTENDS Naturals, FiniteSets

CONSTANTS
    Callers,
    Refresher,  \* who calls refresh_token
    NoClient,   \* the module has no client yet
    TTL,        \* _DETECT_MODE_TTL_S
    MaxTime,    \* bound on the clock
    MaxToken,   \* bound on the tokens the environment is given
    MaxChanges  \* bound on the changes of the other variables

ASSUME ShieldAssumption ==
    /\ Refresher \notin Callers
    /\ NoClient \notin Callers \cup {Refresher}
    /\ TTL \in Nat \ {0} /\ MaxTime \in Nat /\ MaxToken \in Nat /\ MaxChanges \in Nat

VARIABLES
    form,      \* "threads", "tasks" or "node"
    wants,     \* the mode each decorator was given
    isAsync,   \* is the wrapped function declared async (asked in Node only)
    env,       \* what the environment says: "lite" (or no intent), "full", or
               \* "auto" with the intent of a gateway
    changes,   \* how often that changed
    token,     \* AEGIS_TOKEN, numbered
    clock,
    litAt,     \* history: when the environment last said "lite"
    detected,  \* _detected_mode
    stamp,     \* _detected_mode_ts
    client,    \* _client: who built it
    tokenOf,   \* the token each client object carries, by who built it
    refresh,   \* where refresh_token is
    newToken,  \* new_token, what it read
    refreshed, \* history: the newest token a refresh_token that returned had read
    pc, mode,  \* of each call: its place and its active_mode
    began,     \* now
    found,     \* what the environment said when detection looked
    ledger,    \* the calls whose access the gateway took into its audit log
    ran,       \* the calls whose function was started
    permitted, \* the calls the gateway granted
    result,    \* "none" before the end, then "content", "empty" or "error"
    trail      \* what the local history holds of each call

process == <<env, changes, token, clock, litAt, detected, stamp, client, tokenOf, refresh, newToken, refreshed>>
calls   == <<pc, mode, began, found, ledger, ran, permitted, result, trail>>
setup   == <<form, wants, isAsync>>
vars    == <<setup, process, calls>>

Builders == Callers \cup {Refresher}
Modes    == {"lite", "full"}

Init ==
    /\ form \in {"threads", "tasks", "node"}
    /\ wants \in [Callers -> {"lite", "full", "auto"}]
    /\ isAsync \in [Callers -> IF form = "node" THEN BOOLEAN ELSE {TRUE}]
    /\ env \in {"lite", "full", "auto"}
    /\ changes = 0 /\ token = 0 /\ clock = 0 /\ litAt = 0
    /\ detected = "none" /\ stamp = 0
    /\ client = NoClient
    /\ tokenOf = [b \in Builders |-> 0]
    /\ refresh = "idle" /\ newToken = 0 /\ refreshed = 0
    /\ pc = [c \in Callers |-> "idle"]
    /\ mode = [c \in Callers |-> "none"]
    /\ began = [c \in Callers |-> 0]
    /\ found = [c \in Callers |-> "none"]
    /\ ledger = {} /\ ran = {} /\ permitted = {}
    /\ result = [c \in Callers |-> "none"]
    /\ trail = [c \in Callers |-> "none"]

\* A caller between two awaits; in a thread every place lets the others in.
Awaits == {"idle", "gate", "body", "ingest", "done"}
             \cup (IF form = "node" THEN {"probe"} ELSE {})
Busy(p) == form # "threads" /\ IF p = Refresher THEN refresh # "idle" ELSE pc[p] \notin Awaits
Free(p) == \A q \in Builders \ {p} : ~Busy(q)

Goto(c, from, to) ==
    /\ Free(c)
    /\ pc[c] = from
    /\ pc' = [pc EXCEPT ![c] = to]
    /\ UNCHANGED setup

\* The end of a call, with what the caller gets and what the history is told;
\* a history that cannot be written is passed over.
Finish(c, from, got, told) ==
    /\ Goto(c, from, "done")
    /\ result' = [result EXCEPT ![c] = got]
    /\ \E kept \in {told, "none"} : trail' = [trail EXCEPT ![c] = kept]

-----------------------------------------------------------------------------
(* The wrapper decides the mode.                                            *)

\* A mode given to the decorator is taken as it is; in Node a function that is
\* not async cannot be gated: AUTO leaves it local, FULL is refused.
TakeMode(c) ==
    LET decided == IF form = "node" /\ ~isAsync[c] /\ wants[c] = "auto" THEN "lite" ELSE wants[c]
        refused == form = "node" /\ ~isAsync[c] /\ wants[c] = "full"
    IN /\ decided \in Modes /\ ~refused
       /\ Goto(c, "idle", IF decided = "full" THEN "client" ELSE "start")
       /\ mode' = [mode EXCEPT ![c] = decided]
       /\ UNCHANGED <<process, began, found, ledger, ran, permitted, result, trail>>

RefuseSyncFull(c) ==
    /\ form = "node" /\ ~isAsync[c] /\ wants[c] = "full"
    /\ Finish(c, "idle", "error", "none")
    /\ UNCHANGED <<process, mode, began, found, ledger, ran, permitted>>

\* Fault: a mode as old as its time to live is still used.
FreshEnough(now) == detected # "none" /\ now - stamp <= TTL
Fresh(now)       == detected # "none" /\ now - stamp < TTL

DetectMode(c) ==
    /\ wants[c] = "auto" /\ ~(form = "node" /\ ~isAsync[c])
    /\ Goto(c, "idle", IF Fresh(clock) THEN "return" ELSE "look")
    /\ began' = [began EXCEPT ![c] = clock]
    /\ UNCHANGED <<process, mode, found, ledger, ran, permitted, result, trail>>

\* The intent is looked at before the backend is probed; only then a client is
\* needed, and the answer of the probe changes a warning and nothing else.
LookAtEnvironment(c) ==
    /\ Goto(c, "look", IF env = "auto" THEN "client" ELSE "assign")
    /\ found' = [found EXCEPT ![c] = IF env = "lite" THEN "lite" ELSE "full"]
    /\ UNCHANGED <<process, mode, began, ledger, ran, permitted, result, trail>>

Probe(c) ==
    /\ Goto(c, "probe", "assign")
    /\ UNCHANGED <<process, mode, began, found, ledger, ran, permitted, result, trail>>

Assign(c) ==
    /\ Goto(c, "assign", "stamp")
    /\ detected' = found[c]
    /\ UNCHANGED <<env, changes, token, clock, litAt, stamp, client, tokenOf, refresh, newToken, refreshed,
                   mode, began, found, ledger, ran, permitted, result, trail>>

Stamp(c) ==
    /\ Goto(c, "stamp", "return")
    /\ stamp' = began[c]
    /\ UNCHANGED <<env, changes, token, clock, litAt, detected, client, tokenOf, refresh, newToken, refreshed,
                   mode, began, found, ledger, ran, permitted, result, trail>>

\* What is returned is the module's variable, not what this call found.
ReturnMode(c) ==
    /\ Goto(c, "return", IF detected = "full" THEN "client" ELSE "start")
    /\ mode' = [mode EXCEPT ![c] = detected]
    /\ UNCHANGED <<process, began, found, ledger, ran, permitted, result, trail>>

-----------------------------------------------------------------------------
(* The module's client.                                                     *)

AfterClient(c) == IF mode[c] = "none" THEN "probe" ELSE "gate"

HasClient(c) ==
    /\ client # NoClient
    /\ Goto(c, "client", AfterClient(c))
    /\ UNCHANGED <<process, mode, began, found, ledger, ran, permitted, result, trail>>

\* Reads the token; the object becomes the module's in a step of its own.
NewClient(c) ==
    /\ client = NoClient
    /\ Goto(c, "client", "build")
    /\ tokenOf' = [tokenOf EXCEPT ![c] = token]
    /\ UNCHANGED <<env, changes, token, clock, litAt, detected, stamp, client, refresh, newToken, refreshed,
                   mode, began, found, ledger, ran, permitted, result, trail>>

KeepClient(c) ==
    /\ Goto(c, "build", AfterClient(c))
    /\ client' = c
    /\ UNCHANGED <<env, changes, token, clock, litAt, detected, stamp, tokenOf, refresh, newToken, refreshed,
                   mode, began, found, ledger, ran, permitted, result, trail>>

\* The extra is not installed, or the URL may not go without TLS.
NoClientBuilt(c) ==
    /\ client = NoClient
    /\ Finish(c, "client", "error", "none")
    /\ UNCHANGED <<process, mode, began, found, ledger, ran, permitted>>

-----------------------------------------------------------------------------
(* The call itself.                                                         *)

\* Under the gateway nothing runs before it granted the access.
MayRun(c) == \/ pc[c] = "start"
             \/ pc[c] = "gate" /\ c \in permitted

Granted(c) ==
    /\ pc[c] = "gate" /\ c \notin permitted
    /\ permitted' = permitted \cup {c}
    /\ UNCHANGED <<setup, process, pc, mode, began, found, ledger, ran, result, trail>>

Denied(c) ==
    /\ c \notin permitted
    /\ Finish(c, "gate", "empty", IF form = "node" THEN "deny" ELSE "none")
    /\ UNCHANGED <<process, mode, began, found, ledger, ran, permitted>>

StartBody(c) ==
    /\ MayRun(c)
    /\ Goto(c, pc[c], "body")
    /\ ran' = ran \cup {c}
    /\ UNCHANGED <<process, mode, began, found, ledger, permitted, result, trail>>

BodyReturns(c) ==
    /\ Goto(c, "body", "filter")
    /\ UNCHANGED <<process, mode, began, found, ledger, ran, permitted, result, trail>>

\* The function or the filter raises: nothing of the error is passed on.
Raises(c) ==
    /\ \E from \in {"body", "filter"} :
          Finish(c, from, "empty", IF form = "node" THEN "fail_closed" ELSE "none")
    /\ UNCHANGED <<process, mode, began, found, ledger, ran, permitted>>

\* Fault: what the access was governed by is asked anew after the function ran.
IngestIfDetected(c) == detected = "full"
NeedsIngest(c)      == mode[c] = "full"

Filtered(c) ==
    /\ Goto(c, "filter", IF NeedsIngest(c) THEN "ingest" ELSE "report")
    /\ UNCHANGED <<process, mode, began, found, ledger, ran, permitted, result, trail>>

IngestAccepted(c) ==
    /\ Goto(c, "ingest", "report")
    /\ ledger' = ledger \cup {c}
    /\ UNCHANGED <<process, mode, began, found, ran, permitted, result, trail>>

\* No answer may mean that the entry was taken all the same.
\* Fault: the history is told of an allowed access before it is known.
TellAllowed(c) ==
    /\ Finish(c, "ingest", "empty", "allow")
    /\ UNCHANGED <<process, mode, began, found, ledger, ran, permitted>>
IngestFails(c) ==
    /\ Finish(c, "ingest", "empty", IF form = "node" THEN "fail_closed" ELSE "none")
    /\ \E taken \in {{}, {c}} : ledger' = ledger \cup taken
    /\ UNCHANGED <<process, mode, began, found, ran, permitted>>

Release(c) ==
    /\ Finish(c, "report", "content", IF mode[c] = "full" THEN "allow" ELSE "lite")
    /\ UNCHANGED <<process, mode, began, found, ledger, ran, permitted>>

-----------------------------------------------------------------------------
(* refresh_token, and the surroundings.                                     *)

Refreshing(from, to) ==
    /\ Free(Refresher)
    /\ refresh = from /\ refresh' = to
    /\ UNCHANGED <<setup, env, changes, token, clock, litAt, detected, stamp, calls>>

\* Python reads the token first and then gets a client, Node is given it.
ReadToken ==
    /\ refreshed < token
    /\ Refreshing("idle", "client")
    /\ newToken' = token
    /\ UNCHANGED <<client, tokenOf, refreshed>>

RefreshBuilds ==
    /\ client = NoClient
    /\ Refreshing("client", "build")
    /\ tokenOf' = [tokenOf EXCEPT ![Refresher] = token]
    /\ UNCHANGED <<client, newToken, refreshed>>

RefreshKeeps ==
    /\ Refreshing("build", "client")
    /\ client' = Refresher
    /\ UNCHANGED <<tokenOf, newToken, refreshed>>

\* Fault: the client that is there is left as it is.
SetNothing(new) == tokenOf
SetToken(new)   == [tokenOf EXCEPT ![client] = new]

RefreshSets ==
    /\ client # NoClient
    /\ Refreshing("client", "idle")
    /\ tokenOf' = SetToken(newToken)
    /\ refreshed' = newToken
    /\ UNCHANGED <<client, newToken>>

NobodyBusy == \A p \in Builders : ~Busy(p)

Rotate ==
    /\ token < MaxToken /\ NobodyBusy
    /\ token' = token + 1
    /\ UNCHANGED <<setup, env, changes, clock, litAt, detected, stamp, client, tokenOf, refresh, newToken, refreshed, calls>>

ChangeEnvironment ==
    /\ changes < MaxChanges /\ NobodyBusy
    /\ changes' = changes + 1
    /\ env' \in {"lite", "full", "auto"} \ {env}
    /\ litAt' = IF env' = "lite" THEN clock ELSE litAt
    /\ UNCHANGED <<setup, token, clock, detected, stamp, client, tokenOf, refresh, newToken, refreshed, calls>>

Tick ==
    /\ clock < MaxTime /\ NobodyBusy
    /\ clock' = clock + 1
    /\ litAt' = IF env = "lite" THEN clock + 1 ELSE litAt
    /\ UNCHANGED <<setup, env, changes, token, detected, stamp, client, tokenOf, refresh, newToken, refreshed, calls>>

-----------------------------------------------------------------------------
Detecting(c) == LookAtEnvironment(c) \/ Probe(c) \/ Assign(c) \/ Stamp(c) \/ ReturnMode(c)
GetClient(c) == HasClient(c) \/ NewClient(c) \/ KeepClient(c) \/ NoClientBuilt(c)
RefreshToken == ReadToken \/ RefreshBuilds \/ RefreshKeeps \/ RefreshSets

\* The code has each of these once per form.
Gating(c) == TakeMode(c) \/ DetectMode(c) \/ Granted(c) \/ Denied(c)
                \/ StartBody(c) \/ BodyReturns(c)
Wrapper(c)      == form = "threads" /\ Gating(c)
AsyncWrapper(c) == form = "tasks" /\ Gating(c)
NodeWrapped(c)  == form = "node" /\ (Gating(c) \/ RefuseSyncFull(c))

Local(c)    == mode[c] = "lite" /\ (Filtered(c) \/ Raises(c) \/ Release(c))
Governed(c) == mode[c] = "full" /\ (\/ Filtered(c) \/ Raises(c) \/ Release(c)
                                   \/ IngestAccepted(c) \/ IngestFails(c))
ShieldLite(c)        == form # "node" /\ Local(c)
ShieldFull(c)        == form = "threads" /\ Governed(c)
ShieldFullAsync(c)   == form = "tasks" /\ Governed(c)
ApplyAndAuditLite(c) == form = "node" /\ Local(c)
GateAndRunFull(c)    == form = "node" /\ Governed(c)

Next == \/ \E c \in Callers :
              \/ Wrapper(c) \/ AsyncWrapper(c) \/ NodeWrapped(c)
              \/ Detecting(c) \/ GetClient(c)
              \/ ShieldLite(c) \/ ShieldFull(c) \/ ShieldFullAsync(c)
              \/ ApplyAndAuditLite(c) \/ GateAndRunFull(c)
        \/ RefreshToken \/ Rotate \/ ChangeEnvironment \/ Tick
Spec == Init /\ [][Next]_vars

-----------------------------------------------------------------------------
Places == {"idle", "look", "probe", "assign", "stamp", "return", "client", "build", "start",
           "gate", "body", "filter", "ingest", "report", "done"}

\* Every variable keeps its type.
TypeOK ==
    /\ form \in {"threads", "tasks", "node"}
    /\ wants \in [Callers -> {"lite", "full", "auto"}]
    /\ isAsync \in [Callers -> BOOLEAN]
    /\ env \in {"lite", "full", "auto"}
    /\ changes \in Nat /\ token \in Nat /\ clock \in Nat /\ litAt \in Nat /\ stamp \in Nat /\ newToken \in Nat /\ refreshed \in Nat
    /\ detected \in Modes \cup {"none"}
    /\ client \in Builders \cup {NoClient}
    /\ tokenOf \in [Builders -> Nat]
    /\ refresh \in {"idle", "client", "build"}
    /\ pc \in [Callers -> Places]
    /\ mode \in [Callers -> Modes \cup {"none"}]
    /\ began \in [Callers -> Nat]
    /\ found \in [Callers -> Modes \cup {"none"}]
    /\ ledger \subseteq Callers /\ ran \subseteq Callers /\ permitted \subseteq Callers
    /\ result \in [Callers -> {"none", "content", "empty", "error"}]
    /\ trail \in [Callers -> {"none", "allow", "lite", "deny", "fail_closed"}]

\* What governs a call, and how far it is, in the words of GatedCall.
Governance ==
    [c \in Callers |-> IF mode[c] = "lite" THEN "local"
                       ELSE IF mode[c] = "full" THEN "gateway" ELSE "open"]
Progress ==
    [c \in Callers |-> IF result[c] = "content"  THEN "released"
                       ELSE IF result[c] # "none" THEN "withheld"
                       ELSE IF c \in ledger      THEN "accounted"
                       ELSE IF c \in ran         THEN "ran"
                       ELSE IF c \in permitted   THEN "permitted" ELSE "asked"]

\* The gated call that the code implements: run after the permit, released
\* after the ingest, and governed by one decision however the detected mode
\* changes while the function runs (shield's wrappers, gateAndRunFull).
Gated == INSTANCE GatedCall WITH governed <- Governance, stage <- Progress
ImplementsGatedCall == Gated!Spec

\* What the local history says of a call is what happened: an allowed access
\* was granted, accounted for and released, a denied or failed one released
\* nothing (record_if_enabled and emitAudit are called where the outcome is
\* decided, on six paths).
HistoryTellsTruth ==
    \A c \in Callers :
        /\ trail[c] = "allow" => c \in permitted \cap ran \cap ledger /\ result[c] = "content"
        /\ trail[c] = "lite"  => mode[c] = "lite" /\ result[c] = "content"
        /\ trail[c] \in {"deny", "fail_closed"} => result[c] = "empty"

\* A call on one event loop is left local by AUTO only when the environment
\* asked for no gateway less than a time to live ago: the memory of the mode
\* does not outlive it, whoever renews it (_DETECT_MODE_TTL_S).  In Node this
\* is about async functions; of threads it does not hold, see the README.
StaleModeEnds ==
    [][form # "threads" =>
         \A c \in Callers : mode[c] = "none" /\ mode'[c] = "lite" /\ wants[c] = "auto"
                            /\ pc[c] = "return" => clock - litAt < TTL]_vars

\* Once refresh_token returned, the module's client carries the token it read
\* or a newer one, on an event loop (refresh_token: "subsequent requests use
\* the new token").
RefreshReachesClient ==
    form # "threads" /\ client # NoClient => refreshed <= tokenOf[client]
=============================================================================
