----------------------------- MODULE Delegation -----------------------------
(***************************************************************************)
(* Delegation windows and the guarded calls made inside them               *)
(* (_delegation_context.py, delegate and guard_tool of ai_native.py,       *)
(* check_boundary and the capability methods of client.py; Node:           *)
(* delegationContext.ts, aiNative.ts, client.ts).                          *)
(*                                                                         *)
(* delegate() mints a token at the boundary of one origin and leaves it in *)
(* a context variable that tasks inherit as a copy. Whatever is asked of a *)
(* boundary afterwards reads it there. A coroutine of guard_tool or an     *)
(* unentered session reads the variable of whoever awaits it, not of the   *)
(* code that made it; check_boundary, and everything in Node, reads it at  *)
(* the call.                                                               *)
(***************************************************************************)
EXTENDS Integers, Sequences, SequencesExt, FiniteSets

CONSTANTS
    Tasks, Main,    \* threads of control; Main is there from the start
    Origins,        \* boundaries, by base URL
    MaxWindows,     \* bound on the windows opened
    MaxCalls        \* bound on the calls made

ASSUME DelegationAssumption ==
    /\ Main \in Tasks
    /\ MaxWindows \in Nat /\ MaxCalls \in Nat

VARIABLES
    node,       \* the SDK
    ctx,        \* the context variable of each task: a token, Denied, NoWindow
    chain,      \* the windows a task runs in, inherited ones first
    own,        \* how many of them it opened itself
    win,        \* the windows: a token is the number of its window
    calls,      \* the calls: what they are, where made and started, how they fare
    live,       \* the tasks that run
    revoked     \* external: the tokens the boundaries were told to revoke

vars == <<node, ctx, chain, own, win, calls, live, revoked>>

NoWindow == 0       \* also: no capability
Denied == -1
OwnToken == -2      \* a token that the caller brought along

Kinds == {"guard", "stream", "check"}
\* What a call may say of its capability.
Says(kind) == CASE kind = "guard"  -> {"unset"}
                [] kind = "stream" -> {"unset", "own"}
                [] kind = "check"  -> {"unset", "none", "own"}

-----------------------------------------------------------------------------
(* The store.                                                               *)

\* The token of the context, at the boundary that minted it only.
CurrentCapabilityFor(store, origin) ==
    IF store > 0 /\ win[store].origin = origin THEN store ELSE NoWindow

DelegationDenied(store) == store = Denied

\* External: the boundary keeps of a token what it was minted from; the token
\* ends with the revocation of any of these.
Lineage(token) == IF token > 0 THEN win[token].line ELSE {}
Alive(token) == Lineage(token) \cap revoked = {}

-----------------------------------------------------------------------------
(* Windows.                                                                 *)

\* The answers to a mint: a token (never from a dead parent), or none.
Minted(parent) == IF parent = NoWindow \/ Alive(parent) THEN BOOLEAN ELSE {FALSE}

\* Fault: a window inside a denied one asks for a token of its own.
MintAnyway(store, origin) ==
    [parent : {CurrentCapabilityFor(store, origin)},
     granted : Minted(CurrentCapabilityFor(store, origin))]
\* Fault: the enclosing token is not named as the parent.
MintOrphan(store, origin) ==
    IF DelegationDenied(store) THEN [parent : {NoWindow}, granted : {FALSE}]
    ELSE [parent : {NoWindow}, granted : Minted(NoWindow)]
\* How a window may begin in a context: with a token minted from the one
\* around it, or denied.
Mint(store, origin) ==
    IF DelegationDenied(store) THEN [parent : {NoWindow}, granted : {FALSE}]
    ELSE LET parent == CurrentCapabilityFor(store, origin)
         IN [parent : {parent}, granted : Minted(parent)]

NodeMint(store, origin) == Mint(store, origin)

OpenWindow(t, origin) ==
    LET w == Len(win) + 1 IN
    /\ t \in live /\ w <= MaxWindows
    /\ \E m \in (IF node THEN NodeMint(ctx[t], origin) ELSE Mint(ctx[t], origin)) :
          /\ win' = Append(win, [origin |-> origin, line |-> {w} \cup Lineage(m.parent),
                                 granted |-> m.granted, before |-> ctx[t]])
          /\ ctx' = [ctx EXCEPT ![t] = IF m.granted THEN w ELSE Denied]
    /\ chain' = [chain EXCEPT ![t] = Append(@, w)]
    /\ own' = [own EXCEPT ![t] = @ + 1]
    /\ UNCHANGED <<node, calls, live, revoked>>

\* Fault: the variable is emptied, whatever it held before the window.
Emptied(w) == NoWindow
Restored(w) == win[w].before

\* The token is revoked, unless the window says that it shall outlive the block
\* or the boundary does not take the revocation.
RevokeOnExit(w) == IF win[w].granted THEN {revoked, revoked \cup {w}} ELSE {revoked}
NodeRevokeOnExit(w) == RevokeOnExit(w)

\* The variable is reset first.
CloseWindow(t) ==
    LET w == Last(chain[t]) IN
    /\ t \in live /\ own[t] > 0
    /\ ctx' = [ctx EXCEPT ![t] = Restored(w)]
    /\ chain' = [chain EXCEPT ![t] = Front(@)]
    /\ own' = [own EXCEPT ![t] = @ - 1]
    /\ revoked' \in (IF node THEN NodeRevokeOnExit(w) ELSE RevokeOnExit(w))
    /\ UNCHANGED <<node, win, calls, live>>

\* A task or a thread with a copy of the context.
Spawn(t, child) ==
    /\ t \in live /\ child \notin live
    /\ live' = live \cup {child}
    /\ ctx' = [ctx EXCEPT ![child] = ctx[t]]
    /\ chain' = [chain EXCEPT ![child] = chain[t]]
    /\ UNCHANGED <<node, own, win, calls, revoked>>

-----------------------------------------------------------------------------
(* Calls.                                                                   *)

NewCall(t, kind, origin, says) ==
    [kind |-> kind, origin |-> origin, says |-> says, madeIn |-> chain[t],
     startedIn |-> <<>>, cap |-> NoWindow, state |-> "made"]

Locally(c) == [c EXCEPT !.state = "local"]
Sent(c, cap) == [c EXCEPT !.state = "sent", !.cap = cap]

\* A guarded tool: refused in a denied window, or without an owner to name;
\* else the boundary is asked, with what the context holds for it.
GuardTool(store, c) ==
    IF DelegationDenied(store) THEN {Locally(c)}
    ELSE {Locally(c), Sent(c, CurrentCapabilityFor(store, c.origin))}

\* A session is not opened in a denied window; a capability in the envelope
\* goes before the one of the context.
StreamSession(store, c) ==
    IF DelegationDenied(store) THEN {Locally(c)}
    ELSE {Sent(c, IF c.says = "own" THEN OwnToken ELSE CurrentCapabilityFor(store, c.origin))}

\* A question is refused in a denied window unless it brings its own token; it
\* may also opt out of the token of the context.
CheckBoundary(store, c) ==
    IF DelegationDenied(store) /\ c.says # "own" THEN {Locally(c)}
    ELSE {Sent(c, CASE c.says = "unset" -> CurrentCapabilityFor(store, c.origin)
                    [] c.says = "none"  -> NoWindow
                    [] c.says = "own"   -> OwnToken)}

NodeGuardTool(store, c)     == GuardTool(store, c)
NodeStreamSession(store, c) == StreamSession(store, c)
NodeCheckBoundary(store, c) == CheckBoundary(store, c)

\* A call reads the context of the task that starts it.
Started(t, c) ==
    LET at == [c EXCEPT !.startedIn = chain[t]]
    IN CASE c.kind = "guard"  -> IF node THEN NodeGuardTool(ctx[t], at) ELSE GuardTool(ctx[t], at)
         [] c.kind = "stream" -> IF node THEN NodeStreamSession(ctx[t], at)
                                 ELSE StreamSession(ctx[t], at)
         [] c.kind = "check"  -> IF node THEN NodeCheckBoundary(ctx[t], at)
                                 ELSE CheckBoundary(ctx[t], at)

Call(t, kind, origin, says) ==
    /\ t \in live /\ Len(calls) < MaxCalls
    /\ \E c \in Started(t, NewCall(t, kind, origin, says)) : calls' = Append(calls, c)
    /\ UNCHANGED <<node, ctx, chain, own, win, live, revoked>>

\* acheck_boundary is a plain def: it reads the context when it is called, so
\* that nothing is left to do later but to send.
Deferrable(kind) == kind # "check"

\* Python: the coroutine, or the session, is made here and not yet awaited.
MakeLater(t, kind, origin, says) ==
    /\ ~node /\ t \in live /\ Len(calls) < MaxCalls /\ Deferrable(kind)
    /\ calls' = Append(calls, NewCall(t, kind, origin, says))
    /\ UNCHANGED <<node, ctx, chain, own, win, live, revoked>>

Start(t, i) ==
    /\ t \in live /\ calls[i].state = "made"
    /\ \E c \in Started(t, calls[i]) : calls' = [calls EXCEPT ![i] = c]
    /\ UNCHANGED <<node, ctx, chain, own, win, live, revoked>>

\* External: what a boundary answers; a token it does not honour is refused.
Answers(c) ==
    IF c.cap > 0 /\ (win[c.cap].origin # c.origin \/ ~Alive(c.cap))
    THEN {"refused", "lost"} ELSE {"refused", "lost", "unledgered", "passing"}

\* A decision that is not in the ledger passes nothing.
ToolAllowed(answer) == answer = "passing"
NodeToolAllowed(answer) == ToolAllowed(answer)
\* A session is granted with a decision that passes in the same sense.
StreamGranted(answer) == answer = "passing"
NodeStreamGranted(answer) == StreamGranted(answer)
\* The view of a question does not say whether its decision is in the ledger.
BoundaryView(answer) == answer \in {"passing", "unledgered"}

Passes(c, answer) ==
    CASE c.kind = "guard"  -> IF node THEN NodeToolAllowed(answer) ELSE ToolAllowed(answer)
      [] c.kind = "stream" -> IF node THEN NodeStreamGranted(answer) ELSE StreamGranted(answer)
      [] c.kind = "check"  -> BoundaryView(answer)

Decide(i) ==
    /\ calls[i].state = "sent"
    /\ \E answer \in Answers(calls[i]) :
          calls' = [calls EXCEPT ![i].state =
                       IF Passes(calls[i], answer) THEN answer ELSE "refused"]
    /\ UNCHANGED <<node, ctx, chain, own, win, live, revoked>>

-----------------------------------------------------------------------------
Init ==
    /\ node \in BOOLEAN
    /\ ctx = [t \in Tasks |-> NoWindow]
    /\ chain = [t \in Tasks |-> <<>>]
    /\ own = [t \in Tasks |-> 0]
    /\ win = <<>> /\ calls = <<>>
    /\ live = {Main} /\ revoked = {}

Windows == \E t \in Tasks :
    \/ \E origin \in Origins : OpenWindow(t, origin)
    \/ CloseWindow(t)
    \/ \E child \in Tasks : Spawn(t, child)

Calling == \E t \in Tasks :
    \/ \E kind \in Kinds, origin \in Origins : \E says \in Says(kind) :
          Call(t, kind, origin, says) \/ MakeLater(t, kind, origin, says)
    \/ \E i \in 1..Len(calls) : Start(t, i)

Next == Windows \/ Calling \/ \E i \in 1..Len(calls) : Decide(i)

Spec == Init /\ [][Next]_vars

-----------------------------------------------------------------------------
(* Properties.                                                              *)

Ran(c) == c.state \in {"passing", "unledgered"}
Asked(c) == c.state \in {"sent", "refused"} \/ Ran(c)
ByContext(c) == c.says = "unset"

\* The windows of a boundary in a chain, and those of them that no window of
\* another boundary further in hides.
Around(windows, origin) ==
    {windows[k] : k \in {k \in 1..Len(windows) : win[windows[k]].origin = origin}}
Enclosing(windows, origin) ==
    {windows[k] : k \in {k \in 1..Len(windows) :
        \A j \in k..Len(windows) : win[windows[j]].origin = origin}}

\* A call that leaves its capability to the context carries the token of the
\* last window around the task that starts it, minted from all those before it
\* up to one of another boundary, if that window is of the boundary it asks; and
\* it carries nothing otherwise, also when a window of its boundary is hidden.
\* So it is however windows were nested, closed out of turn or inherited
\* (delegate, current_capability_for).
CarriesInnermost ==
    \A i \in 1..Len(calls) : LET c == calls[i] IN
        Asked(c) /\ ByContext(c) =>
            /\ Enclosing(c.startedIn, c.origin) = {} => c.cap = NoWindow
            /\ Enclosing(c.startedIn, c.origin) # {} =>
                  /\ c.cap = Last(c.startedIn)
                  /\ Enclosing(c.startedIn, c.origin) \subseteq Lineage(c.cap)

\* ai_native.py:308-309: delegate() attaches its token "to every guarded call
\* inside the block"; here without the exception of hidden windows.
AttachedToEvery ==
    \A i \in 1..Len(calls) : LET c == calls[i] IN
        Asked(c) /\ c.kind = "guard" /\ Around(c.startedIn, c.origin) # {} => c.cap # NoWindow

\* Inside a window whose mint failed, however deeply and in whatever task,
\* nothing is asked of a boundary, except a question with a token of the
\* caller's own.
DeniedAsksNothing ==
    \A i \in 1..Len(calls) : LET c == calls[i] IN
        Asked(c) /\ (\E k \in 1..Len(c.startedIn) : ~win[c.startedIn[k]].granted)
            => c.kind = "check" /\ c.says = "own"

\* Once the token of a window is revoked, no call from inside it at that
\* boundary is allowed any more, whatever task it is of, unless a window of
\* another boundary hides it; and none is allowed with a token that was minted
\* from the revoked one (revoke_on_exit of delegate).
RevokedEnds ==
    [][\A i \in 1..Len(calls) : LET c == calls[i] IN
          ~Ran(c) /\ Ran(calls'[i]) /\ ByContext(c)
              => /\ Enclosing(c.startedIn, c.origin) \cap revoked = {}
                 /\ Lineage(c.cap) \cap revoked = {}]_vars

\* ai_native.py:311-314: the windows of one boundary narrow each other and
\* "revocation stays transitive"; here for hidden windows as well.
RevokedEndsAll ==
    [][\A i \in 1..Len(calls) : LET c == calls[i] IN
          ~Ran(c) /\ Ran(calls'[i]) /\ ByContext(c)
              => Around(c.startedIn, c.origin) \cap revoked = {}]_vars

\* ai_native.py:317-321: "If the mint is refused ... every guard_tool call
\* inside returns None": said of the code inside the with statement.
DeniedInsideMeansInside ==
    \A i \in 1..Len(calls) : LET c == calls[i] IN
        (\E k \in 1..Len(c.madeIn) : ~win[c.madeIn[k]].granted) => ~(c.kind = "guard" /\ Asked(c))
=============================================================================
