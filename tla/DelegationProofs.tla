-------------------------- MODULE DelegationProofs --------------------------
(***************************************************************************)
(* Proofs about Delegation, for any tasks, boundaries, windows and calls.  *)
(*                                                                         *)
(*   WindowsType   the types of windows, contexts and calls                *)
(*   DeniedClosed  Delegation!DeniedAsksNothing                            *)
(*   Innermost     Delegation!CarriesInnermost                             *)
(*   Revoked       Delegation!RevokedEnds                                  *)
(*                                                                         *)
(* What is asked depends on the context of the task that starts a call;    *)
(* the properties speak of the windows around it.  The two agree as long   *)
(* as every window remembers, for the time after it, what the windows      *)
(* around it left in the context: Remembered says so of a denial, Inner of *)
(* a token, and that each token descends from those around it.             *)
(***************************************************************************)
EXTENDS Delegation, TLAPS

WinType  == [origin : Origins, line : SUBSET Nat, granted : BOOLEAN, before : Int]
CallType == [kind : Kinds, origin : Origins, says : {"unset", "none", "own"},
             madeIn : Seq(Nat), startedIn : Seq(Nat), cap : Int,
             state : {"made", "local", "sent", "refused", "lost", "unledgered",
                      "passing"}]

\* The windows, contexts and calls have their types; what is remembered, said
\* and run in are windows that were opened, and only a task that runs opened any.
Types ==
  /\ ctx \in [Tasks -> Int] /\ chain \in [Tasks -> Seq(Nat)]
  /\ own \in [Tasks -> Nat]
  /\ win \in Seq(WinType) /\ calls \in Seq(CallType)
  /\ live \subseteq Tasks
  /\ \A t \in Tasks : /\ own[t] <= Len(chain[t])
                      /\ t \notin live => own[t] = 0
                      /\ ctx[t] <= Len(win)
                      /\ \A k \in 1 .. Len(chain[t]) : chain[t][k] \in 1 .. Len(win)
  /\ \A w \in 1 .. Len(win) : win[w].before <= Len(win)
  /\ \A i \in 1 .. Len(calls) :
       /\ calls[i].cap <= Len(win)
       /\ \A k \in 1 .. Len(calls[i].startedIn) :
            calls[i].startedIn[k] \in 1 .. Len(win)

\* A window around the task was denied.
DeniedIn(windows) == \E k \in 1 .. Len(windows) : ~win[windows[k]].granted

\* A task in a denied window knows it;
Known == \A t \in Tasks : DeniedIn(chain[t]) => ctx[t] = Denied
\* it will know it when the windows inside that one are left;
Remembered ==
  \A t \in Tasks : \A k \in 1 .. Len(chain[t]) :
    (\E j \in 1 .. k - 1 : ~win[chain[t][j]].granted)
      => win[chain[t][k]].before = Denied

DelegationInv == Types /\ Known /\ Remembered /\ DeniedAsksNothing

LEMMA DelegationInit == Init => DelegationInv
BY DelegationAssumption
DEF Init, DelegationInv, Types, Known, Remembered, DeniedIn, DeniedAsksNothing,
    NoWindow, DelegationAssumption

LEMMA WinFields ==
  ASSUME Types
  PROVE  /\ Len(win) \in Nat
         /\ \A w \in 1 .. Len(win) :
              /\ win[w].line \in SUBSET Nat
              /\ win[w].before \in Int /\ win[w].before <= Len(win)
<1>1. win \in Seq(WinType) /\ Len(win) \in Nat
  BY DEF Types
<1>2. ASSUME NEW w \in 1 .. Len(win)
      PROVE  win[w].line \in SUBSET Nat /\ win[w].before \in Int
  <2>1. win[w] \in WinType
    BY <1>1
  <2> QED
    BY <2>1 DEF WinType
<1> QED
  BY <1>1, <1>2 DEF Types

LEMMA CallFields ==
  ASSUME Types, NEW i \in 1 .. Len(calls)
  PROVE  /\ calls[i] \in CallType
         /\ calls[i].cap \in Int /\ calls[i].cap <= Len(win)
<1>1. calls[i] \in CallType
  BY DEF Types
<1> QED
  BY <1>1 DEF Types, CallType

-----------------------------------------------------------------------------
(* Windows.                                                                 *)

\* How a window may begin: a denied context begins denied ones only.
LEMMA MintType ==
  ASSUME Types, NEW t \in Tasks, NEW origin \in Origins,
         NEW m \in Mint(ctx[t], origin)
  PROVE  /\ m.parent \in 0 .. Len(win) /\ m.granted \in BOOLEAN
         /\ ctx[t] = Denied => ~m.granted
         /\ m.granted => m.parent = CurrentCapabilityFor(ctx[t], origin)
<1>0. Len(win) \in Nat
  BY DEF Types
<1>1. CurrentCapabilityFor(ctx[t], origin) \in 0 .. Len(win)
  BY <1>0 DEF CurrentCapabilityFor, NoWindow, Types
<1>2. \A p : Minted(p) \in {BOOLEAN, {FALSE}}
  BY DEF Minted
<1>3. CASE ctx[t] = Denied
  <2>1. Mint(ctx[t], origin) = [parent : {NoWindow}, granted : {FALSE}]
    BY <1>3 DEF Mint, DelegationDenied
  <2>2. m \in [parent : {NoWindow}, granted : {FALSE}]
    BY <2>1
  <2>3. m.parent = NoWindow
    BY <2>2
  <2>4. m.granted \in {FALSE}
    BY <2>2
  <2>5. m.granted = FALSE
    BY <2>4, Zenon
  <2>6. m.granted \in BOOLEAN /\ ~m.granted
    BY <2>5, Zenon
  <2> QED
    BY <1>0, <2>3, <2>6 DEF NoWindow
<1>4. CASE ctx[t] # Denied
  <2> DEFINE p == CurrentCapabilityFor(ctx[t], origin)
  <2>1. m \in [parent : {p}, granted : Minted(p)]
    BY <1>4 DEF Mint, DelegationDenied
  <2>2. m.parent = p /\ m.granted \in Minted(p)
    BY <2>1
  <2>3. m.granted \in BOOLEAN
    BY <1>2, <2>2
  <2> QED
    BY <1>1, <1>4, <2>2, <2>3
<1> QED
  BY <1>3, <1>4

\* Calls that are made stay as they are while windows are opened.
LEMMA CallsKeep ==
  ASSUME DelegationInv, UNCHANGED calls, Len(win') \in Nat, Len(win) <= Len(win'),
         \A w \in 1 .. Len(win) : w \in 1 .. Len(win') /\ win'[w] = win[w]
  PROVE  /\ DeniedAsksNothing'
         /\ \A i \in 1 .. Len(calls') :
              /\ calls'[i].cap <= Len(win')
              /\ \A k \in 1 .. Len(calls'[i].startedIn) :
                   calls'[i].startedIn[k] \in 1 .. Len(win')
<1>1. DeniedAsksNothing'
  BY DEF DelegationInv, Types, DeniedAsksNothing, Asked, Ran
<1>2. Len(win) \in Nat
  BY DEF DelegationInv, Types
<1>3. \A i \in 1 .. Len(calls) : calls[i].cap <= Len(win')
  BY <1>2, CallFields DEF DelegationInv
<1>4. \A i \in 1 .. Len(calls) : \A k \in 1 .. Len(calls[i].startedIn) :
        calls[i].startedIn[k] \in 1 .. Len(win')
  BY DEF DelegationInv, Types
<1> QED
  BY <1>1, <1>3, <1>4

LEMMA OpenKeeps ==
  ASSUME DelegationInv, NEW t \in Tasks, NEW origin \in Origins,
         OpenWindow(t, origin)
  PROVE  DelegationInv'
<1> DEFINE w == Len(win) + 1
<1>1. PICK m \in Mint(ctx[t], origin) :
        /\ win' = Append(win, [origin |-> origin, line |-> {w} \cup Lineage(m.parent),
                               granted |-> m.granted, before |-> ctx[t]])
        /\ ctx' = [ctx EXCEPT ![t] = IF m.granted THEN w ELSE Denied]
  BY DEF OpenWindow, NodeMint
<1>2. /\ chain' = [chain EXCEPT ![t] = Append(@, w)]
      /\ own' = [own EXCEPT ![t] = @ + 1]
      /\ t \in live /\ UNCHANGED <<calls, live>>
  BY DEF OpenWindow
<1>3. Types
  BY DEF DelegationInv
<1>4. /\ m.parent \in 0 .. Len(win) /\ m.granted \in BOOLEAN
      /\ ctx[t] = Denied => ~m.granted
  BY <1>3, MintType
<1>c. Lineage(m.parent) \in SUBSET Nat /\ ctx[t] \in Int /\ ctx[t] <= Len(win)
  BY <1>3, <1>4, WinFields DEF Lineage, Types
<1>5. /\ win' \in Seq(WinType) /\ Len(win') = w /\ w \in Nat
      /\ \A v \in 1 .. Len(win) : v \in 1 .. Len(win') /\ win'[v] = win[v]
      /\ win'[w].granted = m.granted /\ win'[w].before = ctx[t]
  <2> DEFINE r == [origin |-> origin, line |-> {w} \cup Lineage(m.parent),
                   granted |-> m.granted, before |-> ctx[t]]
  <2>1. r \in WinType /\ r.granted = m.granted /\ r.before = ctx[t]
    BY <1>3, <1>4, <1>c DEF WinType, Types
  <2> HIDE DEF r
  <2>2. win \in Seq(WinType) /\ win' = Append(win, r)
    BY <1>1, <1>3 DEF Types, r
  <2> QED
    BY <2>1, <2>2
<1>6. /\ chain' \in [Tasks -> Seq(Nat)]
      /\ Len(chain'[t]) = Len(chain[t]) + 1 /\ chain'[t][Len(chain'[t])] = w
      /\ \A k \in 1 .. Len(chain[t]) : chain'[t][k] = chain[t][k]
      /\ \A u \in Tasks \ {t} : chain'[u] = chain[u]
  BY <1>2, <1>3, <1>5 DEF Types
<1>a. \A u \in Tasks :
        /\ Len(chain[u]) \in Nat /\ Len(chain'[u]) \in Nat
        /\ \A k \in 1 .. Len(chain[u]) :
             chain[u][k] \in 1 .. Len(win) /\ win'[chain[u][k]] = win[chain[u][k]]
  <2>1. chain \in [Tasks -> Seq(Nat)] /\ chain' \in [Tasks -> Seq(Nat)]
    BY <1>3, <1>6 DEF Types
  <2>2. \A u \in Tasks : Len(chain[u]) \in Nat /\ Len(chain'[u]) \in Nat
    BY <2>1
  <2>3. \A u \in Tasks : \A k \in 1 .. Len(chain[u]) : chain[u][k] \in 1 .. Len(win)
    BY <1>3 DEF Types
  <2> QED
    BY <1>5, <2>2, <2>3
<1>b. \A k \in 1 .. Len(chain'[t]) : k \in 1 .. Len(chain[t]) \/ k = Len(chain'[t])
  BY <1>6, <1>a
<1>d. /\ DeniedAsksNothing'
      /\ \A i \in 1 .. Len(calls') :
           /\ calls'[i].cap <= Len(win')
           /\ \A k \in 1 .. Len(calls'[i].startedIn) :
                calls'[i].startedIn[k] \in 1 .. Len(win')
  <2>1. UNCHANGED calls /\ Len(win') \in Nat /\ Len(win) <= Len(win')
    BY <1>2, <1>3, <1>5, WinFields
  <2> QED
    BY <1>5, <2>1, CallsKeep
<1>7. Types'
  <2>1. ctx' \in [Tasks -> Int] /\ own' \in [Tasks -> Nat]
    BY <1>1, <1>2, <1>3, <1>5 DEF Types, Denied
  <2>3. \A u \in Tasks : ctx'[u] <= Len(win')
    BY <1>1, <1>3, <1>5 DEF Types, Denied
  <2>4. \A v \in 1 .. Len(win') : win'[v].before <= Len(win')
    <3>1. /\ Len(win) \in Nat
          /\ \A v \in 1 .. Len(win) : win[v].before \in Int /\ win[v].before <= Len(win)
      BY <1>3, WinFields
    <3>2. \A v \in 1 .. Len(win') : v \in 1 .. Len(win) \/ v = w
      BY <1>5, <3>1
    <3>3. \A v \in 1 .. Len(win) : win'[v].before <= Len(win')
      BY <1>5, <3>1
    <3>4. win'[w].before <= Len(win')
      BY <1>5, <1>c, <3>1
    <3> QED
      BY <3>2, <3>3, <3>4
  <2>2. ASSUME NEW u \in Tasks
        PROVE  /\ own'[u] <= Len(chain'[u])
               /\ u \notin live' => own'[u] = 0
               /\ \A k \in 1 .. Len(chain'[u]) : chain'[u][k] \in 1 .. Len(win')
    <3>1. CASE u = t
      <4>1. own'[t] = own[t] + 1 /\ own[t] \in Nat /\ own[t] <= Len(chain[t])
        BY <1>2, <1>3 DEF Types
      <4>2. ASSUME NEW k \in 1 .. Len(chain'[t])
            PROVE  chain'[t][k] \in 1 .. Len(win')
        <5>1. CASE k \in 1 .. Len(chain[t])
          BY <1>5, <1>6, <1>a, <5>1
        <5>2. CASE k = Len(chain'[t])
          BY <1>5, <1>6, <5>2
        <5> QED
          BY <1>b, <5>1, <5>2
      <4> QED
        BY <1>2, <1>6, <1>a, <3>1, <4>1, <4>2
    <3>2. CASE u # t
      <4>1. own'[u] = own[u] /\ chain'[u] = chain[u] /\ live' = live
        BY <1>2, <1>3, <1>6, <3>2 DEF Types
      <4>2. \A k \in 1 .. Len(chain[u]) : chain[u][k] \in 1 .. Len(win')
        BY <1>5, <1>a
      <4> QED
        BY <1>3, <4>1, <4>2 DEF Types
    <3> QED
      BY <3>1, <3>2
  <2> QED
    BY <1>2, <1>3, <1>5, <1>6, <1>d, <2>1, <2>2, <2>3, <2>4 DEF Types
<1>8. Known'
  <2> SUFFICES ASSUME NEW u \in Tasks, NEW k \in 1 .. Len(chain'[u]),
                      ~win'[chain'[u][k]].granted
               PROVE  ctx'[u] = Denied
    BY DEF Known, DeniedIn
  <2>1. CASE u # t
    <3>1. chain'[u] = chain[u] /\ ctx'[u] = ctx[u]
      BY <1>1, <1>3, <1>6, <2>1 DEF Types
    <3>2. DeniedIn(chain[u])
      BY <1>a, <3>1 DEF DeniedIn
    <3> QED
      BY <3>1, <3>2 DEF DelegationInv, Known
  <2>2. CASE u = t /\ k \in 1 .. Len(chain[t])
    <3>0. /\ chain'[t][k] = chain[t][k]
          /\ win'[chain[t][k]] = win[chain[t][k]]
      BY <1>6, <1>a, <2>2
    <3>1. DeniedIn(chain[t])
      BY <2>2, <3>0 DEF DeniedIn
    <3>2. ctx[t] = Denied
      BY <3>1 DEF DelegationInv, Known
    <3> QED
      BY <1>1, <1>3, <1>4, <2>2, <3>2 DEF Types
  <2>3. CASE u = t /\ k = Len(chain'[t])
    BY <1>1, <1>3, <1>5, <1>6, <2>3 DEF Types
  <2> QED
    BY <1>b, <2>1, <2>2, <2>3
<1>9. Remembered'
  <2> SUFFICES ASSUME NEW u \in Tasks, NEW k \in 1 .. Len(chain'[u]),
                      NEW j \in 1 .. k - 1, ~win'[chain'[u][j]].granted
               PROVE  win'[chain'[u][k]].before = Denied
    BY DEF Remembered
  <2>0. DelegationInv /\ k \in Nat /\ j \in 1 .. Len(chain'[u])
    BY <1>a
  <2>1. CASE u # t
    <3>1. chain'[u] = chain[u]
      BY <1>6, <2>1
    <3>2. k \in 1 .. Len(chain[u]) /\ j \in 1 .. Len(chain[u])
      BY <2>0, <3>1
    <3>3. /\ win'[chain'[u][j]] = win[chain[u][j]]
          /\ win'[chain'[u][k]] = win[chain[u][k]]
      BY <1>a, <3>1, <3>2
    <3>4. win[chain[u][k]].before = Denied
      BY <3>2, <3>3 DEF DelegationInv, Remembered
    <3> QED
      BY <3>3, <3>4
  <2>2. CASE u = t /\ k \in 1 .. Len(chain[t])
    <3>0. j \in 1 .. Len(chain[t])
      BY <1>a, <2>0, <2>2
    <3>1. ~win[chain[t][j]].granted
      <4>1. /\ chain'[t][j] = chain[t][j]
            /\ win'[chain[t][j]] = win[chain[t][j]]
        BY <1>6, <1>a, <3>0
      <4> QED
        BY <2>2, <4>1
    <3>2. win[chain[t][k]].before = Denied
      BY <2>2, <3>1 DEF DelegationInv, Remembered
    <3> QED
      BY <1>6, <1>a, <2>2, <3>2
  <2>3. CASE u = t /\ k = Len(chain'[t])
    <3>1. j \in 1 .. Len(chain[t])
      BY <1>6, <1>a, <2>3
    <3>0. /\ chain'[t][j] = chain[t][j]
          /\ win'[chain[t][j]] = win[chain[t][j]]
      BY <1>6, <1>a, <3>1
    <3>2. DeniedIn(chain[t])
      BY <2>3, <3>0, <3>1 DEF DeniedIn
    <3> QED
      BY <1>5, <1>6, <2>3, <3>2 DEF DelegationInv, Known
  <2> QED
    BY <1>b, <2>1, <2>2, <2>3
<1> QED
  BY <1>7, <1>8, <1>9, <1>d DEF DelegationInv

\* All but the last element of a chain.
LEMMA FrontOf ==
  ASSUME NEW s \in Seq(Nat), Len(s) > 0
  PROVE  /\ Front(s) \in Seq(Nat) /\ Len(Front(s)) = Len(s) - 1
         /\ \A k \in 1 .. Len(s) - 1 : Front(s)[k] = s[k]
<1> DEFINE n == Len(s) - 1
<1>1. n \in Nat /\ \A k \in 1 .. n : s[k] \in Nat
  OBVIOUS
<1>2. Front(s) = [k \in 1 .. n |-> s[k]]
  BY DEF Front
<1> HIDE DEF n
<1>3. Front(s) \in Seq(Nat) /\ Len(Front(s)) = n
  BY <1>1, <1>2
<1> QED
  BY <1>2, <1>3 DEF n

LEMMA CloseKeeps ==
  ASSUME DelegationInv, NEW t \in Tasks, CloseWindow(t)
  PROVE  DelegationInv'
<1> DEFINE w == Last(chain[t])
<1>1. /\ ctx' = [ctx EXCEPT ![t] = win[w].before]
      /\ chain' = [chain EXCEPT ![t] = Front(@)]
      /\ own' = [own EXCEPT ![t] = @ - 1]
      /\ t \in live /\ own[t] > 0 /\ UNCHANGED <<win, calls, live>>
  BY DEF CloseWindow, Restored
<1>2. Types /\ Len(chain[t]) \in Nat \ {0}
  BY <1>1 DEF DelegationInv, Types
<1>3. /\ w = chain[t][Len(chain[t])] /\ w \in 1 .. Len(win)
      /\ win[w].before \in Int /\ win[w].before <= Len(win)
  <2>1. w = chain[t][Len(chain[t])]
    BY DEF Last
  <2>2. chain[t][Len(chain[t])] \in 1 .. Len(win)
    BY <1>2 DEF Types
  <2>3. win[w] \in WinType
    BY <1>2, <2>1, <2>2 DEF Types
  <2> QED
    BY <1>2, <2>1, <2>2, <2>3 DEF WinType, Types
<1>4. /\ chain' \in [Tasks -> Seq(Nat)]
      /\ Len(chain'[t]) = Len(chain[t]) - 1
      /\ \A k \in 1 .. Len(chain'[t]) : chain'[t][k] = chain[t][k]
      /\ \A u \in Tasks \ {t} : chain'[u] = chain[u]
  <2>1. chain \in [Tasks -> Seq(Nat)] /\ chain[t] \in Seq(Nat)
    BY <1>2 DEF Types
  <2>2. /\ Front(chain[t]) \in Seq(Nat)
        /\ Len(Front(chain[t])) = Len(chain[t]) - 1
        /\ \A k \in 1 .. Len(chain[t]) - 1 : Front(chain[t])[k] = chain[t][k]
    BY <1>2, <2>1, FrontOf
  <2> QED
    BY <1>1, <2>1, <2>2
<1> HIDE DEF w
<1>a. \A u \in Tasks :
        /\ Len(chain[u]) \in Nat /\ Len(chain'[u]) \in Nat
        /\ \A k \in 1 .. Len(chain[u]) : chain[u][k] \in 1 .. Len(win)
        /\ \A k \in 1 .. Len(chain'[u]) :
             k \in 1 .. Len(chain[u]) /\ chain'[u][k] = chain[u][k]
  <2> SUFFICES ASSUME NEW u \in Tasks
               PROVE  /\ Len(chain[u]) \in Nat /\ Len(chain'[u]) \in Nat
                      /\ \A k \in 1 .. Len(chain[u]) : chain[u][k] \in 1 .. Len(win)
                      /\ \A k \in 1 .. Len(chain'[u]) :
                           k \in 1 .. Len(chain[u]) /\ chain'[u][k] = chain[u][k]
    OBVIOUS
  <2>1. /\ Len(chain[u]) \in Nat /\ Len(chain'[u]) \in Nat
        /\ \A k \in 1 .. Len(chain[u]) : chain[u][k] \in 1 .. Len(win)
    BY <1>2, <1>4 DEF Types
  <2>2. CASE u = t
    BY <1>4, <2>1, <2>2
  <2>3. CASE u # t
    BY <1>4, <2>1, <2>3
  <2> QED
    BY <2>1, <2>2, <2>3
<1>5. Types'
  <2>1. ctx' \in [Tasks -> Int] /\ own' \in [Tasks -> Nat]
    BY <1>1, <1>2, <1>3 DEF Types
  <2>2. ASSUME NEW u \in Tasks
        PROVE  /\ own'[u] <= Len(chain'[u])
               /\ u \notin live' => own'[u] = 0
               /\ \A k \in 1 .. Len(chain'[u]) : chain'[u][k] \in 1 .. Len(win')
    <3>1. /\ own[u] \in Nat /\ own[u] <= Len(chain[u])
          /\ u \notin live => own[u] = 0
      BY <1>2 DEF Types
    <3>2. \A k \in 1 .. Len(chain'[u]) : chain'[u][k] \in 1 .. Len(win')
      BY <1>1, <1>a
    <3>3. CASE u = t
      BY <1>1, <1>2, <1>4, <3>1, <3>2, <3>3 DEF Types
    <3>4. CASE u # t
      BY <1>1, <1>2, <1>4, <3>1, <3>2, <3>4 DEF Types
    <3> QED
      BY <3>3, <3>4
  <2>3. \A u \in Tasks : ctx'[u] <= Len(win')
    BY <1>1, <1>2, <1>3 DEF Types
  <2> QED
    BY <1>1, <1>2, <1>4, <2>1, <2>2, <2>3 DEF Types
<1>6. Known'
  <2> SUFFICES ASSUME NEW u \in Tasks, NEW k \in 1 .. Len(chain'[u]),
                      ~win[chain'[u][k]].granted
               PROVE  ctx'[u] = Denied
    BY <1>1 DEF Known, DeniedIn
  <2>0. k \in 1 .. Len(chain[u]) /\ ~win[chain[u][k]].granted
    BY <1>a
  <2>1. CASE u # t
    <3>1. ctx'[u] = ctx[u]
      BY <1>1, <1>2, <2>1 DEF Types
    <3> QED
      BY <2>0, <3>1 DEF DelegationInv, Known, DeniedIn
  <2>2. CASE u = t
    <3>1. k \in 1 .. Len(chain[t]) - 1
      BY <1>4, <1>a, <2>2
    <3>2. win[chain[t][Len(chain[t])]].before = Denied
      BY <1>2, <1>a, <2>0, <2>2, <3>1 DEF DelegationInv, Remembered
    <3> QED
      BY <1>1, <1>2, <1>3, <2>2, <3>2 DEF Types
  <2> QED
    BY <2>1, <2>2
<1>7. Remembered'
  <2> SUFFICES ASSUME NEW u \in Tasks, NEW k \in 1 .. Len(chain'[u]),
                      NEW j \in 1 .. k - 1, ~win[chain'[u][j]].granted
               PROVE  win[chain'[u][k]].before = Denied
    BY <1>1 DEF Remembered
  <2>1. j \in 1 .. Len(chain'[u])
    BY <1>a
  <2>2. /\ chain'[u][j] = chain[u][j] /\ chain'[u][k] = chain[u][k]
        /\ k \in 1 .. Len(chain[u])
    BY <1>a, <2>1
  <2> QED
    BY <2>2 DEF DelegationInv, Remembered
<1> QED
  BY <1>1, <1>2, <1>5, <1>6, <1>7, WinFields, CallsKeep DEF DelegationInv

LEMMA SpawnKeeps ==
  ASSUME DelegationInv, NEW t \in Tasks, NEW child \in Tasks, Spawn(t, child)
  PROVE  DelegationInv'
<1>1. /\ live' = live \cup {child} /\ child \notin live
      /\ ctx' = [ctx EXCEPT ![child] = ctx[t]]
      /\ chain' = [chain EXCEPT ![child] = chain[t]]
      /\ UNCHANGED <<own, win, calls>>
  BY DEF Spawn
<1>2. Types
  BY DEF DelegationInv
<1>3. \A u \in Tasks : \E v \in Tasks : ctx'[u] = ctx[v] /\ chain'[u] = chain[v]
  BY <1>1, <1>2 DEF Types
<1>4. Types'
  BY <1>1, <1>2 DEF Types
<1>5. ASSUME NEW u \in Tasks
      PROVE  /\ (\E k \in 1 .. Len(chain'[u]) : ~win'[chain'[u][k]].granted)
                  => ctx'[u] = Denied
             /\ \A k \in 1 .. Len(chain'[u]) :
                  (\E j \in 1 .. k - 1 : ~win'[chain'[u][j]].granted)
                    => win'[chain'[u][k]].before = Denied
  <2>1. PICK v \in Tasks : ctx'[u] = ctx[v] /\ chain'[u] = chain[v]
    BY <1>3
  <2>2. /\ (\E k \in 1 .. Len(chain[v]) : ~win[chain[v][k]].granted)
             => ctx[v] = Denied
        /\ \A k \in 1 .. Len(chain[v]) :
             (\E j \in 1 .. k - 1 : ~win[chain[v][j]].granted)
               => win[chain[v][k]].before = Denied
    BY DEF DelegationInv, Known, Remembered, DeniedIn
  <2>3. win' = win
    BY <1>1
  <2> QED
    BY <2>1, <2>2, <2>3
<1>6. Known' /\ Remembered'
  BY <1>5 DEF Known, Remembered, DeniedIn
<1> QED
  BY <1>1, <1>2, <1>4, <1>6, CallsKeep DEF DelegationInv, Types

-----------------------------------------------------------------------------
(* Calls.                                                                   *)

\* A call fits: it names windows that were opened, and asks nothing that a
\* denied one around it forbids.
Fits(c) ==
  /\ c \in CallType /\ c.cap <= Len(win)
  /\ \A k \in 1 .. Len(c.startedIn) : c.startedIn[k] \in 1 .. Len(win)
  /\ Asked(c) /\ DeniedIn(c.startedIn) => c.kind = "check" /\ c.says = "own"

LEMMA FitsMeans ==
  ASSUME UNCHANGED win, DelegationInv,
         UNCHANGED <<ctx, chain, own, live>>, calls' \in Seq(CallType),
         \A i \in 1 .. Len(calls') : Fits(calls'[i])
  PROVE  DelegationInv'
<1>1. Types' /\ Known' /\ Remembered'
  BY DEF DelegationInv, Types, Known, Remembered, DeniedIn, Fits
<1>2. DeniedAsksNothing'
  BY DEF DeniedAsksNothing, Fits, DeniedIn, Asked, Ran
<1> QED
  BY <1>1, <1>2 DEF DelegationInv

\* All calls that are there fit.
LEMMA AllFit ==
  ASSUME DelegationInv
  PROVE  \A i \in 1 .. Len(calls) : Fits(calls[i])
BY DEF DelegationInv, Types, DeniedAsksNothing, Fits, DeniedIn

\* A call that a task starts fits.
LEMMA StartedFits ==
  ASSUME DelegationInv, NEW t \in Tasks, NEW c0 \in CallType,
         c0.cap <= Len(win), NEW c \in Started(t, c0)
  PROVE  Fits(c)
<1> DEFINE at == [c0 EXCEPT !.startedIn = chain[t]]
<1>1. /\ at \in CallType /\ at.startedIn = chain[t]
      /\ at.kind = c0.kind /\ at.says = c0.says /\ at.origin = c0.origin
      /\ at.cap = c0.cap
  BY DEF DelegationInv, Types, CallType
<1>2. \/ /\ at.kind = "guard" /\ c \in GuardTool(ctx[t], at)
      \/ /\ at.kind = "stream" /\ c \in StreamSession(ctx[t], at)
      \/ /\ at.kind = "check" /\ c \in CheckBoundary(ctx[t], at)
  BY <1>1 DEF Started, NodeGuardTool, NodeStreamSession, NodeCheckBoundary,
              CallType, Kinds
<1> HIDE DEF at
<1>3. ASSUME NEW cap \in Int
      PROVE  /\ Sent(at, cap) \in CallType /\ Sent(at, cap).startedIn = chain[t]
             /\ Sent(at, cap).kind = at.kind /\ Sent(at, cap).says = at.says
             /\ Sent(at, cap).cap = cap
  BY <1>1, <1>3 DEF Sent, CallType
<1>4. /\ Locally(at) \in CallType /\ Locally(at).startedIn = chain[t]
      /\ Locally(at).state = "local" /\ Locally(at).cap = c0.cap
  BY <1>1 DEF Locally, CallType
<1>0. Len(win) \in Nat
  BY DEF DelegationInv, Types
<1>5. /\ CurrentCapabilityFor(ctx[t], at.origin) \in Int
      /\ CurrentCapabilityFor(ctx[t], at.origin) <= Len(win)
  BY <1>0 DEF CurrentCapabilityFor, DelegationInv, Types, NoWindow
<1>6. c = Locally(at) \/ \E cap \in Int : cap <= Len(win) /\ c = Sent(at, cap)
  <2>1. CASE c \in GuardTool(ctx[t], at)
    BY <1>5, <2>1 DEF GuardTool
  <2>2. CASE c \in StreamSession(ctx[t], at)
    BY <1>0, <1>5, <2>2 DEF StreamSession, OwnToken
  <2>3. CASE at.kind = "check" /\ c \in CheckBoundary(ctx[t], at)
    <3>1. at.says \in {"unset", "none", "own"}
      BY <1>1 DEF CallType
    <3> QED
      BY <1>0, <1>5, <2>3, <3>1 DEF CheckBoundary, OwnToken, NoWindow
  <2> QED
    BY <1>2, <2>1, <2>2, <2>3
<1>7. c \in CallType /\ c.startedIn = chain[t] /\ c.cap <= Len(win)
  BY <1>3, <1>4, <1>6
<1>8. ASSUME DeniedIn(chain[t]), Asked(c)
      PROVE  c.kind = "check" /\ c.says = "own"
  <2>1. ctx[t] = Denied
    BY <1>8 DEF DelegationInv, Known
  <2>2. c # Locally(at)
    BY <1>4, <1>8 DEF Asked, Ran
  <2>3. at.kind = "check" /\ at.says = "own"
    BY <1>2, <2>1, <2>2
    DEF GuardTool, StreamSession, CheckBoundary, DelegationDenied
  <2> QED
    BY <1>3, <1>6, <2>2, <2>3
<1> QED
  BY <1>7, <1>8 DEF Fits, DelegationInv, Types

LEMMA NewCallType ==
  ASSUME Types, NEW t \in Tasks, NEW kind \in Kinds, NEW origin \in Origins,
         NEW says \in Says(kind)
  PROVE  NewCall(t, kind, origin, says) \in CallType
<1>1. says \in {"unset", "none", "own"}
  BY DEF Says, Kinds
<1> QED
  BY <1>1 DEF NewCall, CallType, Types, NoWindow

LEMMA CallKeeps ==
  ASSUME DelegationInv, NEW t \in Tasks, NEW kind \in Kinds,
         NEW origin \in Origins, NEW says \in Says(kind),
         Call(t, kind, origin, says) \/ MakeLater(t, kind, origin, says)
  PROVE  DelegationInv'
<1>1. PICK c : Fits(c) /\ calls' = Append(calls, c)
  <2> DEFINE n == NewCall(t, kind, origin, says)
  <2>1. n \in CallType
    BY NewCallType DEF DelegationInv
  <2>2. n.state = "made" /\ n.startedIn = <<>> /\ n.cap <= Len(win)
    BY WinFields DEF NewCall, NoWindow, DelegationInv
  <2> HIDE DEF n
  <2>3. Fits(n)
    BY <2>1, <2>2 DEF Fits, Asked, Ran
  <2>4. CASE MakeLater(t, kind, origin, says)
    BY <2>3, <2>4 DEF MakeLater, n
  <2>5. CASE Call(t, kind, origin, says)
    BY <2>1, <2>2, <2>5, StartedFits DEF Call, n
  <2> QED
    BY <2>4, <2>5
<1>2. UNCHANGED <<ctx, chain, own, win, live>>
  BY DEF Call, MakeLater
<1>3. calls \in Seq(CallType) /\ c \in CallType
  BY <1>1 DEF DelegationInv, Types, Fits
<1>4. calls' \in Seq(CallType) /\ \A i \in 1 .. Len(calls') : Fits(calls'[i])
  BY <1>1, <1>3, AllFit
<1> QED
  BY <1>2, <1>4, FitsMeans

LEMMA StartKeeps ==
  ASSUME DelegationInv, NEW t \in Tasks, NEW i \in 1 .. Len(calls), Start(t, i)
  PROVE  DelegationInv'
<1>1. calls \in Seq(CallType)
  BY DEF DelegationInv, Types
<1>2. PICK c \in Started(t, calls[i]) : calls' = [calls EXCEPT ![i] = c]
  BY DEF Start
<1>3. Fits(c)
  BY <1>1, StartedFits, CallFields DEF DelegationInv
<1>4. calls' \in Seq(CallType) /\ \A j \in 1 .. Len(calls') : Fits(calls'[j])
  BY <1>1, <1>2, <1>3, AllFit DEF Fits
<1> QED
  BY <1>4, FitsMeans DEF Start

LEMMA DecideKeeps ==
  ASSUME DelegationInv, NEW i \in 1 .. Len(calls), Decide(i)
  PROVE  DelegationInv'
<1>1. calls \in Seq(CallType)
  BY DEF DelegationInv, Types
<1>2. PICK s \in {"refused", "lost", "unledgered", "passing"} :
        calls' = [calls EXCEPT ![i].state = s]
  BY DEF Decide, Answers
<1> DEFINE c == [calls[i] EXCEPT !.state = s]
<1>3. /\ c \in CallType /\ c.startedIn = calls[i].startedIn
      /\ c.kind = calls[i].kind /\ c.says = calls[i].says /\ c.cap = calls[i].cap
  <2>1. calls[i] \in CallType
    BY <1>1
  <2> QED
    BY <2>1 DEF CallType
<1>4. Asked(calls[i]) /\ calls' = [calls EXCEPT ![i] = c]
  BY <1>1, <1>2 DEF Decide, Asked
<1> HIDE DEF c
<1>5. Fits(c)
  BY <1>3, <1>4, AllFit DEF Fits
<1>6. calls' \in Seq(CallType) /\ \A j \in 1 .. Len(calls') : Fits(calls'[j])
  BY <1>1, <1>3, <1>4, <1>5, AllFit
<1> QED
  BY <1>6, FitsMeans DEF Decide

LEMMA DelegationNext == DelegationInv /\ [Next]_vars => DelegationInv'
<1> SUFFICES ASSUME DelegationInv, [Next]_vars
             PROVE  DelegationInv'
  OBVIOUS
<1>1. CASE Windows
  BY <1>1, OpenKeeps, CloseKeeps, SpawnKeeps DEF Windows
<1>2. CASE Calling
  BY <1>2, CallKeeps, StartKeeps DEF Calling
<1>3. CASE \E i \in 1 .. Len(calls) : Decide(i)
  BY <1>3, DecideKeeps
<1>4. CASE UNCHANGED vars
  <2>1. UNCHANGED <<ctx, chain, own, win, calls, live>>
    BY <1>4 DEF vars
  <2>2. calls' \in Seq(CallType) /\ \A i \in 1 .. Len(calls') : Fits(calls'[i])
    BY <2>1, AllFit DEF DelegationInv, Types
  <2> QED
    BY <2>1, <2>2, FitsMeans
<1> QED
  BY <1>1, <1>2, <1>3, <1>4 DEF Next

\* Windows, contexts and calls keep their types.
THEOREM WindowsType == Spec => []Types
<1>1. DelegationInv => Types
  BY DEF DelegationInv
<1> QED
  BY <1>1, DelegationInit, DelegationNext, PTL DEF Spec

\* In a denied window, however deep and in whatever task, nothing is asked of a
\* boundary but with a token of the caller's own (Delegation!DeniedAsksNothing).
THEOREM DeniedClosed == Spec => []DeniedAsksNothing
<1>1. DelegationInv => DeniedAsksNothing
  BY DEF DelegationInv
<1> QED
  BY <1>1, DelegationInit, DelegationNext, PTL DEF Spec

-----------------------------------------------------------------------------
(* The innermost window.                                                    *)

\* What the context of a task holds that runs in the first k windows of a
\* chain: the token of the k-th one, or its denial.
StoreAt(k, windows, ws) ==
  IF k = 0 THEN NoWindow
  ELSE IF ws[windows[k]].granted THEN windows[k] ELSE Denied

\* The context is the one of the last window; each window will put back the
\* one of the window before it; and its token descends from those of the
\* windows around it, as far as they are of its boundary.
Inner(store, windows, ws) ==
  /\ store = StoreAt(Len(windows), windows, ws)
  /\ \A k \in 1 .. Len(windows) :
       ws[windows[k]].before = StoreAt(k - 1, windows, ws)
  /\ \A m \in 1 .. Len(windows) : \A k \in 1 .. m :
       /\ ws[windows[m]].granted
       /\ \A j \in k .. m : ws[windows[j]].origin = ws[windows[m]].origin
       => windows[k] \in ws[windows[m]].line

InnerInv == /\ DelegationInv
            /\ \A t \in Tasks : Inner(ctx[t], chain[t], win)
            /\ CarriesInnermost

\* A chain of windows that were opened.
Opened(windows, ws) ==
  windows \in Seq(Nat) /\ \A k \in 1 .. Len(windows) : windows[k] \in 1 .. Len(ws)

\* It stays as it is when others open windows,
LEMMA InnerStays ==
  ASSUME NEW ws \in Seq(WinType), NEW r \in WinType, NEW windows,
         Opened(windows, ws), NEW store, Inner(store, windows, ws)
  PROVE  Inner(store, windows, Append(ws, r))
<1> DEFINE ws2 == Append(ws, r)
<1>1. /\ Len(windows) \in Nat
      /\ \A k \in 1 .. Len(windows) : ws2[windows[k]] = ws[windows[k]]
  BY DEF Opened
<1> HIDE DEF ws2
<1>2. ASSUME NEW k \in 0 .. Len(windows)
      PROVE  StoreAt(k, windows, ws2) = StoreAt(k, windows, ws)
  <2>1. k = 0 \/ k \in 1 .. Len(windows)
    BY <1>1
  <2> QED
    BY <1>1, <2>1 DEF StoreAt
<1>3. store = StoreAt(Len(windows), windows, ws2)
  BY <1>1, <1>2 DEF Inner
<1>4. ASSUME NEW k \in 1 .. Len(windows)
      PROVE  ws2[windows[k]].before = StoreAt(k - 1, windows, ws2)
  BY <1>1, <1>2 DEF Inner
<1>5. ASSUME NEW m \in 1 .. Len(windows), NEW k \in 1 .. m,
             ws2[windows[m]].granted,
             \A j \in k .. m : ws2[windows[j]].origin = ws2[windows[m]].origin
      PROVE  windows[k] \in ws2[windows[m]].line
  <2>1. \A j \in k .. m : j \in 1 .. Len(windows)
    BY <1>1
  <2>2. \A j \in k .. m : ws[windows[j]].origin = ws[windows[m]].origin
    BY <1>1, <1>5, <2>1
  <2> QED
    BY <1>1, <1>5, <2>2 DEF Inner
<1> QED
  BY <1>3, <1>4, <1>5 DEF Inner, ws2

\* as the owner opens one inside it,
LEMMA InnerPush ==
  ASSUME NEW ws \in Seq(WinType), NEW r \in WinType, NEW windows,
         Opened(windows, ws), NEW store, Inner(store, windows, ws),
         r.before = store,
         r.granted => /\ store # Denied
                      /\ Len(ws) + 1 \in r.line
                      /\ store > 0 /\ ws[store].origin = r.origin
                           => ws[store].line \subseteq r.line
  PROVE  Inner(IF r.granted THEN Len(ws) + 1 ELSE Denied,
               Append(windows, Len(ws) + 1), Append(ws, r))
<1> DEFINE ws2 == Append(ws, r)
           w == Len(ws) + 1
           n == Len(windows)
           win2 == Append(windows, w)
<1>1. /\ n \in Nat /\ w \in Nat /\ Len(win2) = n + 1
      /\ win2[n + 1] = w /\ ws2[w] = r
      /\ \A k \in 1 .. n : win2[k] = windows[k] /\ ws2[win2[k]] = ws[windows[k]]
  BY DEF Opened
<1>2. Inner(store, windows, ws2)
  BY InnerStays
<1> HIDE DEF ws2, w, win2
<1>3. \A k \in 0 .. n : StoreAt(k, win2, ws2) = StoreAt(k, windows, ws)
  BY <1>1 DEF StoreAt
<1>4. StoreAt(n + 1, win2, ws2) = IF r.granted THEN w ELSE Denied
  BY <1>1 DEF StoreAt
<1>5. ASSUME NEW k \in 1 .. n + 1
      PROVE  ws2[win2[k]].before = StoreAt(k - 1, win2, ws2)
  <2>1. CASE k = n + 1
    BY <1>1, <1>3, <2>1 DEF Inner
  <2>2. CASE k \in 1 .. n
    BY <1>1, <1>3, <2>2 DEF Inner
  <2> QED
    BY <1>1, <2>1, <2>2
<1>6. ASSUME NEW m \in 1 .. n + 1, NEW k \in 1 .. m,
             ws2[win2[m]].granted,
             \A j \in k .. m : ws2[win2[j]].origin = ws2[win2[m]].origin
      PROVE  win2[k] \in ws2[win2[m]].line
  <2>1. CASE m \in 1 .. n
    <3>1. \A j \in k .. m : j \in 1 .. n
      BY <1>1, <2>1
    <3>2. \A j \in k .. m : ws[windows[j]].origin = ws[windows[m]].origin
      BY <1>1, <1>6, <2>1, <3>1
    <3>3. windows[k] \in ws[windows[m]].line
      BY <1>1, <1>6, <2>1, <3>2 DEF Inner
    <3> QED
      BY <1>1, <2>1, <3>1, <3>3
  <2>2. CASE m = n + 1 /\ k = m
    BY <1>1, <1>6, <2>2 DEF w
  <2>3. CASE m = n + 1 /\ k \in 1 .. n
    <3>1. \A j \in k .. n : j \in 1 .. n /\ j \in k .. m
      BY <1>1, <2>3
    <3>2. \A j \in k .. n : ws[windows[j]].origin = r.origin
      BY <1>1, <1>6, <2>3, <3>1
    <3>3. n \in k .. n /\ n \in 1 .. n
      BY <1>1, <2>3
    <3>4. r.granted /\ store # Denied
      BY <1>1, <1>6, <2>3
    <3>5. ws[windows[n]].granted /\ store = windows[n] /\ store > 0
      <4>1. store = StoreAt(n, windows, ws) /\ windows[n] \in Nat \ {0}
        BY <3>3 DEF Inner, Opened
      <4> QED
        BY <1>1, <3>3, <3>4, <4>1 DEF StoreAt
    <3>6. windows[k] \in ws[windows[n]].line
      BY <2>3, <3>2, <3>3, <3>5 DEF Inner
    <3>7. ws[store].line \subseteq r.line
      BY <3>2, <3>3, <3>4, <3>5
    <3> QED
      BY <1>1, <2>3, <3>5, <3>6, <3>7
  <2> QED
    BY <1>1, <2>1, <2>2, <2>3
<1> QED
  BY <1>1, <1>4, <1>5, <1>6 DEF Inner, ws2, w, win2

\* and as it leaves the last one.
LEMMA InnerPop ==
  ASSUME NEW ws \in Seq(WinType), NEW windows, Opened(windows, ws),
         Len(windows) > 0, NEW store, Inner(store, windows, ws)
  PROVE  Inner(ws[Last(windows)].before, Front(windows), ws)
<1> DEFINE n == Len(windows)
           front == Front(windows)
<1>1. /\ n \in Nat \ {0} /\ Len(front) = n - 1 /\ Last(windows) = windows[n]
      /\ \A k \in 1 .. n - 1 : front[k] = windows[k]
  BY FrontOf DEF Opened, Last
<1> HIDE DEF front
<1>2. \A k \in 0 .. n - 1 : StoreAt(k, front, ws) = StoreAt(k, windows, ws)
  BY <1>1 DEF StoreAt
<1>3. ws[Last(windows)].before = StoreAt(n - 1, front, ws)
  BY <1>1, <1>2 DEF Inner
<1>4. ASSUME NEW k \in 1 .. n - 1
      PROVE  ws[front[k]].before = StoreAt(k - 1, front, ws)
  BY <1>1, <1>2 DEF Inner
<1>5. ASSUME NEW m \in 1 .. n - 1, NEW k \in 1 .. m,
             ws[front[m]].granted,
             \A j \in k .. m : ws[front[j]].origin = ws[front[m]].origin
      PROVE  front[k] \in ws[front[m]].line
  <2>1. /\ m \in 1 .. n /\ front[m] = windows[m] /\ front[k] = windows[k]
        /\ \A j \in k .. m : front[j] = windows[j]
    BY <1>1
  <2>2. /\ ws[windows[m]].granted
        /\ \A j \in k .. m : ws[windows[j]].origin = ws[windows[m]].origin
    BY <1>5, <2>1
  <2>3. windows[k] \in ws[windows[m]].line
    BY <2>1, <2>2 DEF Inner
  <2> QED
    BY <2>1, <2>3
<1> QED
  <2> HIDE DEF n
  <2>1. Inner(ws[Last(windows)].before, front, ws)
    BY <1>1, <1>3, <1>4, <1>5 DEF Inner
  <2> QED
    BY <2>1 DEF front

LEMMA InnerInit == Init => InnerInv
<1> SUFFICES ASSUME Init PROVE InnerInv
  OBVIOUS
<1>1. DelegationInv
  BY DelegationInit
<1>2. \A t \in Tasks : ctx[t] = NoWindow /\ chain[t] = <<>>
  BY DEF Init
<1>3. \A t \in Tasks : Inner(ctx[t], chain[t], win)
  BY <1>2 DEF Inner, StoreAt
<1>4. CarriesInnermost
  BY DEF Init, CarriesInnermost
<1> QED
  BY <1>1, <1>3, <1>4 DEF InnerInv

\* What one call carries.
Carries(c, ws) ==
  /\ c.cap # NoWindow => /\ Len(c.startedIn) > 0
                         /\ ws[c.startedIn[Len(c.startedIn)]].origin = c.origin
  /\ \A k \in 1 .. Len(c.startedIn) :
       (\A j \in k .. Len(c.startedIn) : ws[c.startedIn[j]].origin = c.origin)
         => /\ c.cap = Last(c.startedIn) /\ c.cap > 0
            /\ c.startedIn[k] \in ws[c.cap].line

CarriesEach(cs, ws) == \A i \in 1 .. Len(cs) :
  Asked(cs[i]) /\ ByContext(cs[i]) => Carries(cs[i], ws)

LEMMA CarriesMeans ==
  ASSUME Types PROVE CarriesInnermost <=> CarriesEach(calls, win)
<1> SUFFICES ASSUME NEW i \in 1 .. Len(calls)
             PROVE  Carries(calls[i], win) <=>
                      LET c == calls[i] IN
                      /\ Enclosing(c.startedIn, c.origin) = {} => c.cap = NoWindow
                      /\ Enclosing(c.startedIn, c.origin) # {} =>
                          /\ c.cap = Last(c.startedIn)
                          /\ Enclosing(c.startedIn, c.origin) \subseteq Lineage(c.cap)
  BY DEF CarriesInnermost, CarriesEach
<1> DEFINE c == calls[i]
           n == Len(c.startedIn)
<1>1. c \in CallType /\ c.startedIn \in Seq(Nat) /\ n \in Nat /\ c.cap \in Int
      /\ \A k \in 1 .. n : c.startedIn[k] \in 1 .. Len(win)
  <2>1. c \in CallType
    BY CallFields
  <2>2. \A k \in 1 .. n : c.startedIn[k] \in 1 .. Len(win)
    BY DEF Types
  <2> HIDE DEF c
  <2>3. c.startedIn \in Seq(Nat) /\ c.cap \in Int
    BY <2>1 DEF CallType
  <2>4. n \in Nat
    BY <2>3
  <2> QED
    BY <2>1, <2>2, <2>3, <2>4
<1>2. n > 0 => Last(c.startedIn) > 0
  <2>1. ASSUME n > 0
        PROVE  Last(c.startedIn) > 0
    <3>1. n \in 1 .. n /\ Last(c.startedIn) = c.startedIn[n]
      BY <1>1, <2>1 DEF Last
    <3>2. c.startedIn[n] \in 1 .. Len(win)
      BY <1>1, <3>1
    <3> QED
      BY <3>1, <3>2
  <2> QED
    BY <2>1
<1> HIDE DEF c
<1>3. \A x : x \in Enclosing(c.startedIn, c.origin) <=>
        \E k \in 1 .. n : /\ x = c.startedIn[k]
                          /\ \A j \in k .. n : win[c.startedIn[j]].origin = c.origin
  BY DEF Enclosing
<1>6. n > 0 /\ win[c.startedIn[n]].origin = c.origin
        <=> Enclosing(c.startedIn, c.origin) # {}
  <2>1. ASSUME n > 0, win[c.startedIn[n]].origin = c.origin
        PROVE  c.startedIn[n] \in Enclosing(c.startedIn, c.origin)
    <3>1. n \in 1 .. n /\ \A j \in n .. n : win[c.startedIn[j]].origin = c.origin
      BY <1>1, <2>1
    <3> QED
      BY <1>3, <3>1
  <2>2. ASSUME NEW x \in Enclosing(c.startedIn, c.origin)
        PROVE  n > 0 /\ win[c.startedIn[n]].origin = c.origin
    <3>1. PICK k \in 1 .. n : \A j \in k .. n : win[c.startedIn[j]].origin = c.origin
      BY <1>3
    <3>2. n > 0 /\ n \in k .. n
      BY <1>1
    <3> QED
      BY <3>1, <3>2
  <2> QED
    BY <2>1, <2>2
<1>4. Carries(c, win) =>
        /\ Enclosing(c.startedIn, c.origin) = {} => c.cap = NoWindow
        /\ Enclosing(c.startedIn, c.origin) # {} =>
             /\ c.cap = Last(c.startedIn)
             /\ Enclosing(c.startedIn, c.origin) \subseteq Lineage(c.cap)
  BY <1>3, <1>6 DEF Carries, Lineage
<1>5. ASSUME Enclosing(c.startedIn, c.origin) = {} => c.cap = NoWindow,
             Enclosing(c.startedIn, c.origin) # {} =>
               /\ c.cap = Last(c.startedIn)
               /\ Enclosing(c.startedIn, c.origin) \subseteq Lineage(c.cap)
      PROVE  Carries(c, win)
  <2> SUFFICES ASSUME NEW k \in 1 .. n,
                      \A j \in k .. n : win[c.startedIn[j]].origin = c.origin
               PROVE  /\ c.cap = Last(c.startedIn) /\ c.cap > 0
                      /\ c.startedIn[k] \in win[c.cap].line
    BY <1>5, <1>6 DEF Carries
  <2>1. c.startedIn[k] \in Enclosing(c.startedIn, c.origin)
    BY <1>3
  <2>2. n > 0
    BY <1>1
  <2> QED
    BY <1>2, <1>5, <2>1, <2>2 DEF Lineage
<1> QED
  BY <1>4, <1>5 DEF c

LEMMA CarriesNow == InnerInv => CarriesEach(calls, win)
BY CarriesMeans DEF InnerInv, DelegationInv

LEMMA CarriesThen ==
  ASSUME DelegationInv', CarriesEach(calls', win')
  PROVE  CarriesInnermost'
<1>1. Types'
  BY DEF DelegationInv
<1>2. (CarriesInnermost <=> CarriesEach(calls, win))'
  BY <1>1, CarriesMeans, PTL
<1> QED
  BY <1>2

\* The calls that are there carry what they carried when windows are opened.
LEMMA OpenedCarries ==
  ASSUME Types, CarriesEach(calls, win), NEW r \in WinType, win' = Append(win, r),
         UNCHANGED calls
  PROVE  CarriesEach(calls', win')
<1> DEFINE win2 == Append(win, r)
<1>1. /\ win2 = win' /\ Len(win) \in Nat
      /\ \A w \in 1 .. Len(win) : win2[w] = win[w]
  BY DEF Types
<1> HIDE DEF win2
<1>e. win' = win2 /\ calls' = calls
  BY <1>1
<1> SUFFICES ASSUME NEW i \in 1 .. Len(calls), Asked(calls[i]), ByContext(calls[i])
             PROVE  Carries(calls[i], win2)
  BY <1>e DEF CarriesEach
<1> DEFINE c == calls[i]
           n == Len(c.startedIn)
<1>2. /\ Carries(c, win) /\ c.cap \in Int /\ c.cap <= Len(win) /\ n \in Nat
      /\ \A k \in 1 .. n : c.startedIn[k] \in 1 .. Len(win)
  <2>1. c \in CallType
    BY CallFields
  <2>2. Carries(c, win)
    BY DEF CarriesEach
  <2>3. n \in Nat
    BY <2>1 DEF CallType
  <2>4. \A k \in 1 .. n : c.startedIn[k] \in 1 .. Len(win)
    BY DEF Types
  <2> QED
    BY <2>2, <2>3, <2>4, CallFields
<1> HIDE DEF c
<1>3. c.cap > 0 => win2[c.cap] = win[c.cap]
  BY <1>1, <1>2
<1>4. \A k \in 1 .. n : win2[c.startedIn[k]] = win[c.startedIn[k]]
  BY <1>1, <1>2
<1>5. ASSUME NEW k \in 1 .. n,
             \A j \in k .. n : win2[c.startedIn[j]].origin = c.origin
      PROVE  /\ c.cap = Last(c.startedIn) /\ c.cap > 0
             /\ c.startedIn[k] \in win2[c.cap].line
  <2>1. \A j \in k .. n : j \in 1 .. n
    BY <1>2
  <2>2. \A j \in k .. n : win[c.startedIn[j]].origin = c.origin
    BY <1>4, <1>5, <2>1
  <2>3. /\ c.cap = Last(c.startedIn) /\ c.cap > 0
        /\ c.startedIn[k] \in win[c.cap].line
    BY <1>2, <2>2 DEF Carries
  <2> QED
    BY <1>3, <2>3
<1>7. n > 0 => win2[c.startedIn[n]] = win[c.startedIn[n]]
  <2>1. n > 0 => n \in 1 .. n
    BY <1>2
  <2> QED
    BY <1>4, <2>1
<1>6. Carries(c, win2)
  BY <1>2, <1>5, <1>7 DEF Carries
<1> QED
  BY <1>6 DEF c

LEMMA ChainsOpened ==
  ASSUME Types PROVE \A t \in Tasks : Opened(chain[t], win)
BY DEF Types, Opened

LEMMA OpenInner ==
  ASSUME InnerInv, NEW t \in Tasks, NEW origin \in Origins,
         OpenWindow(t, origin)
  PROVE  InnerInv'
<1> DEFINE w == Len(win) + 1
<1>1. PICK m \in Mint(ctx[t], origin) :
        /\ win' = Append(win, [origin |-> origin, line |-> {w} \cup Lineage(m.parent),
                               granted |-> m.granted, before |-> ctx[t]])
        /\ ctx' = [ctx EXCEPT ![t] = IF m.granted THEN w ELSE Denied]
  BY DEF OpenWindow, NodeMint
<1> DEFINE r == [origin |-> origin, line |-> {w} \cup Lineage(m.parent),
                 granted |-> m.granted, before |-> ctx[t]]
<1>2. /\ chain' = [chain EXCEPT ![t] = Append(@, w)] /\ UNCHANGED calls
  BY DEF OpenWindow
<1>3. DelegationInv /\ Types /\ DelegationInv'
  BY OpenKeeps DEF InnerInv, DelegationInv
<1>4. /\ m.parent \in 0 .. Len(win) /\ m.granted \in BOOLEAN
      /\ ctx[t] = Denied => ~m.granted
      /\ m.granted => m.parent = CurrentCapabilityFor(ctx[t], origin)
  BY <1>3, MintType
<1>5. /\ r.granted = m.granted /\ r.before = ctx[t] /\ r.origin = origin
      /\ r.line = {w} \cup Lineage(m.parent)
  OBVIOUS
<1>6. r \in WinType /\ win \in Seq(WinType) /\ w \in Nat
  <2>1. Lineage(m.parent) \in SUBSET Nat /\ ctx[t] \in Int /\ Len(win) \in Nat
    BY <1>3, <1>4, WinFields DEF Lineage, Types
  <2> QED
    BY <1>3, <1>4, <2>1 DEF WinType, Types
<1>7. win' = Append(win, r)
  BY <1>1
<1> HIDE DEF r
<1>8. ASSUME r.granted
      PROVE  /\ ctx[t] # Denied
             /\ w \in r.line
             /\ ctx[t] > 0 /\ win[ctx[t]].origin = r.origin
                  => win[ctx[t]].line \subseteq r.line
  BY <1>4, <1>5, <1>8 DEF CurrentCapabilityFor, Lineage
<1>9. \A u \in Tasks : Opened(chain[u], win) /\ Inner(ctx[u], chain[u], win)
  BY <1>3, ChainsOpened DEF InnerInv
<1>10. ASSUME NEW u \in Tasks
       PROVE  Inner(ctx'[u], chain'[u], Append(win, r))
  <2>1. CASE u # t
    <3>1. ctx'[u] = ctx[u] /\ chain'[u] = chain[u]
      BY <1>1, <1>2, <1>3, <2>1 DEF Types
    <3> QED
      BY <1>6, <1>9, <3>1, InnerStays
  <2>2. CASE u = t
    <3>1. /\ ctx'[t] = IF r.granted THEN w ELSE Denied
          /\ chain'[t] = Append(chain[t], w)
      BY <1>1, <1>2, <1>3, <1>5 DEF Types
    <3>2. Inner(IF r.granted THEN w ELSE Denied, Append(chain[t], w), Append(win, r))
      BY <1>5, <1>6, <1>8, <1>9, InnerPush
    <3> QED
      BY <2>2, <3>1, <3>2
  <2> QED
    BY <2>1, <2>2
<1>11. \A u \in Tasks : Inner(ctx'[u], chain'[u], win')
  BY <1>7, <1>10
<1>12. CarriesEach(calls', win')
  BY <1>2, <1>3, <1>6, <1>7, CarriesNow, OpenedCarries
<1>13. CarriesInnermost'
  BY <1>3, <1>12, CarriesThen
<1> QED
  BY <1>3, <1>11, <1>13 DEF InnerInv, Inner

LEMMA CloseInner ==
  ASSUME InnerInv, NEW t \in Tasks, CloseWindow(t)
  PROVE  InnerInv'
<1> DEFINE w == Last(chain[t])
<1>1. /\ ctx' = [ctx EXCEPT ![t] = win[w].before]
      /\ chain' = [chain EXCEPT ![t] = Front(@)]
      /\ own[t] > 0 /\ win' = win /\ calls' = calls
  BY DEF CloseWindow, Restored
<1>2. DelegationInv /\ Types /\ DelegationInv'
  BY CloseKeeps DEF InnerInv, DelegationInv
<1>3. Len(chain[t]) > 0 /\ win \in Seq(WinType)
  BY <1>1, <1>2 DEF Types
<1>4. \A u \in Tasks : Opened(chain[u], win) /\ Inner(ctx[u], chain[u], win)
  BY <1>2, ChainsOpened DEF InnerInv
<1>5. ASSUME NEW u \in Tasks
      PROVE  Inner(ctx'[u], chain'[u], win')
  <2>1. CASE u # t
    <3>1. ctx'[u] = ctx[u] /\ chain'[u] = chain[u]
      BY <1>1, <1>2, <2>1 DEF Types
    <3> QED
      BY <1>1, <1>4, <3>1
  <2>2. CASE u = t
    <3>1. ctx'[t] = win[w].before /\ chain'[t] = Front(chain[t])
      BY <1>1, <1>2 DEF Types
    <3>2. Inner(win[w].before, Front(chain[t]), win)
      BY <1>3, <1>4, InnerPop
    <3> QED
      BY <1>1, <2>2, <3>1, <3>2
  <2> QED
    BY <2>1, <2>2
<1>6. CarriesInnermost'
  BY <1>1, <1>2, CarriesNow, CarriesThen
<1> QED
  BY <1>2, <1>5, <1>6 DEF InnerInv, Inner

LEMMA SpawnInner ==
  ASSUME InnerInv, NEW t \in Tasks, NEW child \in Tasks, Spawn(t, child)
  PROVE  InnerInv'
<1>1. /\ ctx' = [ctx EXCEPT ![child] = ctx[t]]
      /\ chain' = [chain EXCEPT ![child] = chain[t]]
      /\ win' = win /\ calls' = calls
  BY DEF Spawn
<1>2. DelegationInv /\ Types /\ DelegationInv'
  BY SpawnKeeps DEF InnerInv, DelegationInv
<1>3. \A u \in Tasks : \E v \in Tasks : ctx'[u] = ctx[v] /\ chain'[u] = chain[v]
  BY <1>1, <1>2 DEF Types
<1>4. \A u \in Tasks : Inner(ctx'[u], chain'[u], win')
  BY <1>1, <1>3 DEF InnerInv
<1>5. CarriesInnermost'
  BY <1>1, <1>2, CarriesNow, CarriesThen
<1> QED
  BY <1>2, <1>4, <1>5 DEF InnerInv, Inner

\* A call that leaves its capability to the context finds there the token of
\* the last window, if that one is of its boundary.
LEMMA StartedCarries ==
  ASSUME InnerInv, NEW t \in Tasks, NEW c0 \in CallType, NEW c \in Started(t, c0),
         Asked(c), ByContext(c)
  PROVE  Carries(c, win)
<1> DEFINE at == [c0 EXCEPT !.startedIn = chain[t]]
           cap == CurrentCapabilityFor(ctx[t], c0.origin)
           n == Len(chain[t])
<1>0. Types /\ Inner(ctx[t], chain[t], win)
  BY DEF InnerInv, DelegationInv
<1>1. /\ at \in CallType /\ at.startedIn = chain[t]
      /\ at.kind = c0.kind /\ at.says = c0.says /\ at.origin = c0.origin
  BY <1>0 DEF Types, CallType
<1>2. \/ c \in GuardTool(ctx[t], at)
      \/ c \in StreamSession(ctx[t], at)
      \/ c \in CheckBoundary(ctx[t], at)
  BY <1>1 DEF Started, NodeGuardTool, NodeStreamSession, NodeCheckBoundary,
              CallType, Kinds
<1> HIDE DEF at
<1>3. Locally(at).state = "local"
  BY <1>1 DEF Locally, CallType
<1>4. \A x : /\ Sent(at, x).startedIn = chain[t] /\ Sent(at, x).says = at.says
             /\ Sent(at, x).origin = at.origin /\ Sent(at, x).cap = x
  BY <1>1 DEF Sent, CallType
<1>5. c # Locally(at)
  BY <1>3 DEF Asked, Ran
<1>6. \E x : c = Sent(at, x)
  BY <1>2, <1>5 DEF GuardTool, StreamSession, CheckBoundary
<1>7. at.says = "unset"
  BY <1>4, <1>6 DEF ByContext
<1>8. c = Sent(at, cap) /\ ctx[t] # Denied
  BY <1>1, <1>2, <1>5, <1>7
  DEF GuardTool, StreamSession, CheckBoundary, DelegationDenied
<1>9. /\ c.cap = cap /\ c.startedIn = chain[t] /\ c.origin = c0.origin
  BY <1>1, <1>4, <1>8
<1>10. n \in Nat /\ \A k \in 1 .. n : chain[t][k] \in 1 .. Len(win)
  BY <1>0 DEF Types
<1>11. ASSUME NEW k \in 1 .. n,
              \A j \in k .. n : win[chain[t][j]].origin = c0.origin
       PROVE  /\ cap = Last(chain[t]) /\ cap > 0
              /\ chain[t][k] \in win[cap].line
  <2>1. n \in 1 .. n /\ n \in k .. n /\ Last(chain[t]) = chain[t][n]
    BY <1>10 DEF Last
  <2>2. ctx[t] = StoreAt(n, chain[t], win) /\ n # 0
    BY <1>0, <2>1 DEF Inner
  <2>3. win[chain[t][n]].granted /\ ctx[t] = chain[t][n]
    BY <1>8, <2>2 DEF StoreAt
  <2>4. ctx[t] > 0 /\ win[ctx[t]].origin = c0.origin
    BY <1>10, <1>11, <2>1, <2>3
  <2>5. cap = ctx[t]
    BY <2>4 DEF CurrentCapabilityFor
  <2>6. chain[t][k] \in win[chain[t][n]].line
    BY <1>0, <1>11, <2>1, <2>3 DEF Inner
  <2> QED
    BY <2>1, <2>3, <2>4, <2>5, <2>6
<1>12. cap # NoWindow => n > 0 /\ win[chain[t][n]].origin = c0.origin
  <2> SUFFICES ASSUME cap # NoWindow PROVE n > 0 /\ win[chain[t][n]].origin = c0.origin
    OBVIOUS
  <2>1. ctx[t] > 0 /\ win[ctx[t]].origin = c0.origin
    BY DEF CurrentCapabilityFor
  <2>2. ctx[t] = StoreAt(n, chain[t], win)
    BY <1>0 DEF Inner
  <2>3. n # 0 /\ ctx[t] = chain[t][n]
    BY <1>8, <2>1, <2>2 DEF StoreAt, NoWindow
  <2> QED
    BY <1>10, <2>1, <2>3
<1> HIDE DEF cap
<1> QED
  BY <1>9, <1>11, <1>12 DEF Carries

LEMMA CallInner ==
  ASSUME InnerInv, NEW t \in Tasks, NEW kind \in Kinds,
         NEW origin \in Origins, NEW says \in Says(kind),
         Call(t, kind, origin, says) \/ MakeLater(t, kind, origin, says)
  PROVE  InnerInv'
<1> DEFINE n == NewCall(t, kind, origin, says)
<1>1. /\ DelegationInv /\ Types /\ DelegationInv'
      /\ UNCHANGED <<ctx, chain, win>>
  BY CallKeeps DEF InnerInv, DelegationInv, Call, MakeLater
<1>2. n \in CallType /\ n.state = "made"
  BY <1>1, NewCallType DEF NewCall
<1>3. PICK c : /\ calls' = Append(calls, c)
               /\ Asked(c) /\ ByContext(c) => Carries(c, win)
  <2> HIDE DEF n
  <2>1. CASE MakeLater(t, kind, origin, says)
    BY <1>2, <2>1 DEF MakeLater, n, Asked, Ran
  <2>2. CASE Call(t, kind, origin, says)
    BY <1>2, <2>2, StartedCarries DEF Call, n
  <2> QED
    BY <2>1, <2>2
<1>4. CarriesEach(calls', win')
  <2>1. calls \in Seq(CallType) /\ CarriesEach(calls, win)
    BY <1>1, CarriesNow DEF Types
  <2>2. /\ Len(calls) \in Nat /\ Len(Append(calls, c)) = Len(calls) + 1
        /\ Append(calls, c)[Len(calls) + 1] = c
        /\ \A i \in 1 .. Len(calls) : Append(calls, c)[i] = calls[i]
    BY <2>1
  <2>3. CarriesEach(Append(calls, c), win)
    BY <1>3, <2>1, <2>2 DEF CarriesEach
  <2> QED
    BY <1>1, <1>3, <2>3
<1>5. CarriesInnermost'
  BY <1>1, <1>4, CarriesThen
<1> QED
  BY <1>1, <1>5 DEF InnerInv, Inner

\* One call is exchanged for another that carries what it must.
LEMMA ExchangedInner ==
  ASSUME InnerInv, DelegationInv', UNCHANGED <<ctx, chain, win>>,
         NEW i \in 1 .. Len(calls), NEW c, calls' = [calls EXCEPT ![i] = c],
         Asked(c) /\ ByContext(c) => Carries(c, win)
  PROVE  InnerInv'
<1>1. calls \in Seq(CallType) /\ CarriesEach(calls, win)
  BY CarriesNow DEF InnerInv, DelegationInv, Types
<1>2. /\ Len(calls') = Len(calls)
      /\ \A j \in 1 .. Len(calls) : calls'[j] = IF j = i THEN c ELSE calls[j]
  BY <1>1
<1>3. CarriesEach(calls', win')
  BY <1>1, <1>2 DEF CarriesEach
<1>4. CarriesInnermost'
  BY <1>3, CarriesThen
<1> QED
  BY <1>4 DEF InnerInv, Inner

LEMMA StartInner ==
  ASSUME InnerInv, NEW t \in Tasks, NEW i \in 1 .. Len(calls), Start(t, i)
  PROVE  InnerInv'
<1>1. DelegationInv /\ Types /\ DelegationInv'
  BY StartKeeps DEF InnerInv, DelegationInv
<1>2. PICK c \in Started(t, calls[i]) : calls' = [calls EXCEPT ![i] = c]
  BY DEF Start
<1>3. calls[i] \in CallType
  BY <1>1, CallFields
<1>4. Asked(c) /\ ByContext(c) => Carries(c, win)
  BY <1>3, StartedCarries
<1> QED
  BY <1>1, <1>2, <1>4, ExchangedInner DEF Start

LEMMA DecideInner ==
  ASSUME InnerInv, NEW i \in 1 .. Len(calls), Decide(i)
  PROVE  InnerInv'
<1>1. DelegationInv /\ Types /\ DelegationInv'
  BY DecideKeeps DEF InnerInv, DelegationInv
<1>2. PICK s : calls' = [calls EXCEPT ![i].state = s]
  BY DEF Decide
<1> DEFINE c == [calls[i] EXCEPT !.state = s]
<1>3. /\ c.startedIn = calls[i].startedIn /\ c.origin = calls[i].origin
      /\ c.says = calls[i].says /\ c.cap = calls[i].cap
  <2>1. calls[i] \in CallType
    BY <1>1, CallFields
  <2> QED
    BY <2>1 DEF CallType
<1>4. Asked(calls[i])
  BY DEF Decide, Asked
<1>5. calls' = [calls EXCEPT ![i] = c]
  BY <1>2
<1> HIDE DEF c
<1>6. ByContext(c) => Carries(c, win)
  BY <1>3, <1>4, CarriesNow DEF ByContext, CarriesEach, Carries
<1> QED
  BY <1>1, <1>5, <1>6, ExchangedInner DEF Decide

LEMMA InnerNext == InnerInv /\ [Next]_vars => InnerInv'
<1> SUFFICES ASSUME InnerInv, [Next]_vars
             PROVE  InnerInv'
  OBVIOUS
<1>1. CASE Windows
  BY <1>1, OpenInner, CloseInner, SpawnInner DEF Windows
<1>2. CASE Calling
  BY <1>2, CallInner, StartInner DEF Calling
<1>3. CASE \E i \in 1 .. Len(calls) : Decide(i)
  BY <1>3, DecideInner
<1>4. CASE UNCHANGED vars
  <2>1. UNCHANGED <<ctx, chain, win, calls>>
    BY <1>4 DEF vars
  <2>2. DelegationInv'
    BY DelegationNext DEF InnerInv
  <2>3. CarriesInnermost'
    BY <2>1, <2>2, CarriesNow, CarriesThen
  <2> QED
    BY <2>1, <2>2, <2>3 DEF InnerInv, Inner
<1> QED
  BY <1>1, <1>2, <1>3, <1>4 DEF Next

LEMMA InnerAlways == Spec => []InnerInv
BY InnerInit, InnerNext, PTL DEF Spec

\* A call that leaves its capability to the context carries the token of the
\* last window around it, which descends from those before it up to one of
\* another boundary, if that window is of the boundary it asks; behind a window
\* of another boundary it carries nothing (Delegation!CarriesInnermost).
THEOREM Innermost == Spec => []CarriesInnermost
<1>1. InnerInv => CarriesInnermost
  BY DEF InnerInv
<1> QED
  BY <1>1, InnerAlways, PTL

\* A step that lets a call pass is a decision about it.
LEMMA PassedByDecision ==
  ASSUME InnerInv, [Next]_vars, NEW i \in 1 .. Len(calls),
         ~Ran(calls[i]), Ran(calls'[i])
  PROVE  Decide(i)
<1>1. calls \in Seq(CallType)
  BY DEF InnerInv, DelegationInv, Types
<1>2. calls'[i] # calls[i]
  OBVIOUS
<1>3. CASE Windows \/ UNCHANGED vars
  BY <1>2, <1>3 DEF Windows, OpenWindow, CloseWindow, Spawn, vars
<1>4. CASE \E t \in Tasks : \E kind \in Kinds, origin \in Origins : \E says \in Says(kind) :
             Call(t, kind, origin, says) \/ MakeLater(t, kind, origin, says)
  BY <1>1, <1>2, <1>4 DEF Call, MakeLater
<1>5. ASSUME NEW t \in Tasks, NEW k \in 1 .. Len(calls), Start(t, k)
      PROVE  FALSE
  <2>1. PICK c \in Started(t, calls[k]) : calls' = [calls EXCEPT ![k] = c]
    BY <1>5 DEF Start
  <2>2. calls[k] \in CallType
    BY <1>1
  <2>3. c.state \in {"local", "sent"}
    <3> DEFINE at == [calls[k] EXCEPT !.startedIn = chain[t]]
    <3>1. at \in CallType
      BY <2>2 DEF InnerInv, DelegationInv, Types, CallType
    <3>2. \/ c \in GuardTool(ctx[t], at)
          \/ c \in StreamSession(ctx[t], at)
          \/ c \in CheckBoundary(ctx[t], at)
      BY <3>1 DEF Started, NodeGuardTool, NodeStreamSession, NodeCheckBoundary,
                  CallType, Kinds
    <3> HIDE DEF at
    <3>3. c = Locally(at) \/ \E x : c = Sent(at, x)
      BY <3>2 DEF GuardTool, StreamSession, CheckBoundary
    <3>4. Locally(at).state = "local" /\ \A x : Sent(at, x).state = "sent"
      BY <3>1 DEF Locally, Sent, CallType
    <3> QED
      BY <3>3, <3>4
  <2>4. calls'[i] = c
    BY <1>1, <1>2, <2>1
  <2> QED
    BY <2>3, <2>4 DEF Ran
<1>6. ASSUME NEW k \in 1 .. Len(calls), Decide(k)
      PROVE  Decide(i)
  <2>1. PICK c : calls' = [calls EXCEPT ![k] = c]
    BY <1>6 DEF Decide
  <2>2. i = k
    BY <1>1, <1>2, <2>1
  <2> QED
    BY <1>6, <2>2
<1> QED
  BY <1>3, <1>4, <1>5, <1>6 DEF Next, Calling

\* The windows that enclose a call that passes are not revoked, nor is anything
\* that its token was minted from.
LEMMA PassedAlive ==
  ASSUME InnerInv, NEW i \in 1 .. Len(calls), Decide(i), Ran(calls'[i]),
         ByContext(calls[i])
  PROVE  /\ Enclosing(calls[i].startedIn, calls[i].origin) \cap revoked = {}
         /\ Lineage(calls[i].cap) \cap revoked = {}
<1> DEFINE c == calls[i]
<1>1. calls \in Seq(CallType) /\ c \in CallType
  BY DEF InnerInv, DelegationInv, Types
<1>2. c.state = "sent" /\ Asked(c)
  BY DEF Decide, Asked
<1>3. PICK answer \in Answers(c) :
        calls' = [calls EXCEPT ![i].state =
                    IF Passes(c, answer) THEN answer ELSE "refused"]
  BY DEF Decide
<1>4. calls'[i].state = IF Passes(c, answer) THEN answer ELSE "refused"
  BY <1>1, <1>3 DEF CallType
<1> HIDE DEF c
<1>5. answer \in {"passing", "unledgered"}
  BY <1>4 DEF Ran
<1>6. c.cap > 0 => Alive(c.cap)
  BY <1>3, <1>5 DEF Answers
<1>7. Enclosing(c.startedIn, c.origin) # {} =>
        /\ Enclosing(c.startedIn, c.origin) \subseteq Lineage(c.cap)
  BY <1>2 DEF InnerInv, CarriesInnermost, c
<1>8. c.cap > 0 \/ Lineage(c.cap) = {}
  BY DEF Lineage
<1> QED
  BY <1>6, <1>7, <1>8 DEF Alive, c

\* Once the token of a window is revoked, no call from inside it at that
\* boundary is allowed any more, unless a window of another boundary hides it,
\* and none with a token that was minted from it (Delegation!RevokedEnds).
THEOREM Revoked == Spec => RevokedEnds
<1> DEFINE Holds == \A i \in 1 .. Len(calls) : LET c == calls[i] IN
             ~Ran(c) /\ Ran(calls'[i]) /\ ByContext(c)
               => /\ Enclosing(c.startedIn, c.origin) \cap revoked = {}
                  /\ Lineage(c.cap) \cap revoked = {}
<1>1. InnerInv /\ [Next]_vars => Holds
  BY PassedByDecision, PassedAlive
<1>2. InnerInv /\ [Next]_vars => [Holds]_vars
  BY <1>1
<1> QED
  BY <1>2, InnerAlways, PTL DEF Spec, RevokedEnds, Holds
=============================================================================
