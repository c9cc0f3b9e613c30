------------------------- MODULE AccessCacheProofs -------------------------
(***************************************************************************)
(* Proofs about AccessCache, for any callers, requests and number of       *)
(* rotations.                                                              *)
(*                                                                         *)
(*   TypeCorrect    the types of the state, tasks or threads               *)
(*   DenyUncached   an entry of the cache rests on an answer that allowed  *)
(*                  it, tasks or threads                                   *)
(*   EntriesOwned   for tasks of one event loop, an entry of the cache was *)
(*                  granted to the token of its epoch                      *)
(*   RotationHolds  for tasks of one event loop, the HTTP client does not  *)
(*                  send an older token once a rotation returned           *)
(*                                                                         *)
(* The last two rest on what cooperative scheduling gives: a task between  *)
(* two awaits is alone, so the token, the epoch and the HTTP client it     *)
(* reads belong together (OwnerInv).  Threads lose exactly that, and the   *)
(* run access_poison shows how.                                            *)
(***************************************************************************)
EXTENDS AccessCache, TLAPS

-----------------------------------------------------------------------------
(* Types.                                                                   *)

\* The token is one ahead of the epoch, two while set_token is between them.
TokenOfEpoch == token = IF rot = "epoch" THEN epoch + 2 ELSE epoch + 1
\* A request is sent by a client that exists.
HasClient == \A c \in Callers : at[c] = "wait" => conn[c] \in Tokens

TypeInv == TypeOK /\ TokenOfEpoch /\ HasClient

LEMMA TypeInit == Init => TypeInv
BY CallersAssumption
DEF Init, TypeInv, TypeOK, TokenOfEpoch, HasClient, CallersAssumption, Tokens,
    Epochs, Entries, Points

\* A caller's move keeps the types of the points and of the loop, and only the
\* sending of a request makes it wait.
LEMMA GotoType ==
  ASSUME TypeInv, NEW c \in Callers, NEW from, NEW to \in Points,
         Goto(c, from, to)
  PROVE  /\ at' \in [Callers -> Points]
         /\ running' \in Callers \cup {Rotator, Nobody}
         /\ tasks' \in BOOLEAN
         /\ to # "wait" /\ UNCHANGED conn => HasClient'
BY DEF Goto, Step, TypeInv, TypeOK, HasClient

LEMMA AuthorizeType ==
  ASSUME TypeInv, NEW c \in Callers, Authorize(c)
  PROVE  TypeInv'
<1> USE DEF TypeInv, TypeOK, TokenOfEpoch
<1>1. ASSUME NEW k \in Keys, Call(c, k) PROVE TypeInv'
  <2>1. "lookup" \in Points
    BY DEF Points
  <2> QED
    BY <1>1, <2>1, GotoType DEF Call, shared
<1>2. ASSUME NEW from, NEW to \in Points \ {"wait"}, CacheKey(c, from, to)
      PROVE  TypeInv'
  <2>1. slot' \in [Callers -> Entries]
    BY <1>2 DEF CacheKey, KeyWithEpoch, Entries
  <2> QED
    BY <1>2, <2>1, GotoType DEF CacheKey, shared
<1>3. CASE Lookup(c)
  <2>1. {"idle", "epoch"} \subseteq Points
    BY DEF Points
  <2> QED
    BY <1>3, <2>1, GotoType DEF Lookup, shared
<1>4. CASE CaptureEpoch(c)
  <2>1. "client" \in Points
    BY DEF Points
  <2> QED
    BY <1>4, <2>1, GotoType DEF CaptureEpoch, shared
<1>5. CASE TestClient(c)
  <2>1. (IF http = 0 THEN "build" ELSE "fetch") \in Points
    BY DEF Points
  <2> QED
    BY <1>5, <2>1, GotoType DEF TestClient, shared
<1>6. CASE BuildClient(c)
  <2>1. "assign" \in Points
    BY DEF Points
  <2>2. HasClient'
    BY <1>6 DEF BuildClient, Goto, HasClient
  <2> QED
    BY <1>6, <2>1, <2>2, GotoType DEF BuildClient, shared
<1>7. CASE AssignClient(c)
  <2>1. "fetch" \in Points
    BY DEF Points
  <2> QED
    BY <1>7, <2>1, GotoType DEF AssignClient
<1>8. CASE Send(c)
  <2>1. {"wait", "idle"} \subseteq Points
    BY DEF Points
  <2>2. HasClient'
    BY <1>8 DEF Send, Goto, HasClient
  <2>3. /\ at' \in [Callers -> Points] /\ tasks' \in BOOLEAN
        /\ running' \in Callers \cup {Rotator, Nobody}
    BY <1>8, <2>1, GotoType DEF Send
  <2> QED
    BY <1>8, <2>2, <2>3 DEF Send, shared
<1>9. CASE GatewayDenies(c)
  <2>1. "idle" \in Points /\ Goto(c, "wait", "idle")
    BY <1>9 DEF GatewayDenies, AfterDenial, Points
  <2> QED
    BY <1>9, <2>1, GotoType DEF GatewayDenies, shared
<1>10. CASE GatewayAllows(c)
  <2>1. "check" \in Points
    BY DEF Points
  <2>2. <<conn[c], key[c]>> \in Tokens \X Keys
    BY <1>10 DEF GatewayAllows, Goto, HasClient
  <2> QED
    BY <1>10, <2>1, <2>2, GotoType DEF GatewayAllows, shared
<1>11. CASE CheckEpoch(c)
  <2>1. {"store", "idle"} \subseteq Points
    BY DEF Points
  <2> QED
    BY <1>11, <2>1, GotoType DEF CheckEpoch, shared
<1>12. CASE Store(c)
  <2>1. "idle" \in Points
    BY DEF Points
  <2> QED
    BY <1>12, <2>1, GotoType DEF Store
<1> QED
  BY <1>1, <1>2, <1>3, <1>4, <1>5, <1>6, <1>7, <1>8, <1>9, <1>10, <1>11, <1>12
  DEF Authorize, Points

LEMMA TypeNext == TypeInv /\ [Next]_vars => TypeInv'
<1> SUFFICES ASSUME TypeInv, [Next]_vars
             PROVE  TypeInv'
  OBVIOUS
<1> USE CallersAssumption DEF CallersAssumption
<1>1. ASSUME NEW c \in Callers, Authorize(c) PROVE TypeInv'
  BY <1>1, AuthorizeType
<1>2. ASSUME NEW e \in cache, Expire(e) PROVE TypeInv'
  BY <1>2 DEF Expire, TypeInv, TypeOK, TokenOfEpoch, HasClient
<1>3. CASE SetToken
  BY <1>3
  DEF SetToken, Rotating, Step, TypeInv, TypeOK, TokenOfEpoch, HasClient, Tokens,
      Epochs
<1>4. CASE BumpEpoch
  BY <1>4
  DEF BumpEpoch, Rotating, Step, TypeInv, TypeOK, TokenOfEpoch, HasClient,
      Tokens, Epochs
<1>5. CASE ResetClient
  BY <1>5
  DEF ResetClient, NoClient, Rotating, Step, TypeInv, TypeOK, TokenOfEpoch,
      HasClient
<1>6. CASE ClearCache
  BY <1>6
  DEF ClearCache, Rotating, Step, TypeInv, TypeOK, TokenOfEpoch, HasClient
<1>7. CASE UNCHANGED vars
  BY <1>7 DEF vars, TypeInv, TypeOK, TokenOfEpoch, HasClient
<1> QED
  BY <1>1, <1>2, <1>3, <1>4, <1>5, <1>6, <1>7 DEF Next

\* In every behaviour the state has its types (AccessCache!TypeOK).
THEOREM TypeCorrect == Spec => []TypeOK
<1>1. TypeInv => TypeOK
  BY DEF TypeInv
<1> QED
  BY <1>1, TypeInit, TypeNext, PTL DEF Spec

-----------------------------------------------------------------------------
(* Tasks of one event loop.                                                 *)

\* Whoever is between two awaits holds the loop.
Alone ==
  /\ tasks
  /\ rot # "idle" => running = Rotator
  /\ \A c \in Callers : at[c] \notin {"idle", "wait"} => running = c

\* The HTTP client is None or was built with the current token, from the moment
\* set_token has reset it.
OwnClient ==
  /\ rot = "idle" => http \in {0, token}
  /\ rot = "cache" => http = 0

\* What the locals of a caller say of the call it is in.
OwnLocals(c) ==
  /\ at[c] \in {"client", "build", "assign", "fetch", "store", "insert"} =>
       seen[c] = epoch
  /\ at[c] = "assign" => conn[c] = token
  /\ at[c] \in {"wait", "check"} => conn[c] = seen[c] + 1
  /\ at[c] \in {"check", "store", "insert"} => <<seen[c] + 1, key[c]>> \in allowed
  /\ at[c] = "insert" => slot[c] = [epoch |-> epoch, key |-> key[c]]

Owned == \A e \in cache : <<e.epoch + 1, e.key>> \in allowed

OwnerInv ==
  TypeInv /\ Alone /\ OwnClient /\ (\A c \in Callers : OwnLocals(c)) /\ Owned

LEMMA OwnerInit == Init => (tasks => OwnerInv)
BY TypeInit DEF Init, OwnerInv, Alone, OwnClient, OwnLocals, Owned

\* A caller that takes a step has the loop to itself, before and after.
LEMMA CallerAlone ==
  ASSUME OwnerInv, NEW c \in Callers, NEW from, NEW to,
         Goto(c, from, to), UNCHANGED rot
  PROVE  /\ rot = "idle" /\ Alone'
         /\ at[c] = from /\ at'[c] = to
         /\ \A d \in Callers \ {c} : at'[d] = at[d] /\ at[d] \in {"idle", "wait"}
BY CallersAssumption
DEF Goto, Step, OwnerInv, Alone, TypeInv, TypeOK, CallersAssumption

\* The locals of the others stand, whatever a caller does.
LEMMA OthersStand ==
  ASSUME OwnerInv, NEW c \in Callers,
         \A d \in Callers \ {c} :
           /\ at'[d] = at[d] /\ at[d] \in {"idle", "wait"}
           /\ conn'[d] = conn[d] /\ seen'[d] = seen[d]
  PROVE  \A d \in Callers \ {c} : OwnLocals(d)'
BY DEF OwnerInv, OwnLocals

LEMMA AuthorizeOwner ==
  ASSUME OwnerInv, NEW c \in Callers, Authorize(c)
  PROVE  OwnerInv'
<1>0. TypeInv' /\ TypeInv
  BY AuthorizeType DEF OwnerInv
<1> USE DEF TypeInv, TypeOK
<1>1. ASSUME NEW k \in Keys, Call(c, k) PROVE OwnerInv'
  <2>1. Alone' /\ at'[c] = "lookup" /\ \A d \in Callers \ {c} : OwnLocals(d)'
    BY <1>1, CallerAlone, OthersStand DEF Call
  <2> QED
    BY <1>0, <1>1, <2>1
    DEF Call, OwnerInv, OwnClient, OwnLocals, Owned, shared
<1>2. CASE CacheKey(c, "lookup", "hit")
  <2>1. Alone' /\ at'[c] = "hit" /\ \A d \in Callers \ {c} : OwnLocals(d)'
    BY <1>2, CallerAlone, OthersStand DEF CacheKey
  <2> QED
    BY <1>0, <1>2, <2>1
    DEF CacheKey, OwnerInv, OwnClient, OwnLocals, Owned, shared
<1>3. CASE Lookup(c)
  <2>1. Alone' /\ at'[c] \in {"idle", "epoch"}
        /\ \A d \in Callers \ {c} : OwnLocals(d)'
    BY <1>3, CallerAlone, OthersStand DEF Lookup
  <2> QED
    BY <1>0, <1>3, <2>1
    DEF Lookup, OwnerInv, OwnClient, OwnLocals, Owned, shared
<1>4. CASE CaptureEpoch(c)
  <2>1. Alone' /\ at'[c] = "client" /\ \A d \in Callers \ {c} : OwnLocals(d)'
    BY <1>4, CallerAlone, OthersStand DEF CaptureEpoch
  <2>2. seen'[c] = epoch
    BY <1>4 DEF CaptureEpoch, OwnerInv
  <2> QED
    BY <1>0, <1>4, <2>1, <2>2
    DEF CaptureEpoch, OwnerInv, OwnClient, OwnLocals, Owned, shared
<1>5. CASE TestClient(c)
  <2>1. /\ Alone' /\ at[c] = "client" /\ at'[c] \in {"build", "fetch"}
        /\ \A d \in Callers \ {c} : OwnLocals(d)'
    BY <1>5, CallerAlone, OthersStand DEF TestClient
  <2> QED
    BY <1>0, <1>5, <2>1
    DEF TestClient, OwnerInv, OwnClient, OwnLocals, Owned, shared
<1>6. CASE BuildClient(c)
  <2>1. /\ Alone' /\ at[c] = "build" /\ at'[c] = "assign"
        /\ \A d \in Callers \ {c} : OwnLocals(d)'
    BY <1>6, CallerAlone, OthersStand DEF BuildClient
  <2>2. conn'[c] = token
    BY <1>6 DEF BuildClient, OwnerInv
  <2> QED
    BY <1>0, <1>6, <2>1, <2>2
    DEF BuildClient, OwnerInv, OwnClient, OwnLocals, Owned, shared
<1>7. CASE AssignClient(c)
  <2>1. /\ rot = "idle" /\ Alone' /\ at[c] = "assign" /\ at'[c] = "fetch"
        /\ \A d \in Callers \ {c} : OwnLocals(d)'
    BY <1>7, CallerAlone, OthersStand DEF AssignClient
  <2>2. OwnClient'
    BY <1>7, <2>1 DEF AssignClient, OwnerInv, OwnClient, OwnLocals
  <2> QED
    BY <1>0, <1>7, <2>1, <2>2
    DEF AssignClient, OwnerInv, OwnLocals, Owned
<1>8. CASE Send(c)
  <2>1. /\ rot = "idle" /\ Alone' /\ at[c] = "fetch"
        /\ \/ at'[c] = "wait" /\ http # 0
           \/ at'[c] = "idle"
        /\ \A d \in Callers \ {c} : OwnLocals(d)'
    BY <1>8, CallerAlone, OthersStand DEF Send
  <2>2. http # 0 => conn'[c] = seen[c] + 1
    <3>1. http # 0 => http = epoch + 1
      BY <1>0, <2>1 DEF OwnerInv, OwnClient, TokenOfEpoch
    <3>2. seen[c] = epoch
      BY <2>1 DEF OwnerInv, OwnLocals
    <3> QED
      BY <1>8, <3>1, <3>2 DEF Send, OwnerInv
  <2> QED
    BY <1>0, <1>8, <2>1, <2>2
    DEF Send, OwnerInv, OwnClient, OwnLocals, Owned, shared
<1>9. CASE GatewayDenies(c)
  <2>1. Alone' /\ at'[c] = "idle" /\ \A d \in Callers \ {c} : OwnLocals(d)'
    BY <1>9, CallerAlone, OthersStand DEF GatewayDenies, AfterDenial
  <2> QED
    BY <1>0, <1>9, <2>1
    DEF GatewayDenies, OwnerInv, OwnClient, OwnLocals, Owned, shared
<1>10. CASE GatewayAllows(c)
  <2>1. /\ Alone' /\ at[c] = "wait" /\ at'[c] = "check"
        /\ \A d \in Callers \ {c} : OwnLocals(d)'
    BY <1>10, CallerAlone, OthersStand DEF GatewayAllows
  <2>2. allowed \subseteq allowed' /\ <<seen[c] + 1, key[c]>> \in allowed'
    BY <1>10, <2>1 DEF GatewayAllows, OwnerInv, OwnLocals
  <2> QED
    BY <1>0, <1>10, <2>1, <2>2
    DEF GatewayAllows, OwnerInv, OwnClient, OwnLocals, Owned, shared
<1>11. CASE CheckEpoch(c)
  <2>1. /\ Alone' /\ at[c] = "check"
        /\ \/ at'[c] = "store" /\ seen[c] = epoch
           \/ at'[c] = "idle"
        /\ \A d \in Callers \ {c} : OwnLocals(d)'
    BY <1>11, CallerAlone, OthersStand DEF CheckEpoch, SameEpoch
  <2> QED
    BY <1>0, <1>11, <2>1
    DEF CheckEpoch, OwnerInv, OwnClient, OwnLocals, Owned, shared
<1>12. CASE CacheKey(c, "store", "insert")
  <2>1. /\ Alone' /\ at[c] = "store" /\ at'[c] = "insert"
        /\ \A d \in Callers \ {c} : OwnLocals(d)'
    BY <1>12, CallerAlone, OthersStand DEF CacheKey
  <2>2. slot'[c] = [epoch |-> epoch, key |-> key[c]]
    BY <1>12 DEF CacheKey, KeyWithEpoch, OwnerInv
  <2> QED
    BY <1>0, <1>12, <2>1, <2>2
    DEF CacheKey, OwnerInv, OwnClient, OwnLocals, Owned, shared
<1>13. CASE Store(c)
  <2>1. /\ Alone' /\ at[c] = "insert" /\ at'[c] = "idle"
        /\ \A d \in Callers \ {c} : OwnLocals(d)'
    BY <1>13, CallerAlone, OthersStand DEF Store
  <2>2. Owned'
    <3>1. slot[c] = [epoch |-> epoch, key |-> key[c]]
      BY <2>1 DEF OwnerInv, OwnLocals
    <3>2. seen[c] = epoch /\ <<seen[c] + 1, key[c]>> \in allowed
      BY <2>1 DEF OwnerInv, OwnLocals
    <3>3. slot[c].epoch = epoch /\ slot[c].key = key[c]
      BY <3>1
    <3>4. <<slot[c].epoch + 1, slot[c].key>> \in allowed
      BY <3>2, <3>3
    <3>5. cache' = cache \cup {slot[c]} /\ UNCHANGED allowed
      BY <1>13 DEF Store
    <3> QED
      BY <3>4, <3>5 DEF OwnerInv, Owned
  <2> QED
    BY <1>0, <1>13, <2>1, <2>2 DEF Store, OwnerInv, OwnClient, OwnLocals
<1> QED
  BY <1>1, <1>2, <1>3, <1>4, <1>5, <1>6, <1>7, <1>8, <1>9, <1>10, <1>11, <1>12,
     <1>13
  DEF Authorize

LEMMA OwnerNext == OwnerInv /\ [Next]_vars => OwnerInv'
<1> SUFFICES ASSUME OwnerInv, [Next]_vars
             PROVE  OwnerInv'
  OBVIOUS
<1>0. TypeInv /\ TypeInv'
  BY TypeNext DEF OwnerInv
<1>1. ASSUME NEW c \in Callers, Authorize(c) PROVE OwnerInv'
  BY <1>1, AuthorizeOwner
<1>2. ASSUME NEW e \in cache, Expire(e) PROVE OwnerInv'
  BY <1>0, <1>2
  DEF Expire, OwnerInv, Alone, OwnClient, OwnLocals, Owned
<1>3. ASSUME NEW from, NEW to, Rotating(from, to), UNCHANGED at
      PROVE  /\ Alone'
             /\ \A c \in Callers : at[c] \in {"idle", "wait"}
  BY <1>3, CallersAssumption
  DEF Rotating, Step, OwnerInv, Alone, CallersAssumption
<1>4. ASSUME NEW from, NEW to, Rotating(from, to),
             UNCHANGED <<at, key, slot, seen, conn, allowed>>
      PROVE  Alone' /\ \A c \in Callers : OwnLocals(c)'
  BY <1>3, <1>4 DEF OwnerInv, OwnLocals
<1>5. CASE SetToken
  BY <1>0, <1>4, <1>5
  DEF SetToken, Rotating, OwnerInv, OwnClient, Owned
<1>6. CASE BumpEpoch
  BY <1>0, <1>4, <1>6
  DEF BumpEpoch, Rotating, OwnerInv, OwnClient, Owned
<1>7. CASE ResetClient
  BY <1>0, <1>4, <1>7
  DEF ResetClient, NoClient, Rotating, OwnerInv, OwnClient, Owned
<1>8. CASE ClearCache
  BY <1>0, <1>4, <1>8
  DEF ClearCache, Rotating, OwnerInv, OwnClient, Owned
<1>9. CASE UNCHANGED vars
  BY <1>0, <1>9 DEF vars, OwnerInv, Alone, OwnClient, OwnLocals, Owned
<1> QED
  BY <1>1, <1>2, <1>5, <1>6, <1>7, <1>8, <1>9 DEF Next

\* Tasks stay tasks.
LEMMA TasksStay == Next => UNCHANGED tasks
BY DEF Next, Authorize, Call, CacheKey, Lookup, CaptureEpoch, TestClient,
       BuildClient, AssignClient, Send, GatewayDenies, GatewayAllows, CheckEpoch,
       Store, Goto, Expire, SetToken, BumpEpoch, ResetClient, ClearCache,
       Rotating, Step

LEMMA TasksOwner == Spec => [](tasks => OwnerInv)
<1>1. (tasks => OwnerInv) /\ [Next]_vars => (tasks => OwnerInv)'
  BY OwnerNext, TasksStay DEF vars
<1> QED
  BY <1>1, OwnerInit, PTL DEF Spec

\* For tasks of one event loop no entry of the cache was granted to another
\* token than that of its epoch (AccessCache!EntriesAreOwn).
THEOREM EntriesOwned == Spec => []EntriesAreOwn
<1>1. (tasks => OwnerInv) => EntriesAreOwn
  BY DEF OwnerInv, Owned, EntriesAreOwn
<1> QED
  BY <1>1, TasksOwner, PTL

\* Under the same condition the HTTP client never sends an older token once a
\* rotation returned (AccessCache!RotationTakes).
THEOREM RotationHolds == Spec => []RotationTakes
<1>1. (tasks => OwnerInv) => RotationTakes
  BY DEF OwnerInv, OwnClient, RotationTakes
<1> QED
  BY <1>1, TasksOwner, PTL

-----------------------------------------------------------------------------
(* Tasks or threads.                                                        *)

Granted(k) == \E t \in Tokens : <<t, k>> \in allowed

\* A caller on its way to store an allow has got one for its request, and its
\* key names that request; whose token it was granted to is another matter.
InHand(c) ==
  /\ at[c] \in {"check", "store", "insert"} => Granted(key[c])
  /\ at[c] = "insert" => slot[c].key = key[c]

GrantInv == TypeInv /\ (\A c \in Callers : InHand(c)) /\ DenyNeverCached

LEMMA GrantAuthorize ==
  ASSUME GrantInv, NEW c \in Callers, Authorize(c)
  PROVE  GrantInv'
<1>0. TypeInv /\ TypeInv'
  BY AuthorizeType DEF GrantInv
<1>1. ASSUME NEW d \in Callers \ {c} PROVE UNCHANGED <<at[d], key[d], slot[d]>>
  BY <1>0
  DEF Authorize, Call, CacheKey, Lookup, CaptureEpoch, TestClient, BuildClient,
      AssignClient, Send, GatewayDenies, GatewayAllows, CheckEpoch, Store, Goto,
      TypeInv, TypeOK
<1>2. allowed \subseteq allowed'
  BY DEF Authorize, Call, CacheKey, Lookup, CaptureEpoch, TestClient, BuildClient,
         AssignClient, Send, GatewayDenies, GatewayAllows, CheckEpoch, Store
<1>3. \A k : Granted(k) => Granted(k)'
  BY <1>2 DEF Granted, Tokens
<1>4. \A d \in Callers \ {c} : InHand(d)'
  BY <1>1, <1>3 DEF GrantInv, InHand
<1>5. CASE GatewayAllows(c)
  <2>1. at[c] = "wait" /\ conn[c] \in Tokens /\ at'[c] = "check"
    BY <1>0, <1>5 DEF GatewayAllows, Goto, TypeInv, TypeOK, HasClient
  <2>2. Granted(key[c])' /\ UNCHANGED cache
    BY <1>5, <2>1 DEF GatewayAllows, Granted, Tokens, shared
  <2> QED
    BY <1>0, <1>3, <1>4, <2>1, <2>2 DEF GrantInv, InHand, DenyNeverCached, Granted
<1>6. CASE CacheKey(c, "store", "insert")
  <2>1. at[c] = "store" /\ at'[c] = "insert" /\ slot'[c].key = key'[c]
    BY <1>0, <1>6 DEF CacheKey, KeyWithEpoch, Goto, TypeInv, TypeOK
  <2>2. UNCHANGED <<cache, key>>
    BY <1>6 DEF CacheKey, shared
  <2> QED
    BY <1>0, <1>3, <1>4, <2>1, <2>2 DEF GrantInv, InHand, DenyNeverCached, Granted
<1>7. CASE Store(c)
  <2>1. /\ at[c] = "insert" /\ at'[c] = "idle"
        /\ cache' = cache \cup {slot[c]}
    BY <1>0, <1>7 DEF Store, Goto, TypeInv, TypeOK
  <2>2. Granted(slot[c].key)
    BY <2>1 DEF GrantInv, InHand
  <2>3. DenyNeverCached'
    BY <1>3, <2>1, <2>2 DEF GrantInv, DenyNeverCached, Granted
  <2> QED
    BY <1>0, <1>4, <2>1, <2>3 DEF GrantInv, InHand
<1>8. CASE CheckEpoch(c)
  <2>1. at[c] = "check" /\ UNCHANGED <<cache, key>> /\ at'[c] \in {"store", "idle"}
    BY <1>0, <1>8 DEF CheckEpoch, Goto, TypeInv, TypeOK, shared
  <2> QED
    BY <1>0, <1>3, <1>4, <2>1 DEF GrantInv, InHand, DenyNeverCached, Granted
<1>9. CASE \/ \E k \in Keys : Call(c, k)
           \/ CacheKey(c, "lookup", "hit") \/ Lookup(c) \/ CaptureEpoch(c)
           \/ TestClient(c) \/ BuildClient(c) \/ AssignClient(c) \/ Send(c)
           \/ GatewayDenies(c)
  <2>1. at'[c] \notin {"check", "store", "insert"}
    BY <1>0, <1>9
    DEF Call, CacheKey, Lookup, CaptureEpoch, TestClient, BuildClient,
        AssignClient, Send, GatewayDenies, AfterDenial, Goto, TypeInv, TypeOK
  <2>2. UNCHANGED cache
    BY <1>9
    DEF Call, CacheKey, Lookup, CaptureEpoch, TestClient, BuildClient,
        AssignClient, Send, GatewayDenies, shared
  <2> QED
    BY <1>0, <1>3, <1>4, <2>1, <2>2 DEF GrantInv, InHand, DenyNeverCached, Granted
<1> QED
  BY <1>5, <1>6, <1>7, <1>8, <1>9 DEF Authorize

LEMMA GrantNext == GrantInv /\ [Next]_vars => GrantInv'
<1> SUFFICES ASSUME GrantInv, [Next]_vars
             PROVE  GrantInv'
  OBVIOUS
<1>0. TypeInv'
  BY TypeNext DEF GrantInv
<1>1. ASSUME NEW c \in Callers, Authorize(c) PROVE GrantInv'
  BY <1>1, GrantAuthorize
<1>2. CASE \/ \E e \in cache : Expire(e)
           \/ SetToken \/ BumpEpoch \/ ResetClient \/ ClearCache \/ UNCHANGED vars
  <2>1. cache' \subseteq cache /\ UNCHANGED <<at, key, slot, allowed>>
    BY <1>2 DEF Expire, SetToken, BumpEpoch, ResetClient, ClearCache, vars
  <2> QED
    BY <1>0, <2>1 DEF GrantInv, InHand, Granted, DenyNeverCached, Tokens
<1> QED
  BY <1>1, <1>2 DEF Next

\* Deny is never cached: whatever the interleaving of tasks or threads with a
\* rotation, an entry stands for an answer that allowed its request
\* (AccessCache!DenyNeverCached).
THEOREM DenyUncached == Spec => []DenyNeverCached
<1>1. Init => GrantInv
  BY TypeInit DEF Init, GrantInv, InHand, DenyNeverCached
<1>2. GrantInv => DenyNeverCached
  BY DEF GrantInv
<1> QED
  BY <1>1, <1>2, GrantNext, PTL DEF Spec
=============================================================================
