---------------------------- MODULE AccessCache ----------------------------
(***************************************************************************)
(* The access check of the boundary client and the rotation of its token   *)
(* (AegisClient.authorize, aauthorize and set_token, client.py).           *)
(*                                                                         *)
(* Callers share one client object: the bearer token, the epoch that        *)
(* counts its rotations, the HTTP client that was built with some token's   *)
(* header, and the cache of allowed requests keyed by epoch.  A step is one *)
(* statement of one caller.  The callers are tasks of one event loop, where *)
(* only the gateway call lets another of them in (aauthorize), or threads   *)
(* (authorize; the heartbeat of a stream is one).                          *)
(*                                                                         *)
(* Tokens are numbered in the order of their use: under epoch e the token   *)
(* is e + 1, and each rotation brings one that was never used before.       *)
(***************************************************************************)
EXTENDS Naturals, FiniteSets

CONSTANTS
  Callers,      \* tasks or threads that call authorize
  Keys,         \* (purpose, sorted scope) pairs; a scope of two is refused
  MaxRotations, \* bound on the calls of set_token
  Rotator,      \* the caller of set_token
  Nobody        \* no task is between two awaits

ASSUME CallersAssumption ==
  /\ Rotator \notin Callers /\ Nobody \notin Callers \cup {Rotator}
  /\ MaxRotations \in Nat

VARIABLES
  tasks,    \* TRUE: the callers are tasks of one event loop, FALSE: threads
  token,    \* _token
  epoch,    \* _token_epoch
  http,     \* token in the header of the shared HTTP client, 0: None
  cache,    \* unexpired entries of _access_cache: [epoch, key]
  rot,      \* where set_token is
  at,       \* where each caller is
  key,      \* the request each caller checks
  slot,     \* the cache key each caller computed last
  seen,     \* epoch_at_request of each caller
  conn,     \* token of the HTTP client each caller built or uses
  running,  \* the task that holds the event loop
  allowed   \* history: <<token, key>> the gateway answered allowed = true

shared == <<token, epoch, http, cache>>
vars   == <<tasks, token, epoch, http, cache, rot, at, key, slot, seen, conn,
            running, allowed>>

Epochs  == 0 .. MaxRotations
Tokens  == 1 .. MaxRotations + 1
Entries == [epoch : Epochs, key : Keys]

Init ==
  /\ tasks \in BOOLEAN
  /\ token = 1 /\ epoch = 0 /\ http = 0 /\ cache = {}
  /\ rot = "idle"
  /\ at   = [c \in Callers |-> "idle"]
  /\ \E k \in Keys : key = [c \in Callers |-> k]   \* not read before a call
  /\ slot = [c \in Callers |-> [epoch |-> 0, key |-> key[c]]]
  /\ seen = [c \in Callers |-> 0]
  /\ conn = [c \in Callers |-> 0]
  /\ running = Nobody
  /\ allowed = {}

\* The process p takes its next statement and leaves the loop at an await.
Step(p, goesOn) ==
  /\ tasks => running \in {Nobody, p}
  /\ running' = IF goesOn THEN p ELSE Nobody
  /\ UNCHANGED tasks

\* Caller c goes from one statement of authorize to another; while it waits for
\* the gateway, and after it returned, the others may run.
Goto(c, from, to) ==
  /\ at[c] = from
  /\ at' = [at EXCEPT ![c] = to]
  /\ Step(c, to \notin {"wait", "idle"})

-----------------------------------------------------------------------------
(* authorize.                                                               *)

\* A call; a request with more than one scope is denied before this.
Call(c, k) ==
  /\ Goto(c, "idle", "lookup")
  /\ key' = [key EXCEPT ![c] = k]
  /\ UNCHANGED <<shared, rot, slot, seen, conn, allowed>>

\* _cache_key reads the epoch, in _cached_allow and again in _remember_allow.
KeyWithEpoch(c) == [epoch |-> epoch, key |-> key[c]]

CacheKey(c, from, to) ==
  /\ Goto(c, from, to)
  /\ slot' = [slot EXCEPT ![c] = KeyWithEpoch(c)]
  /\ UNCHANGED <<shared, rot, key, seen, conn, allowed>>

\* _cached_allow: a hit is the answer.
Lookup(c) ==
  /\ \/ slot[c] \in cache /\ Goto(c, "hit", "idle")
     \/ slot[c] \notin cache /\ Goto(c, "hit", "epoch")
  /\ UNCHANGED <<shared, rot, key, slot, seen, conn, allowed>>

CaptureEpoch(c) ==
  /\ Goto(c, "epoch", "client")
  /\ seen' = [seen EXCEPT ![c] = epoch]
  /\ UNCHANGED <<shared, rot, key, slot, conn, allowed>>

\* _get_httpx: the client is built on first use, with the token of that moment.
TestClient(c) ==
  /\ Goto(c, "client", IF http = 0 THEN "build" ELSE "fetch")
  /\ UNCHANGED <<shared, rot, key, slot, seen, conn, allowed>>

BuildClient(c) ==
  /\ Goto(c, "build", "assign")
  /\ conn' = [conn EXCEPT ![c] = token]
  /\ UNCHANGED <<shared, rot, key, slot, seen, allowed>>

AssignClient(c) ==
  /\ Goto(c, "assign", "fetch")
  /\ http' = conn[c]
  /\ UNCHANGED <<token, epoch, cache, rot, key, slot, seen, conn, allowed>>

\* The request is sent; a client reset to None in the meantime is an exception,
\* and an exception is a denial.
Send(c) ==
  /\ \/ http # 0 /\ Goto(c, "fetch", "wait")
     \/ http = 0 /\ Goto(c, "fetch", "idle")
  /\ conn' = [conn EXCEPT ![c] = http]
  /\ UNCHANGED <<shared, rot, key, slot, seen, allowed>>

\* Only a 200 whose body says allowed = true goes on to be remembered.
AfterAnyReply == {"check"}   \* Fault: a 200 is enough.
AfterDenial   == {"idle"}

\* The gateway says no, or there is a transport error, an unexpected status, a
\* body that is not JSON or lacks "allowed".
GatewayDenies(c) ==
  /\ \E to \in AfterDenial : Goto(c, "wait", to)
  /\ UNCHANGED <<shared, rot, key, slot, seen, conn, allowed>>

GatewayAllows(c) ==
  /\ Goto(c, "wait", "check")
  /\ allowed' = allowed \cup {<<conn[c], key[c]>>}
  /\ UNCHANGED <<shared, rot, key, slot, seen, conn>>

\* _remember_allow: nothing is stored when the token was rotated since.
SameEpochAlways(c) == TRUE   \* Fault: the epoch is not compared.
SameEpoch(c) == seen[c] = epoch

CheckEpoch(c) ==
  /\ \/ SameEpoch(c) /\ Goto(c, "check", "store")
     \/ ~SameEpoch(c) /\ Goto(c, "check", "idle")
  /\ UNCHANGED <<shared, rot, key, slot, seen, conn, allowed>>

Store(c) ==
  /\ Goto(c, "insert", "idle")
  /\ cache' = cache \cup {slot[c]}
  /\ UNCHANGED <<token, epoch, http, rot, key, slot, seen, conn, allowed>>

\* time.monotonic() passes the end of the entry's time to live.
Expire(e) ==
  /\ e \in cache
  /\ cache' = cache \ {e}
  /\ UNCHANGED <<tasks, token, epoch, http, rot, at, key, slot, seen, conn,
                 running, allowed>>

-----------------------------------------------------------------------------
(* set_token.                                                               *)

Rotating(from, to) == rot = from /\ rot' = to /\ Step(Rotator, to # "idle")

SetToken ==
  /\ epoch < MaxRotations
  /\ Rotating("idle", "epoch")
  /\ token' = token + 1
  /\ UNCHANGED <<epoch, http, cache, at, key, slot, seen, conn, allowed>>

BumpEpoch ==
  /\ Rotating("epoch", "client")
  /\ epoch' = epoch + 1
  /\ UNCHANGED <<token, http, cache, at, key, slot, seen, conn, allowed>>

KeptClient == http   \* Fault: the HTTP client outlives the rotation.
NoClient   == 0

ResetClient ==
  /\ Rotating("client", "cache")
  /\ http' = NoClient
  /\ UNCHANGED <<token, epoch, cache, at, key, slot, seen, conn, allowed>>

ClearCache ==
  /\ Rotating("cache", "idle")
  /\ cache' = {}
  /\ UNCHANGED <<token, epoch, http, at, key, slot, seen, conn, allowed>>

-----------------------------------------------------------------------------

Authorize(c) ==
  \/ \E k \in Keys : Call(c, k)
  \/ CacheKey(c, "lookup", "hit") \/ Lookup(c)
  \/ CaptureEpoch(c)
  \/ TestClient(c) \/ BuildClient(c) \/ AssignClient(c) \/ Send(c)
  \/ GatewayDenies(c) \/ GatewayAllows(c)
  \/ CheckEpoch(c) \/ CacheKey(c, "store", "insert") \/ Store(c)

Next ==
  \/ \E c \in Callers : Authorize(c)
  \/ \E e \in cache : Expire(e)
  \/ SetToken \/ BumpEpoch \/ ResetClient \/ ClearCache

Spec == Init /\ [][Next]_vars

-----------------------------------------------------------------------------
(* Properties.                                                              *)

Points == {"idle", "lookup", "hit", "epoch", "client", "build", "assign",
           "fetch", "wait", "check", "store", "insert"}

\* The types of the client object and of its callers' locals.
TypeOK ==
  /\ tasks \in BOOLEAN
  /\ token \in Tokens
  /\ epoch \in Epochs
  /\ http \in Tokens \cup {0}
  /\ cache \subseteq Entries
  /\ rot \in {"idle", "epoch", "client", "cache"}
  /\ at \in [Callers -> Points]
  /\ key \in [Callers -> Keys]
  /\ slot \in [Callers -> Entries]
  /\ seen \in [Callers -> Epochs]
  /\ conn \in [Callers -> Tokens \cup {0}]
  /\ running \in Callers \cup {Rotator, Nobody}
  /\ allowed \subseteq Tokens \X Keys

\* "An in-flight authorize() started before set_token() must not poison the
\* cache for the new principal" (_remember_allow): for tasks, an entry that a
\* call under some epoch can hit was granted to the token of that epoch.
EntriesAreOwn ==
  tasks => \A e \in cache : <<e.epoch + 1, e.key>> \in allowed

\* "Rotate the bearer token used for subsequent requests" (set_token): for
\* tasks, once a rotation returned, the shared HTTP client does not send an
\* older token.
RotationTakes == tasks /\ rot = "idle" => http \in {0, token}

\* "Deny is never cached": whatever the interleaving, an entry stands for an
\* answer allowed = true to some token this client held.
DenyNeverCached ==
  \A e \in cache : \E t \in Tokens : <<t, e.key>> \in allowed

\* The same comment of _remember_allow, said of threads: after a rotation no
\* entry of the cache rests on grants to earlier tokens only.
NotPoisoned ==
  rot = "idle" =>
    \A e \in cache :
      \E t \in Tokens : t > e.epoch /\ <<t, e.key>> \in allowed
=============================================================================
