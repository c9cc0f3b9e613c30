---------------------------- MODULE ProxyHandles ----------------------------
(***************************************************************************)
(* The handles of the MCP shield-proxy (python/src/aegis_trust/mcp_proxy.py): *)
(* the ids and cursors it gives out in place of the server's, the values of *)
(* the host it lets the server echo, and the refusals it owes the server.   *)
(*                                                                         *)
(* The server's requests reach the host under an id of the proxy, and the   *)
(* host's answers go back under the server's id; two tables, one for each   *)
(* direction, are filled by the server-to-client pump (s2c) and emptied by  *)
(* the client-to-server pump (c2s).  The cursor of a listing likewise       *)
(* reaches the host as a handle.  A step is what a pump does under the lock,*)
(* or one write to a pipe.  Lines that carry no handle are McpProxy's, and  *)
(* lines that are dropped change nothing here.                              *)
(***************************************************************************)
EXTENDS Naturals, Sequences

CONSTANTS
  SrvIds,        \* ids the server gives its own requests
  Methods,       \* _LISTING_METHODS
  Cursors,       \* cursors of the server
  Tokens,        \* progress tokens of the host
  Uris,          \* resources the host subscribes to
  None,          \* Python's None
  ReuseSrvIds,   \* FALSE: the server never uses a request id twice
  MaxHandles,    \* bound on the handles the proxy gives out
  MaxHost,       \* bound on the lines of the host
  MaxServer      \* bound on the lines of the server

\* A line: its kind, the id, token, method or uri it names, what goes with it
\* (a cursor, a count), and in `of`, which nobody reads, what that stands for.
Msg(kind, id, ref, of) == [kind |-> kind, id |-> id, ref |-> ref, of |-> of]
Kinds == {"none", "request", "cancelled", "listing", "progress", "updated", "badCursor", "blocked",
          "answer", "unknown", "refusal", "relayed", "refused",
          "list", "token", "subscribe", "unsubscribe"}
Ref   == SrvIds \cup Methods \cup Cursors \cup Tokens \cup Uris \cup Nat \cup {None}
Line  == [kind : Kinds, id : Ref, ref : Ref, of : Ref]
NoMsg == Msg("none", None, None, None)

ASSUME HandleAssumption ==
  /\ None \notin SrvIds \cup Methods \cup Cursors \cup Tokens \cup Uris \cup Nat \cup Line
  /\ ReuseSrvIds \in BOOLEAN
  /\ {MaxHandles, MaxHost, MaxServer} \subseteq Nat

VARIABLES
  requests,  \* _server_requests: handle -> server id
  idOf,      \* _server_ids: server id -> handle
  cursors,   \* _cursors: handle -> the listing line that carries it
  fresh,     \* the next handle: secrets.token_hex never repeats one
  tokens,    \* _progress_tokens
  counts,    \* _progress_counts
  subs,      \* _subscriptions
  owed,      \* _to_server: the refusals that s2c has yet to write
  c2s,       \* "read", "toServer", "toHost", "closed" or "dead"
  s2c,       \* "read", "relay" or "drain"
  cLine,     \* the line c2s is about to write
  sLine,     \* the line s2c is about to write
  server,    \* "up" or "gone"
  unlisted,  \* method -> listings the server has yet to answer
  said,      \* history: the lines of the host
  asked,     \* history: the requests of the server
  noted,     \* number of the other lines of the server
  toHost,    \* history: the lines the host received
  toServer   \* history: the lines the server received

vars == <<requests, idOf, cursors, fresh, tokens, counts, subs, owed, c2s, s2c,
          cLine, sLine, server, unlisted, said, asked, noted, toHost, toServer>>

Handles == 1 .. MaxHandles

Kind(lines, k) == {lines[j] : j \in {i \in DOMAIN lines : lines[i].kind = k}}

Init ==
  /\ requests = [h \in Handles |-> None]
  /\ idOf = [s \in SrvIds |-> None]
  /\ cursors = [h \in Handles |-> None]
  /\ fresh = 1
  /\ tokens = {} /\ counts = [t \in Tokens |-> 0] /\ subs = {}
  /\ owed = <<>>
  /\ c2s = "read" /\ s2c = "read" /\ cLine = NoMsg /\ sLine = NoMsg
  /\ server = "up"
  /\ unlisted = [m \in Methods |-> 0]
  /\ said = <<>> /\ asked = <<>> /\ noted = 0 /\ toHost = <<>> /\ toServer = <<>>

-----------------------------------------------------------------------------
(* handle_client_line: the host says something, c2s writes `line`.          *)

HostSays(words, line, where) ==
  /\ c2s = "read" /\ Len(said) < MaxHost
  /\ said' = Append(said, words)
  /\ cLine' = line /\ c2s' = where
  /\ UNCHANGED <<cursors, fresh, counts, owed, s2c, sLine, server, unlisted,
                 asked, noted, toHost, toServer>>

\* Both tables, once request h is answered.
Answered(h) ==
  <<[requests EXCEPT ![h] = None],
    IF requests[h] = None THEN idOf ELSE [idOf EXCEPT ![requests[h]] = None]>>

\* The host answers a request it received.  The first answer takes the entry;
\* another one goes to the server as it is, under an id the server never used.
HostAnswers(h) ==
  /\ \E line \in Kind(toHost, "request") : line.id = h
  /\ HostSays(Msg("answer", h, None, None),
              IF requests[h] # None THEN Msg("answer", requests[h], None, h)
              ELSE Msg("unknown", None, None, h), "toServer")
  /\ requests' = Answered(h)[1] /\ idOf' = Answered(h)[2]
  /\ UNCHANGED <<tokens, subs>>

\* A cursor is honoured for the listing it was issued with.
HonouredAnywhere(m, h) == cursors[h] # None   \* Fault: for any listing.
Honoured(m, h) == cursors[h] # None /\ cursors[h].id = m

\* A listing, from the start or from a cursor the host received.
HostLists(m, h) ==
  /\ h = None \/ \E line \in Kind(toHost, "listing") : line.ref = h
  /\ \/ h = None /\ HostSays(Msg("list", m, None, None),
                             Msg("list", m, None, None), "toServer")
     \/ /\ h # None /\ Honoured(m, h)
        /\ HostSays(Msg("list", m, h, None),
                    Msg("list", m, cursors[h].of, h), "toServer")
     \/ /\ h # None /\ ~Honoured(m, h)
        /\ HostSays(Msg("list", m, h, None),
                    Msg("badCursor", m, None, h), "toHost")
  /\ UNCHANGED <<requests, idOf, tokens, subs>>

\* _remember_host_values: the token of a request is remembered before the
\* request is judged, so that of a refused one too.
HostSendsToken(t) ==
  /\ \/ HostSays(Msg("token", t, None, None), Msg("token", t, None, None), "toServer")
     \/ HostSays(Msg("token", t, None, None), Msg("blocked", None, None, None), "toHost")
  /\ tokens' = tokens \cup {t}
  /\ UNCHANGED <<requests, idOf, subs>>

HostSubscribes(u) ==
  /\ HostSays(Msg("subscribe", u, None, None), Msg("subscribe", u, None, None),
              "toServer")
  /\ subs' = subs \cup {u}
  /\ UNCHANGED <<requests, idOf, tokens>>

HostUnsubscribes(u) ==
  /\ HostSays(Msg("unsubscribe", u, None, None), Msg("unsubscribe", u, None, None),
              "toServer")
  /\ subs' = subs \ {u}
  /\ UNCHANGED <<requests, idOf, tokens>>

\* c2s writes its line; a server that is gone breaks the pump.
WriteC2S ==
  /\ c2s \in {"toServer", "toHost"}
  /\ c2s' = IF c2s = "toServer" /\ server = "gone" THEN "dead" ELSE "read"
  /\ toServer' = IF c2s = "toServer" /\ server = "up"
                 THEN Append(toServer, cLine) ELSE toServer
  /\ toHost' = IF c2s = "toHost" THEN Append(toHost, cLine) ELSE toHost
  /\ unlisted' = IF cLine.kind = "list" /\ c2s = "toServer" /\ server = "up"
                 THEN [unlisted EXCEPT ![cLine.id] = @ + 1] ELSE unlisted
  /\ cLine' = NoMsg
  /\ UNCHANGED <<requests, idOf, cursors, fresh, tokens, counts, subs, owed,
                 s2c, sLine, server, said, asked, noted>>

\* End of the host's input: c2s closes the server's stdin and ends.  s2c goes
\* on reading what the server writes, until main ends it.
ReadHostEof ==
  /\ c2s = "read" /\ c2s' = "closed"
  /\ UNCHANGED <<requests, idOf, cursors, fresh, tokens, counts, subs, owed,
                 s2c, cLine, sLine, server, unlisted, said, asked, noted,
                 toHost, toServer>>

-----------------------------------------------------------------------------
(* handle_server_line: s2c reads a line and relays `line`, or nothing.      *)

Relays(line) ==
  /\ s2c = "read"
  /\ sLine' = line
  /\ s2c' = IF line = NoMsg THEN "drain" ELSE "relay"
  /\ UNCHANGED <<tokens, subs, c2s, cLine, server, said, toHost, toServer>>

MayAsk(s) ==
  /\ Len(asked) < MaxServer
  /\ ReuseSrvIds \/ \A k \in DOMAIN asked : asked[k].id # s

IdsKept(s) == [idOf EXCEPT ![s] = fresh]

\* ping and roots/list: relayed under a new handle, known in both directions.
ServerAsks(s) ==
  /\ MayAsk(s) /\ fresh \in Handles
  /\ asked' = Append(asked, Msg("relayed", s, None, None))
  /\ requests' = [requests EXCEPT ![fresh] = s]
  /\ idOf' = IdsKept(s)
  /\ fresh' = fresh + 1
  /\ Relays(Msg("request", fresh, None, s))
  /\ UNCHANGED <<cursors, counts, owed, unlisted, noted>>

\* Any other request of the server is refused, to the server alone.
ServerAsksInVain(s) ==
  /\ MayAsk(s)
  /\ asked' = Append(asked, Msg("refused", s, None, None))
  /\ owed' = Append(owed, Msg("refusal", s, None, Len(asked) + 1))
  /\ Relays(NoMsg)
  /\ UNCHANGED <<requests, idOf, cursors, fresh, counts, unlisted, noted>>

Notes(line) ==
  /\ noted < MaxServer /\ noted' = noted + 1
  /\ Relays(line)
  /\ UNCHANGED <<requests, idOf, owed, asked>>

CancelledLatest(s) == fresh - 1   \* Fault: the last handle given out.
CancelledId(s) == idOf[s]

\* A cancellation is relayed under the id the host saw, if it has an entry.
ServerCancels(s) ==
  /\ idOf[s] # None
  /\ Notes(Msg("cancelled", CancelledId(s), None, s))
  /\ UNCHANGED <<cursors, fresh, counts, unlisted>>

\* A listing reply: its cursor becomes a handle, registered before it is relayed.
ServerLists(m, c) ==
  /\ unlisted[m] > 0
  /\ unlisted' = [unlisted EXCEPT ![m] = @ - 1]
  /\ IF c = None
     THEN Notes(Msg("listing", m, None, None)) /\ UNCHANGED <<cursors, fresh>>
     ELSE /\ fresh \in Handles
          /\ cursors' = [cursors EXCEPT ![fresh] = Msg("listing", m, fresh, c)]
          /\ fresh' = fresh + 1
          /\ Notes(Msg("listing", m, fresh, c))
  /\ UNCHANGED counts

Counted(t) == [counts EXCEPT ![t] = @ + 1]

\* Progress: the proxy's own count for the token, never the server's number.
ServerProgresses(t) ==
  /\ t \in tokens
  /\ counts' = Counted(t)
  /\ Notes(Msg("progress", t, counts[t] + 1, None))
  /\ UNCHANGED <<cursors, fresh, unlisted>>

Wanted(u) == u \in subs

ServerUpdates(u) ==
  /\ Wanted(u)
  /\ Notes(Msg("updated", u, None, None))
  /\ UNCHANGED <<cursors, fresh, counts, unlisted>>

Relay ==
  /\ s2c = "relay"
  /\ toHost' = Append(toHost, sLine)
  /\ sLine' = NoMsg /\ s2c' = "drain"
  /\ UNCHANGED <<requests, idOf, cursors, fresh, tokens, counts, subs, owed,
                 c2s, cLine, server, unlisted, said, asked, noted, toServer>>

DrainKeeps == owed   \* Fault: the refusals are not taken off the queue.
Drained == <<>>

\* A line written to the server gets there.
StdinOpen == server = "up" /\ c2s # "closed"

\* drain_to_server: what is owed is written; a server that is gone, or whose
\* stdin was closed, does not get it, and the write's exception is dropped.
Drain ==
  /\ s2c = "drain"
  /\ owed' = Drained
  /\ toServer' = IF StdinOpen THEN toServer \o owed ELSE toServer
  /\ s2c' = "read"
  /\ UNCHANGED <<requests, idOf, cursors, fresh, tokens, counts, subs, c2s,
                 cLine, sLine, server, unlisted, said, asked, noted, toHost>>

\* What the server wrote before it died is still read.
ServerDies ==
  /\ server = "up" /\ server' = "gone"
  /\ UNCHANGED <<requests, idOf, cursors, fresh, tokens, counts, subs, owed,
                 c2s, s2c, cLine, sLine, unlisted, said, asked, noted, toHost,
                 toServer>>

HostLine ==
  \/ \E h \in Handles : HostAnswers(h)
  \/ \E m \in Methods, h \in Handles \cup {None} : HostLists(m, h)
  \/ \E t \in Tokens : HostSendsToken(t)
  \/ \E u \in Uris : HostSubscribes(u) \/ HostUnsubscribes(u)

ServerLine ==
  \/ \E s \in SrvIds : ServerAsks(s) \/ ServerAsksInVain(s) \/ ServerCancels(s)
  \/ \E m \in Methods, c \in Cursors \cup {None} : ServerLists(m, c)
  \/ \E t \in Tokens : ServerProgresses(t)
  \/ \E u \in Uris : ServerUpdates(u)

Next == HostLine \/ WriteC2S \/ ReadHostEof \/ ServerLine \/ Relay \/ Drain \/ ServerDies

Spec == Init /\ [][Next]_vars

-----------------------------------------------------------------------------
(* Properties.                                                              *)

\* The types of the tables, the lines and what was said.
TypeOK ==
  /\ requests \in [Handles -> SrvIds \cup {None}]
  /\ idOf \in [SrvIds -> Handles \cup {None}]
  /\ cursors \in [Handles -> Line \cup {None}]
  /\ fresh \in Nat \ {0} /\ noted \in Nat
  /\ tokens \subseteq Tokens /\ counts \in [Tokens -> Nat] /\ subs \subseteq Uris
  /\ c2s \in {"read", "toServer", "toHost", "closed", "dead"} /\ s2c \in {"read", "relay", "drain"}
  /\ cLine \in Line /\ sLine \in Line
  /\ server \in {"up", "gone"}
  /\ unlisted \in [Methods -> Nat]
  /\ owed \in Seq(Line) /\ said \in Seq(Line) /\ asked \in Seq(Line)
  /\ toHost \in Seq(Line) /\ toServer \in Seq(Line)

\* The server used no request id twice.
IdsUnique ==
  \A j, k \in DOMAIN asked : asked[j].id = asked[k].id => j = k

\* A handle means the same wherever it shows: a cancellation follows the host's
\* copy of the request it cancels, and an answer of the host reaches the server
\* under the id of the request whose copy it answers, also when the server
\* uses an id again while its first request is open.
HandlesResolve ==
  /\ \A j \in DOMAIN toHost : toHost[j].kind = "cancelled" =>
       \E i \in 1 .. j - 1 : /\ toHost[i].kind = "request"
                             /\ toHost[i].id = toHost[j].id
                             /\ toHost[i].of = toHost[j].of
  /\ \A a \in Kind(toServer, "answer") :
       \E q \in Kind(toHost, "request") : q.id = a.of /\ q.of = a.id

\* The server is answered at most once per request, by a refusal or by the
\* host, however often the host answers and whatever the two pumps do.
OneAnswerEach ==
  IdsUnique =>
    \A j, k \in DOMAIN toServer :
      /\ {toServer[j].kind, toServer[k].kind} \subseteq {"answer", "refusal"}
      /\ toServer[j].id = toServer[k].id
      => j = k

\* A request the host has not answered can be cancelled: the table that leads
\* from the server's id to the handle still holds it.
UnansweredCanBeCancelled ==
  IdsUnique =>
    \A q \in Kind(toHost, "request") :
      \/ \E a \in Kind(said, "answer") : a.id = q.id
      \/ idOf[q.of] = q.id

\* The server gets the refusals of its requests once each, in the order it
\* asked; those it has not got are in the queue of s2c, in that order too, or
\* fell due after the server was gone or its stdin closed.
RefusalsInOrder ==
  LET lines == toServer \o owed
  IN  /\ \A r \in Kind(lines, "refusal") :
           r.of \in DOMAIN asked /\ asked[r.of] = Msg("refused", r.id, None, None)
      /\ StdinOpen => \A k \in DOMAIN asked : asked[k].kind = "refused" =>
           \E r \in Kind(lines, "refusal") : r.of = k
      /\ \A j, k \in DOMAIN lines :
           lines[j].kind = "refusal" /\ lines[k].kind = "refusal" /\ j < k =>
             lines[j].of < lines[k].of

\* A cursor comes back to the server as the server wrote it, for the listing
\* it came with, and the host's use of it there is never turned down.
CursorsRoundTrip ==
  /\ \A l \in Kind(toServer, "list") : l.of # None =>
       \E q \in Kind(toHost, "listing") :
         q.id = l.id /\ q.ref = l.of /\ q.of = l.ref
  /\ \A b \in Kind(toHost, "badCursor") :
       \A q \in Kind(toHost, "listing") : ~(q.ref = b.of /\ q.id = b.id)

\* "an echo of a host value, or a handle the proxy owns" (class ShieldProxy):
\* what the server's notifications name, the host named first; and the progress
\* of a token counts 1, 2, 3, whatever number the server sends.
HostValuesOnly ==
  /\ \A l \in Kind(toHost, "updated") :
       \E w \in Kind(said, "subscribe") : w.id = l.id
  /\ \A j \in DOMAIN toHost : toHost[j].kind = "progress" =>
       LET before == {i \in 1 .. j - 1 : toHost[i].kind = "progress" /\ toHost[i].id = toHost[j].id}
       IN  /\ \A i \in before : toHost[i].ref < toHost[j].ref
           /\ toHost[j].ref = 1 \/ \E i \in before : toHost[i].ref + 1 = toHost[j].ref
           /\ \E w \in Kind(said, "token") : w.id = toHost[j].id

\* The handles of requests, whole: a handle means the same wherever it shows,
\* as long as it can still be asked for.
HandlesStand == HandlesResolve /\ UnansweredCanBeCancelled

\* The answers the server is owed: each once, refusals in order.
ServerIsAnswered == OneAnswerEach /\ RefusalsInOrder

\* What is echoed, either way, is what the owner wrote.
EchoesAreOwn == CursorsRoundTrip /\ HostValuesOnly
=============================================================================
