------------------------- MODULE ProxyHandlesProofs -------------------------
(***************************************************************************)
(* Proofs about ProxyHandles, for any ids, cursors and values of the host  *)
(* and the server, any number of lines, and a server that may use an id    *)
(* again.                                                                  *)
(*                                                                         *)
(*   TypeCorrect  the types of the tables and of the lines                 *)
(*   Stand        handles of requests lead where they did, and stay        *)
(*   AnsweredOnce the server is answered once, and refused in order        *)
(*   Echoes       what is echoed is what its owner wrote                   *)
(*                                                                         *)
(* Each rests on an invariant that adds the lines under way to the lines   *)
(* that arrived: RequestInv (a table never disagrees with a line that was  *)
(* relayed or is about to be), OpenInv (an id of the server is in at most  *)
(* one of the places an answer to it may come from), RefusalInv, CursorInv *)
(* and EchoInv.                                                            *)
(***************************************************************************)
EXTENDS ProxyHandles, TLAPS

Rng(lines) == {lines[j] : j \in DOMAIN lines}

LEMMA AppendFacts ==
  ASSUME NEW s \in Seq(Line), NEW e \in Line
  PROVE  /\ Append(s, e) \in Seq(Line)
         /\ Len(Append(s, e)) = Len(s) + 1
         /\ DOMAIN Append(s, e) = 1 .. Len(s) + 1
         /\ \A j \in DOMAIN s : Append(s, e)[j] = s[j]
         /\ Append(s, e)[Len(s) + 1] = e
         /\ Rng(Append(s, e)) = Rng(s) \cup {e}
<1>1. /\ Append(s, e) \in Seq(Line) /\ Len(s) \in Nat /\ Len(Append(s, e)) = Len(s) + 1
      /\ DOMAIN Append(s, e) = 1 .. Len(s) + 1 /\ DOMAIN s = 1 .. Len(s)
      /\ \A j \in DOMAIN s : Append(s, e)[j] = s[j]
      /\ Append(s, e)[Len(s) + 1] = e
  OBVIOUS
<1>2. Rng(Append(s, e)) = Rng(s) \cup {e}
  BY <1>1 DEF Rng
<1> QED
  BY <1>1, <1>2

LEMMA ConcatFacts ==
  ASSUME NEW s \in Seq(Line), NEW t \in Seq(Line)
  PROVE  /\ s \o t \in Seq(Line)
         /\ DOMAIN (s \o t) = 1 .. Len(s) + Len(t)
         /\ \A j \in DOMAIN s : (s \o t)[j] = s[j]
         /\ \A k \in DOMAIN t : (s \o t)[Len(s) + k] = t[k]
         /\ \A j \in DOMAIN (s \o t) : j \in DOMAIN s \/ j - Len(s) \in DOMAIN t
         /\ Rng(s \o t) = Rng(s) \cup Rng(t)
<1>1. /\ s \o t \in Seq(Line) /\ Len(s) \in Nat /\ Len(t) \in Nat
      /\ DOMAIN s = 1 .. Len(s) /\ DOMAIN t = 1 .. Len(t)
      /\ DOMAIN (s \o t) = 1 .. Len(s) + Len(t)
  OBVIOUS
<1>2. /\ \A j \in DOMAIN s : (s \o t)[j] = s[j]
      /\ \A k \in DOMAIN t : (s \o t)[Len(s) + k] = t[k]
  BY <1>1
<1>3. \A j \in DOMAIN (s \o t) : j \in DOMAIN s \/ j - Len(s) \in DOMAIN t
  BY <1>1
<1>4. ASSUME NEW j \in DOMAIN (s \o t) PROVE (s \o t)[j] \in Rng(s) \cup Rng(t)
  <2>1. CASE j \in DOMAIN s
    BY <1>2, <2>1 DEF Rng
  <2>2. CASE j - Len(s) \in DOMAIN t
    <3>1. (s \o t)[Len(s) + (j - Len(s))] = t[j - Len(s)] /\ Len(s) + (j - Len(s)) = j
      BY <1>1, <1>2, <2>2
    <3> QED
      BY <2>2, <3>1 DEF Rng
  <2> QED
    BY <1>3, <2>1, <2>2
<1>5. ASSUME NEW l \in Rng(s) \cup Rng(t) PROVE l \in Rng(s \o t)
  <2>1. CASE l \in Rng(s)
    BY <1>1, <1>2, <2>1 DEF Rng
  <2>2. CASE l \in Rng(t)
    <3>1. PICK k \in DOMAIN t : l = t[k]
      BY <2>2 DEF Rng
    <3>2. Len(s) + k \in DOMAIN (s \o t) /\ (s \o t)[Len(s) + k] = l
      BY <1>1, <1>2, <3>1
    <3> QED
      BY <3>2 DEF Rng
  <2> QED
    BY <1>5, <2>1, <2>2
<1> QED
  BY <1>1, <1>2, <1>3, <1>4, <1>5 DEF Rng

LEMMA KindFacts ==
  ASSUME NEW s \in Seq(Line), NEW k
  PROVE  Kind(s, k) = {l \in Rng(s) : l.kind = k}
BY DEF Kind, Rng

LEMMA RngLines == ASSUME NEW s \in Seq(Line) PROVE Rng(s) \subseteq Line
BY DEF Rng

LEMMA MsgLine ==
  ASSUME NEW k \in Kinds, NEW i \in Ref, NEW r \in Ref, NEW o \in Ref
  PROVE  /\ Msg(k, i, r, o) \in Line
         /\ Msg(k, i, r, o).kind = k /\ Msg(k, i, r, o).id = i
         /\ Msg(k, i, r, o).ref = r /\ Msg(k, i, r, o).of = o
BY DEF Msg, Line

-----------------------------------------------------------------------------
(* Types, and what each pump may hold.                                      *)

PumpInv ==
  /\ TypeOK
  /\ s2c = "relay" <=> sLine # NoMsg
  /\ sLine.kind \in {"none", "request", "cancelled", "listing", "progress", "updated"}
  /\ c2s = "toServer" => cLine.kind \in {"answer", "unknown", "list", "token", "subscribe", "unsubscribe"}
  /\ c2s = "toHost" => cLine.kind \in {"badCursor", "blocked"}
  /\ c2s \in {"read", "closed", "dead"} => cLine = NoMsg
  /\ cLine.kind = "list" => cLine.id \in Methods
  /\ sLine # NoMsg => sLine.kind # "none"
  /\ \A h \in Handles : cursors[h] # None => cursors[h].kind = "listing"

LEMMA NoMsgLine == NoMsg \in Line /\ NoMsg.kind = "none"
BY DEF NoMsg, Msg, Line, Kinds, Ref

LEMMA HandleRef == Handles \subseteq Nat \ {0} /\ Handles \subseteq Ref /\ None \notin Handles
BY HandleAssumption DEF HandleAssumption, Handles, Ref

LEMMA PumpInit == Init => PumpInv
<1> SUFFICES ASSUME Init PROVE PumpInv
  OBVIOUS
<1>1. /\ owed \in Seq(Line) /\ said \in Seq(Line) /\ asked \in Seq(Line)
      /\ toHost \in Seq(Line) /\ toServer \in Seq(Line)
  BY DEF Init
<1>2. TypeOK
  BY <1>1, NoMsgLine DEF Init, TypeOK
<1> QED
  BY <1>2, NoMsgLine DEF Init, PumpInv

\* What the host says, and what c2s makes of it.
LEMMA SaysPump ==
  ASSUME PumpInv, NEW w \in Line, NEW l \in Line, NEW where \in {"toServer", "toHost"},
         HostSays(w, l, where),
         where = "toServer" => l.kind \in {"answer", "unknown", "list", "token", "subscribe", "unsubscribe"},
         where = "toHost" => l.kind \in {"badCursor", "blocked"},
         l.kind = "list" => l.id \in Methods,
         requests' \in [Handles -> SrvIds \cup {None}], idOf' \in [SrvIds -> Handles \cup {None}],
         tokens' \subseteq Tokens, subs' \subseteq Uris
  PROVE  PumpInv'
<1>1. said' \in Seq(Line)
  BY AppendFacts DEF HostSays, PumpInv, TypeOK
<1>2. TypeOK'
  BY <1>1 DEF HostSays, PumpInv, TypeOK
<1> QED
  BY <1>2 DEF HostSays, PumpInv

LEMMA HostPump == ASSUME PumpInv, HostLine PROVE PumpInv'
<1> USE DEF Kinds
<1>1. ASSUME NEW h \in Handles, HostAnswers(h) PROVE PumpInv'
  <2>1. requests' \in [Handles -> SrvIds \cup {None}] /\ idOf' \in [SrvIds -> Handles \cup {None}]
    BY <1>1 DEF HostAnswers, Answered, PumpInv, TypeOK
  <2>2. /\ Msg("answer", h, None, None) \in Line /\ Msg("answer", requests[h], None, h) \in Line
        /\ Msg("unknown", None, None, h) \in Line
        /\ Msg("answer", requests[h], None, h).kind = "answer"
        /\ Msg("unknown", None, None, h).kind = "unknown"
    BY HandleRef DEF Msg, Line, Ref, PumpInv, TypeOK
  <2> QED
    BY <1>1, <2>1, <2>2, SaysPump DEF HostAnswers, PumpInv, TypeOK
<1>2. ASSUME NEW m \in Methods, NEW h \in Handles \cup {None}, HostLists(m, h) PROVE PumpInv'
  <2>1. /\ Msg("list", m, h, None) \in Line /\ Msg("list", m, None, None) \in Line
        /\ Msg("badCursor", m, None, h) \in Line
        /\ Msg("list", m, None, None).kind = "list" /\ Msg("list", m, None, None).id = m
        /\ Msg("badCursor", m, None, h).kind = "badCursor"
    BY HandleRef DEF Msg, Line, Ref
  <2>2. h # None /\ Honoured(m, h) => /\ Msg("list", m, cursors[h].of, h) \in Line
                                      /\ Msg("list", m, cursors[h].of, h).kind = "list"
                                      /\ Msg("list", m, cursors[h].of, h).id = m
    BY HandleRef DEF Honoured, PumpInv, TypeOK, Msg, Line, Ref
  <2>3. UNCHANGED <<requests, idOf, tokens, subs>>
    BY <1>2 DEF HostLists
  <2> QED
    BY <1>2, <2>1, <2>2, <2>3, SaysPump DEF HostLists, PumpInv, TypeOK
<1>3. ASSUME NEW t \in Tokens, HostSendsToken(t) PROVE PumpInv'
  <2>1. /\ Msg("token", t, None, None) \in Line /\ Msg("token", t, None, None).kind = "token"
        /\ Msg("blocked", None, None, None) \in Line /\ Msg("blocked", None, None, None).kind = "blocked"
    BY DEF Msg, Line, Ref
  <2> QED
    BY <1>3, <2>1, SaysPump DEF HostSendsToken, PumpInv, TypeOK
<1>4. ASSUME NEW u \in Uris, HostSubscribes(u) \/ HostUnsubscribes(u) PROVE PumpInv'
  <2>1. /\ Msg("subscribe", u, None, None) \in Line /\ Msg("subscribe", u, None, None).kind = "subscribe"
        /\ Msg("unsubscribe", u, None, None) \in Line /\ Msg("unsubscribe", u, None, None).kind = "unsubscribe"
    BY DEF Msg, Line, Ref
  <2> QED
    BY <1>4, <2>1, SaysPump DEF HostSubscribes, HostUnsubscribes, PumpInv, TypeOK
<1> QED
  BY <1>1, <1>2, <1>3, <1>4 DEF HostLine

LEMMA WritePump == ASSUME PumpInv, WriteC2S PROVE PumpInv'
<1>1. toServer' \in Seq(Line) /\ toHost' \in Seq(Line)
  BY AppendFacts DEF WriteC2S, PumpInv, TypeOK
<1>2. unlisted' \in [Methods -> Nat]
  BY DEF WriteC2S, PumpInv, TypeOK
<1>3. TypeOK'
  BY <1>1, <1>2, NoMsgLine DEF WriteC2S, PumpInv, TypeOK
<1> QED
  BY <1>3, NoMsgLine DEF WriteC2S, PumpInv

\* What s2c relays of a line of the server.
LEMMA RelaysPump ==
  ASSUME PumpInv, NEW l \in Line, Relays(l),
         l = NoMsg \/ l.kind \in {"request", "cancelled", "listing", "progress", "updated"},
         requests' \in [Handles -> SrvIds \cup {None}], idOf' \in [SrvIds -> Handles \cup {None}],
         cursors' \in [Handles -> Line \cup {None}], fresh' \in Nat \ {0}, noted' \in Nat,
         counts' \in [Tokens -> Nat], unlisted' \in [Methods -> Nat],
         owed' \in Seq(Line), asked' \in Seq(Line),
         \A h \in Handles : cursors'[h] # None => cursors'[h].kind = "listing"
  PROVE  PumpInv'
<1>1. TypeOK'
  BY DEF Relays, PumpInv, TypeOK
<1> QED
  BY <1>1, NoMsgLine DEF Relays, PumpInv

LEMMA ServerPump == ASSUME PumpInv, ServerLine PROVE PumpInv'
<1> USE DEF Kinds
<1>1. ASSUME NEW x \in SrvIds, ServerAsks(x) PROVE PumpInv'
  <2>1. /\ Msg("request", fresh, None, x) \in Line /\ Msg("request", fresh, None, x).kind = "request"
        /\ Msg("relayed", x, None, None) \in Line
    BY DEF Msg, Line, Ref, PumpInv, TypeOK
  <2>2. /\ asked' \in Seq(Line) /\ requests' \in [Handles -> SrvIds \cup {None}]
        /\ idOf' \in [SrvIds -> Handles \cup {None}] /\ fresh' \in Nat \ {0}
    BY <1>1, <2>1, AppendFacts DEF ServerAsks, IdsKept, PumpInv, TypeOK
  <2>3. UNCHANGED <<cursors, counts, owed, unlisted, noted>> /\ Relays(Msg("request", fresh, None, x))
    BY <1>1 DEF ServerAsks
  <2>4. /\ cursors' \in [Handles -> Line \cup {None}] /\ noted' \in Nat
        /\ counts' \in [Tokens -> Nat] /\ unlisted' \in [Methods -> Nat] /\ owed' \in Seq(Line)
        /\ \A h \in Handles : cursors'[h] # None => cursors'[h].kind = "listing"
    BY <2>3 DEF PumpInv, TypeOK
  <2> QED
    BY <2>1, <2>2, <2>3, <2>4, RelaysPump
<1>2. ASSUME NEW x \in SrvIds, ServerAsksInVain(x) PROVE PumpInv'
  <2>1. Msg("refused", x, None, None) \in Line /\ Msg("refusal", x, None, Len(asked) + 1) \in Line
    BY DEF Msg, Line, Ref, PumpInv, TypeOK
  <2>2. asked' \in Seq(Line) /\ owed' \in Seq(Line)
    BY <1>2, <2>1, AppendFacts DEF ServerAsksInVain, PumpInv, TypeOK
  <2>3. UNCHANGED <<requests, idOf, cursors, fresh, counts, unlisted, noted>> /\ Relays(NoMsg)
    BY <1>2 DEF ServerAsksInVain
  <2>4. /\ requests' \in [Handles -> SrvIds \cup {None}] /\ idOf' \in [SrvIds -> Handles \cup {None}]
        /\ cursors' \in [Handles -> Line \cup {None}] /\ noted' \in Nat /\ fresh' \in Nat \ {0}
        /\ counts' \in [Tokens -> Nat] /\ unlisted' \in [Methods -> Nat]
        /\ \A h \in Handles : cursors'[h] # None => cursors'[h].kind = "listing"
    BY <2>3 DEF PumpInv, TypeOK
  <2> QED
    BY <2>2, <2>3, <2>4, NoMsgLine, RelaysPump
<1>3. ASSUME NEW l \in Line, Notes(l),
             l.kind \in {"request", "cancelled", "listing", "progress", "updated"},
             cursors' \in [Handles -> Line \cup {None}], fresh' \in Nat \ {0},
             counts' \in [Tokens -> Nat], unlisted' \in [Methods -> Nat],
             \A h \in Handles : cursors'[h] # None => cursors'[h].kind = "listing"
      PROVE  PumpInv'
  <2>1. /\ noted' \in Nat /\ Relays(l) /\ UNCHANGED <<requests, idOf, owed, asked>>
    BY <1>3 DEF Notes, PumpInv, TypeOK
  <2>2. /\ requests' \in [Handles -> SrvIds \cup {None}] /\ idOf' \in [SrvIds -> Handles \cup {None}]
        /\ owed' \in Seq(Line) /\ asked' \in Seq(Line)
    BY <2>1 DEF PumpInv, TypeOK
  <2> QED
    BY <1>3, <2>1, <2>2, RelaysPump
<1>4. ASSUME NEW x \in SrvIds, ServerCancels(x) PROVE PumpInv'
  <2>1. /\ Msg("cancelled", CancelledId(x), None, x) \in Line
        /\ Msg("cancelled", CancelledId(x), None, x).kind = "cancelled"
    BY HandleRef DEF CancelledId, Msg, Line, Ref, PumpInv, TypeOK
  <2> QED
    BY <1>3, <1>4, <2>1 DEF ServerCancels, PumpInv, TypeOK
<1>5. ASSUME NEW m \in Methods, NEW c \in Cursors \cup {None}, ServerLists(m, c) PROVE PumpInv'
  <2>1. /\ Msg("listing", m, None, None) \in Line /\ Msg("listing", m, None, None).kind = "listing"
        /\ Msg("listing", m, fresh, c) \in Line /\ Msg("listing", m, fresh, c).kind = "listing"
    BY DEF Msg, Line, Ref, PumpInv, TypeOK
  <2>2. unlisted' \in [Methods -> Nat]
    BY <1>5 DEF ServerLists, PumpInv, TypeOK
  <2>3. CASE c = None
    BY <1>3, <1>5, <2>1, <2>2, <2>3 DEF ServerLists, PumpInv, TypeOK
  <2>4. CASE c # None
    <3>1. /\ cursors' = [cursors EXCEPT ![fresh] = Msg("listing", m, fresh, c)] /\ fresh' = fresh + 1
          /\ counts' = counts /\ Notes(Msg("listing", m, fresh, c))
      BY <1>5, <2>4 DEF ServerLists
    <3>2. cursors' \in [Handles -> Line \cup {None}]
      BY <2>1, <3>1 DEF PumpInv, TypeOK
    <3>4. fresh' \in Nat \ {0}
      BY <3>1 DEF PumpInv, TypeOK
    <3>3. \A h \in Handles : cursors'[h] # None => cursors'[h].kind = "listing"
      BY <2>1, <3>1 DEF PumpInv, TypeOK
    <3> QED
      BY <1>3, <2>1, <2>2, <3>1, <3>2, <3>3, <3>4 DEF PumpInv, TypeOK
  <2> QED
    BY <2>3, <2>4
<1>6. ASSUME NEW t \in Tokens, ServerProgresses(t) PROVE PumpInv'
  <2>1. /\ Msg("progress", t, counts[t] + 1, None) \in Line
        /\ Msg("progress", t, counts[t] + 1, None).kind = "progress"
        /\ counts' \in [Tokens -> Nat]
    BY <1>6 DEF ServerProgresses, Counted, Msg, Line, Ref, PumpInv, TypeOK
  <2> QED
    BY <1>3, <1>6, <2>1 DEF ServerProgresses, PumpInv, TypeOK
<1>7. ASSUME NEW u \in Uris, ServerUpdates(u) PROVE PumpInv'
  <2>1. Msg("updated", u, None, None) \in Line /\ Msg("updated", u, None, None).kind = "updated"
    BY DEF Msg, Line, Ref
  <2> QED
    BY <1>3, <1>7, <2>1 DEF ServerUpdates, PumpInv, TypeOK
<1> QED
  BY <1>1, <1>2, <1>4, <1>5, <1>6, <1>7 DEF ServerLine

LEMMA RelayPump == ASSUME PumpInv, Relay PROVE PumpInv'
<1>1. toHost' \in Seq(Line)
  BY AppendFacts DEF Relay, PumpInv, TypeOK
<1>2. TypeOK'
  BY <1>1, NoMsgLine DEF Relay, PumpInv, TypeOK
<1> QED
  BY <1>2, NoMsgLine DEF Relay, PumpInv

LEMMA DrainPump == ASSUME PumpInv, Drain PROVE PumpInv'
<1>1. toServer' \in Seq(Line) /\ owed' \in Seq(Line)
  BY ConcatFacts DEF Drain, Drained, PumpInv, TypeOK
<1>2. TypeOK'
  BY <1>1 DEF Drain, PumpInv, TypeOK
<1> QED
  BY <1>2, NoMsgLine DEF Drain, PumpInv

LEMMA PumpNext == PumpInv /\ [Next]_vars => PumpInv'
<1>1. PumpInv /\ UNCHANGED vars => PumpInv'
  BY DEF PumpInv, TypeOK, vars
<1>2. PumpInv /\ (ServerDies \/ ReadHostEof) => PumpInv'
  BY DEF PumpInv, TypeOK, ServerDies, ReadHostEof
<1> QED
  BY <1>1, <1>2, HostPump, WritePump, ServerPump, RelayPump, DrainPump DEF Next

LEMMA PumpAlways == Spec => []PumpInv
BY PumpInit, PumpNext, PTL DEF Spec

\* The tables and the lines keep their types, for any ids and values.
THEOREM TypeCorrect == Spec => []TypeOK
<1>1. PumpInv => TypeOK
  BY DEF PumpInv
<1> QED
  BY <1>1, PumpAlways, PTL

-----------------------------------------------------------------------------
(* What the host may have seen, and how the steps add to it.                *)

\* The lines the host received, and the one s2c is about to write.
Out == Rng(toHost) \cup {sLine}

\* The steps by what they do to these lines.
Inward == HostLine \/ Drain \/ ServerDies \/ ReadHostEof \/ UNCHANGED vars

LEMMA InwardOut == ASSUME Inward PROVE UNCHANGED <<toHost, sLine, cursors, fresh, counts>>
BY DEF Inward, HostLine, HostAnswers, HostLists, HostSendsToken, HostSubscribes, HostUnsubscribes,
       HostSays, Drain, ServerDies, ReadHostEof, vars

LEMMA WriteOut ==
  ASSUME PumpInv, WriteC2S
  PROVE  /\ UNCHANGED <<requests, idOf, cursors, fresh, counts, tokens, subs, owed, sLine, said, asked>>
         /\ \/ toHost' = toHost
            \/ toHost' = Append(toHost, cLine) /\ cLine.kind \in {"badCursor", "blocked"}
         /\ \/ toServer' = toServer
            \/ toServer' = Append(toServer, cLine)
               /\ cLine.kind \in {"answer", "unknown", "list", "token", "subscribe", "unsubscribe"}
         /\ cLine' = NoMsg
BY DEF WriteC2S, PumpInv

LEMMA RelayOut ==
  ASSUME PumpInv, Relay
  PROVE  /\ UNCHANGED <<requests, idOf, cursors, fresh, counts, tokens, subs, owed, cLine, said, asked, toServer>>
         /\ toHost' = Append(toHost, sLine) /\ sLine' = NoMsg /\ sLine # NoMsg
         /\ Rng(toHost') = Out
BY AppendFacts DEF Relay, PumpInv, TypeOK, Out

\* The lines of the server: s2c is between two of them.
LEMMA ServerOut ==
  ASSUME PumpInv, ServerLine
  PROVE  /\ UNCHANGED <<tokens, subs, cLine, said, toHost, toServer>>
         /\ sLine = NoMsg
BY DEF ServerLine, ServerAsks, ServerAsksInVain, ServerCancels, ServerLists, ServerProgresses,
       ServerUpdates, Notes, Relays, PumpInv

-----------------------------------------------------------------------------
(* Requests of the server and their handles.                                *)

Relayed(lines) == {l \in lines : l.kind = "request"}

\* A cancellation in `lines` comes after the request it names.
Follow(lines) ==
  \A j \in DOMAIN lines : lines[j].kind = "cancelled" =>
    \E i \in 1 .. j - 1 : /\ lines[i].kind = "request"
                          /\ lines[i].id = lines[j].id /\ lines[i].of = lines[j].of

\* An answer in `answers` bears the server's id of the request it answers.
Match(answers, lines) ==
  \A a \in answers : a.kind = "answer" => \E q \in Relayed(lines) : q.id = a.of /\ q.of = a.id

RequestInv ==
  /\ \A q \in Relayed(Out) : /\ q.id \in Handles /\ q.id < fresh /\ q.of \in SrvIds
                             /\ requests[q.id] \in {None, q.of}
  /\ \A x \in SrvIds : idOf[x] # None => \E q \in Relayed(Out) : q.id = idOf[x] /\ q.of = x
  /\ sLine.kind = "cancelled" => \E q \in Relayed(Rng(toHost)) : q.id = sLine.id /\ q.of = sLine.of
  /\ Match({cLine}, Rng(toHost))
  /\ Match(Rng(toServer), Rng(toHost))
  /\ Follow(toHost)

LEMMA FollowAppend ==
  ASSUME NEW s \in Seq(Line), NEW e \in Line, Follow(s),
         e.kind = "cancelled" => \E q \in Relayed(Rng(s)) : q.id = e.id /\ q.of = e.of
  PROVE  Follow(Append(s, e))
<1> SUFFICES ASSUME NEW j \in DOMAIN Append(s, e), Append(s, e)[j].kind = "cancelled"
             PROVE  \E i \in 1 .. j - 1 : /\ Append(s, e)[i].kind = "request"
                                          /\ Append(s, e)[i].id = Append(s, e)[j].id
                                          /\ Append(s, e)[i].of = Append(s, e)[j].of
  BY DEF Follow
<1>1. Len(s) \in Nat /\ DOMAIN s = 1 .. Len(s)
  OBVIOUS
<1>2. CASE j \in DOMAIN s
  <2>1. PICK i \in 1 .. j - 1 : s[i].kind = "request" /\ s[i].id = s[j].id /\ s[i].of = s[j].of
    BY <1>2, AppendFacts DEF Follow
  <2>2. i \in DOMAIN s
    BY <1>1, <1>2
  <2> QED
    BY <1>2, <2>1, <2>2, AppendFacts
<1>3. CASE j = Len(s) + 1
  <2>1. PICK q \in Relayed(Rng(s)) : q.id = e.id /\ q.of = e.of
    BY <1>3, AppendFacts
  <2>2. PICK i \in DOMAIN s : q = s[i]
    BY <2>1 DEF Relayed, Rng
  <2>3. i \in 1 .. j - 1
    BY <1>1, <1>3
  <2> QED
    BY <1>3, <2>1, <2>2, <2>3, AppendFacts DEF Relayed
<1> QED
  BY <1>1, <1>2, <1>3, AppendFacts

LEMMA RequestInit == Init => RequestInv
<1> SUFFICES ASSUME Init PROVE RequestInv
  OBVIOUS
<1>1. Rng(toHost) = {} /\ Rng(toServer) = {} /\ DOMAIN toHost = {}
  BY DEF Init, Rng
<1>2. sLine.kind = "none" /\ cLine.kind = "none"
  BY NoMsgLine DEF Init
<1> QED
  BY <1>1, <1>2 DEF Init, RequestInv, Out, Relayed, Follow, Match

LEMMA RequestHost == ASSUME PumpInv, RequestInv, HostLine PROVE RequestInv'
<1> USE HandleRef
<1>1. UNCHANGED <<toHost, sLine, cursors, fresh, counts, toServer>>
  BY InwardOut DEF Inward, HostLine, HostAnswers, HostLists, HostSendsToken, HostSubscribes,
                   HostUnsubscribes, HostSays
<1>2. ASSUME NEW h \in Handles, HostAnswers(h) PROVE RequestInv'
  <2>1. PICK line \in Relayed(Rng(toHost)) : line.id = h
    BY <1>2, KindFacts DEF HostAnswers, PumpInv, TypeOK, Relayed
  <2>2. requests[h] \in {None, line.of}
    BY <2>1 DEF RequestInv, Out, Relayed
  <2>3. /\ requests' = [requests EXCEPT ![h] = None]
        /\ idOf' = IF requests[h] = None THEN idOf ELSE [idOf EXCEPT ![requests[h]] = None]
        /\ cLine' = IF requests[h] # None THEN Msg("answer", requests[h], None, h)
                    ELSE Msg("unknown", None, None, h)
    BY <1>2 DEF HostAnswers, Answered, HostSays
  <2>4. Match({cLine'}, Rng(toHost))
    BY <2>1, <2>2, <2>3 DEF Match, Msg
  <2>5. \A q \in Relayed(Out) : requests'[q.id] \in {None, q.of}
    BY <2>3 DEF RequestInv, PumpInv, TypeOK
  <2>6. \A x \in SrvIds : idOf'[x] # None => idOf'[x] = idOf[x]
    BY <2>3 DEF PumpInv, TypeOK
  <2> QED
    BY <1>1, <2>4, <2>5, <2>6 DEF RequestInv, Out, Relayed, Match, Follow, Rng
<1>3. ASSUME UNCHANGED <<requests, idOf>>, cLine'.kind # "answer" PROVE RequestInv'
  BY <1>1, <1>3 DEF RequestInv, Out, Relayed, Match, Follow, Rng
<1>4. ASSUME NEW m \in Methods, NEW h \in Handles \cup {None}, HostLists(m, h) PROVE RequestInv'
  BY <1>3, <1>4 DEF HostLists, HostSays, Msg
<1>5. ASSUME NEW t \in Tokens, HostSendsToken(t) PROVE RequestInv'
  BY <1>3, <1>5 DEF HostSendsToken, HostSays, Msg
<1>6. ASSUME NEW u \in Uris, HostSubscribes(u) \/ HostUnsubscribes(u) PROVE RequestInv'
  BY <1>3, <1>6 DEF HostSubscribes, HostUnsubscribes, HostSays, Msg
<1> QED
  BY <1>2, <1>4, <1>5, <1>6 DEF HostLine

LEMMA RequestWrite == ASSUME PumpInv, RequestInv, WriteC2S PROVE RequestInv'
<1>1. /\ UNCHANGED <<requests, idOf, fresh, sLine>> /\ cLine' = NoMsg
  BY WriteOut
<1>2. Rng(toHost) \subseteq Rng(toHost') /\ Relayed(Rng(toHost')) = Relayed(Rng(toHost)) /\ Follow(toHost')
  <2>1. CASE toHost' = toHost
    BY <2>1 DEF RequestInv
  <2>2. CASE toHost' = Append(toHost, cLine) /\ cLine.kind \in {"badCursor", "blocked"}
    BY <2>2, AppendFacts, FollowAppend DEF RequestInv, PumpInv, TypeOK, Relayed
  <2> QED
    BY <2>1, <2>2, WriteOut
<1>3. Match(Rng(toServer'), Rng(toHost))
  <2>1. CASE toServer' = toServer
    BY <2>1 DEF RequestInv
  <2>2. CASE toServer' = Append(toServer, cLine)
    <3>1. Rng(toServer') = Rng(toServer) \cup {cLine}
      BY <2>2, AppendFacts DEF PumpInv, TypeOK
    <3> QED
      BY <3>1 DEF RequestInv, Match
  <2> QED
    BY <2>1, <2>2, WriteOut
<1>4. Relayed(Out') = Relayed(Out)
  BY <1>1, <1>2 DEF Out, Relayed
<1> QED
  BY <1>1, <1>2, <1>3, <1>4, NoMsgLine DEF RequestInv, Match

LEMMA RequestRelay == ASSUME PumpInv, RequestInv, Relay PROVE RequestInv'
<1>1. /\ UNCHANGED <<requests, idOf, fresh, cLine, toServer>>
      /\ toHost' = Append(toHost, sLine) /\ sLine' = NoMsg /\ Rng(toHost') = Out
  BY RelayOut
<1>2. Follow(toHost')
  BY <1>1, FollowAppend DEF RequestInv, PumpInv, TypeOK
<1>3. Relayed(Out') = Relayed(Out)
  BY <1>1, NoMsgLine DEF Out, Relayed
<1>4. Match({cLine'}, Rng(toHost')) /\ Match(Rng(toServer'), Rng(toHost'))
  BY <1>1 DEF RequestInv, Match, Relayed, Out
<1> QED
  BY <1>1, <1>2, <1>3, <1>4, NoMsgLine DEF RequestInv

LEMMA RequestServer == ASSUME PumpInv, RequestInv, ServerLine PROVE RequestInv'
<1>1. UNCHANGED <<cLine, toHost, toServer>> /\ sLine = NoMsg
  BY ServerOut
<1>2. Relayed(Out) = Relayed(Rng(toHost))
  BY <1>1, NoMsgLine DEF Out, Relayed
<1>3. ASSUME NEW x \in SrvIds, ServerAsks(x) PROVE RequestInv'
  <2>1. /\ fresh \in Handles /\ fresh' = fresh + 1
        /\ requests' = [requests EXCEPT ![fresh] = x] /\ idOf' = [idOf EXCEPT ![x] = fresh]
        /\ sLine' = Msg("request", fresh, None, x)
    BY <1>3 DEF ServerAsks, Relays, IdsKept
  <2>2. Relayed(Out') = Relayed(Out) \cup {sLine'} /\ sLine'.id = fresh /\ sLine'.of = x /\ sLine'.kind = "request"
    BY <1>1, <1>2, <2>1 DEF Out, Relayed, Msg
  <2>3. \A q \in Relayed(Out') : /\ q.id \in Handles /\ q.id < fresh' /\ q.of \in SrvIds
                                 /\ requests'[q.id] \in {None, q.of}
    <3>1. fresh \in Nat /\ requests \in [Handles -> SrvIds \cup {None}]
      BY DEF PumpInv, TypeOK
    <3>2. ASSUME NEW q \in Relayed(Out)
          PROVE  /\ q.id \in Handles /\ q.id < fresh' /\ q.of \in SrvIds
                 /\ requests'[q.id] \in {None, q.of}
      <4>1. q.id \in Handles /\ q.id < fresh /\ q.of \in SrvIds /\ requests[q.id] \in {None, q.of}
        BY <3>2 DEF RequestInv
      <4>2. q.id \in Nat /\ fresh' = fresh + 1
        BY <2>1, <4>1, HandleRef
      <4>3. q.id < fresh' /\ q.id # fresh
        BY <3>1, <4>1, <4>2
      <4> QED
        BY <2>1, <3>1, <4>1, <4>3
    <3>3. /\ sLine'.id \in Handles /\ sLine'.id < fresh' /\ sLine'.of \in SrvIds
          /\ requests'[sLine'.id] \in {None, sLine'.of}
      BY <2>1, <2>2, <3>1
    <3> QED
      BY <2>2, <3>2, <3>3
  <2>4. \A y \in SrvIds : idOf'[y] # None => \E q \in Relayed(Out') : q.id = idOf'[y] /\ q.of = y
    BY <2>1, <2>2 DEF RequestInv, PumpInv, TypeOK
  <2> QED
    BY <1>1, <2>2, <2>3, <2>4 DEF RequestInv
<1>4. ASSUME UNCHANGED <<requests, idOf>>, fresh' \in {fresh, fresh + 1}, sLine'.kind # "request",
             sLine'.kind = "cancelled" => \E q \in Relayed(Rng(toHost)) : q.id = sLine'.id /\ q.of = sLine'.of
      PROVE  RequestInv'
  <2>1. Relayed(Out') = Relayed(Out)
    BY <1>1, <1>2, <1>4 DEF Out, Relayed
  <2>2. \A q \in Relayed(Out) : q.id < fresh'
    <3> SUFFICES ASSUME NEW q \in Relayed(Out) PROVE q.id < fresh'
      OBVIOUS
    <3>1. q.id \in Nat /\ q.id < fresh /\ fresh \in Nat
      BY HandleRef DEF RequestInv, PumpInv, TypeOK
    <3> QED
      BY <1>4, <3>1
  <2> QED
    BY <1>1, <1>4, <2>1, <2>2 DEF RequestInv
<1>5. ASSUME NEW x \in SrvIds, ServerAsksInVain(x) PROVE RequestInv'
  BY <1>4, <1>5, NoMsgLine DEF ServerAsksInVain, Relays
<1>6. ASSUME NEW x \in SrvIds, ServerCancels(x) PROVE RequestInv'
  <2>1. PICK q \in Relayed(Rng(toHost)) : q.id = idOf[x] /\ q.of = x
    BY <1>2, <1>6 DEF ServerCancels, RequestInv
  <2> QED
    BY <1>4, <1>6, <2>1 DEF ServerCancels, CancelledId, Notes, Relays, Msg
<1>7. ASSUME NEW m \in Methods, NEW c \in Cursors \cup {None}, ServerLists(m, c) PROVE RequestInv'
  BY <1>4, <1>7 DEF ServerLists, Notes, Relays, Msg
<1>8. ASSUME NEW t \in Tokens, ServerProgresses(t) PROVE RequestInv'
  BY <1>4, <1>8 DEF ServerProgresses, Notes, Relays, Msg
<1>9. ASSUME NEW u \in Uris, ServerUpdates(u) PROVE RequestInv'
  BY <1>4, <1>9 DEF ServerUpdates, Notes, Relays, Msg
<1> QED
  BY <1>3, <1>5, <1>6, <1>7, <1>8, <1>9 DEF ServerLine

LEMMA RequestDrain == ASSUME PumpInv, RequestInv, Drain, \A k \in DOMAIN owed : owed[k].kind = "refusal"
                      PROVE  RequestInv'
<1>1. UNCHANGED <<requests, idOf, fresh, cLine, toHost, sLine>>
  BY DEF Drain
<1>2. Match(Rng(toServer'), Rng(toHost))
  <2>1. toServer' \in {toServer, toServer \o owed}
    BY DEF Drain
  <2>2. \A l \in Rng(owed) : l.kind = "refusal"
    BY DEF Rng
  <2>3. Rng(toServer') \subseteq Rng(toServer) \cup Rng(owed)
    <3>1. Rng(toServer \o owed) = Rng(toServer) \cup Rng(owed)
      BY ConcatFacts DEF PumpInv, TypeOK
    <3> QED
      BY <2>1, <3>1
  <2> QED
    BY <2>2, <2>3 DEF RequestInv, Match
<1> QED
  BY <1>1, <1>2 DEF RequestInv, Out, Relayed, Match, Follow, Rng

-----------------------------------------------------------------------------
(* Refusals: each request refused has its refusal, in order.                *)

Rising(lines) ==
  \A j, k \in DOMAIN lines :
    lines[j].kind = "refusal" /\ lines[k].kind = "refusal" /\ j < k => lines[j].of < lines[k].of

Turned == {r \in Rng(toServer) \cup Rng(owed) : r.kind = "refusal"}

RefusalInv ==
  /\ \A k \in DOMAIN owed : owed[k].kind = "refusal"
  /\ \A r \in Turned : r.of \in DOMAIN asked /\ asked[r.of] = Msg("refused", r.id, None, None)
  /\ StdinOpen => \A k \in DOMAIN asked : asked[k].kind = "refused" => \E r \in Turned : r.of = k
  /\ Rising(toServer) /\ Rising(owed)
  /\ \A l \in Rng(toServer), r \in Rng(owed) : l.kind = "refusal" => l.of < r.of

LEMMA RisingAppend ==
  ASSUME NEW s \in Seq(Line), NEW e \in Line, Rising(s),
         e.kind = "refusal" => \A l \in Rng(s) : l.kind = "refusal" => l.of < e.of
  PROVE  Rising(Append(s, e))
<1>1. Len(s) \in Nat /\ DOMAIN s = 1 .. Len(s) /\ \A j \in DOMAIN s : s[j] \in Rng(s)
  BY DEF Rng
<1> QED
  BY <1>1, AppendFacts DEF Rising

LEMMA RisingConcat ==
  ASSUME NEW s \in Seq(Line), NEW t \in Seq(Line), Rising(s), Rising(t),
         \A l \in Rng(s), r \in Rng(t) : l.kind = "refusal" => l.of < r.of
  PROVE  Rising(s \o t)
<1>1. /\ Len(s) \in Nat /\ DOMAIN s = 1 .. Len(s) /\ \A j \in DOMAIN s : s[j] \in Rng(s)
      /\ Len(t) \in Nat /\ DOMAIN t = 1 .. Len(t) /\ \A j \in DOMAIN t : t[j] \in Rng(t)
  BY DEF Rng
<1> SUFFICES ASSUME NEW j \in DOMAIN (s \o t), NEW k \in DOMAIN (s \o t), j < k,
                    (s \o t)[j].kind = "refusal", (s \o t)[k].kind = "refusal"
             PROVE  (s \o t)[j].of < (s \o t)[k].of
  BY DEF Rising
<1>2. j \in Nat /\ k \in Nat
  BY <1>1, ConcatFacts
<1>3. CASE k \in DOMAIN s
  <2>1. j \in DOMAIN s
    BY <1>1, <1>2, <1>3, ConcatFacts
  <2> QED
    BY <1>3, <2>1, ConcatFacts DEF Rising
<1>4. CASE j \in DOMAIN s /\ k - Len(s) \in DOMAIN t
  <2>1. (s \o t)[Len(s) + (k - Len(s))] = t[k - Len(s)] /\ Len(s) + (k - Len(s)) = k
    BY <1>1, <1>2, <1>4, ConcatFacts
  <2> QED
    BY <1>1, <1>4, <2>1, ConcatFacts
<1>5. CASE j - Len(s) \in DOMAIN t /\ k - Len(s) \in DOMAIN t
  <2>1. /\ (s \o t)[Len(s) + (k - Len(s))] = t[k - Len(s)] /\ Len(s) + (k - Len(s)) = k
        /\ (s \o t)[Len(s) + (j - Len(s))] = t[j - Len(s)] /\ Len(s) + (j - Len(s)) = j
        /\ j - Len(s) < k - Len(s)
    BY <1>1, <1>2, <1>5, ConcatFacts
  <2> QED
    BY <1>5, <2>1 DEF Rising
<1> QED
  BY <1>3, <1>4, <1>5, ConcatFacts

LEMMA RefusalInit == Init => RefusalInv
<1> SUFFICES ASSUME Init PROVE RefusalInv
  OBVIOUS
<1>1. /\ Rng(toServer) = {} /\ Rng(owed) = {} /\ DOMAIN toServer = {} /\ DOMAIN owed = {} /\ DOMAIN asked = {}
  BY DEF Init, Rng
<1> QED
  BY <1>1 DEF RefusalInv, Rising, Turned

LEMMA RefusalKept ==
  ASSUME RefusalInv, UNCHANGED <<toServer, owed, asked>>, StdinOpen' => StdinOpen
  PROVE  RefusalInv'
BY DEF RefusalInv, Rising, Turned, Rng

LEMMA RefusalWrite == ASSUME PumpInv, RefusalInv, WriteC2S PROVE RefusalInv'
<1>1. UNCHANGED <<owed, asked>> /\ StdinOpen' = StdinOpen
  BY DEF WriteC2S, StdinOpen
<1>2. CASE toServer' = toServer
  BY <1>1, <1>2, RefusalKept
<1>3. CASE toServer' = Append(toServer, cLine)
           /\ cLine.kind \in {"answer", "unknown", "list", "token", "subscribe", "unsubscribe"}
  <2>1. Rng(toServer') = Rng(toServer) \cup {cLine} /\ cLine.kind # "refusal"
    BY <1>3, AppendFacts DEF PumpInv, TypeOK
  <2>2. Turned' = Turned
    BY <1>1, <2>1 DEF Turned
  <2>3. Rising(toServer')
    BY <1>3, RisingAppend DEF PumpInv, TypeOK, RefusalInv
  <2>4. \A l \in Rng(toServer'), r \in Rng(owed) : l.kind = "refusal" => l.of < r.of
    BY <2>1 DEF RefusalInv
  <2>5. Rising(owed')
    BY <1>1 DEF RefusalInv
  <2> QED
    BY <1>1, <2>2, <2>3, <2>4, <2>5 DEF RefusalInv
<1> QED
  BY <1>2, <1>3, WriteOut

\* A request of the server is entered in the history, refused or relayed.
LEMMA RefusalAsks ==
  ASSUME PumpInv, RefusalInv, NEW x \in SrvIds, ServerAsks(x) \/ ServerAsksInVain(x)
  PROVE  RefusalInv'
<1> USE DEF Kinds
<1> DEFINE n == Len(asked) + 1
<1>1. /\ Msg("relayed", x, None, None) \in Line /\ Msg("refused", x, None, None) \in Line
      /\ Msg("refusal", x, None, n) \in Line
  BY DEF Msg, Line, Ref, PumpInv, TypeOK
<1>2. DOMAIN asked = 1 .. Len(asked) /\ Len(asked) \in Nat /\ n \in Nat
  BY DEF PumpInv, TypeOK
<1>3. PICK w \in {Msg("relayed", x, None, None), Msg("refused", x, None, None)} : asked' = Append(asked, w)
  BY DEF ServerAsks, ServerAsksInVain
<1>4. /\ DOMAIN asked' = 1 .. n /\ asked'[n] = w
      /\ \A k \in DOMAIN asked : k \in DOMAIN asked' /\ asked'[k] = asked[k]
  BY <1>1, <1>2, <1>3, AppendFacts DEF PumpInv, TypeOK
<1>5. UNCHANGED toServer /\ StdinOpen' = StdinOpen
  BY DEF ServerAsks, ServerAsksInVain, Relays, StdinOpen
<1>6. CASE ServerAsks(x)
  <2>1. owed' = owed /\ asked'[n].kind # "refused"
    BY <1>3, <1>4, <1>6 DEF ServerAsks, Msg, n
  <2>2. Turned' = Turned
    BY <1>5, <2>1 DEF Turned
  <2>3. \A r \in Turned : r.of \in DOMAIN asked' /\ asked'[r.of] = Msg("refused", r.id, None, None)
    BY <1>4 DEF RefusalInv
  <2>4. StdinOpen => \A k \in DOMAIN asked' : asked'[k].kind = "refused" => \E r \in Turned : r.of = k
    BY <1>2, <1>4, <2>1 DEF RefusalInv
  <2> QED
    BY <1>5, <2>1, <2>2, <2>3, <2>4 DEF RefusalInv
<1>7. CASE ServerAsksInVain(x)
  <2> DEFINE e == Msg("refusal", x, None, n)
  <2>1. owed' = Append(owed, e) /\ w = Msg("refused", x, None, None)
    BY <1>3, <1>4, <1>7, <1>1, AppendFacts DEF ServerAsksInVain, Msg, n, PumpInv, TypeOK
  <2>2. e.kind = "refusal" /\ e.id = x /\ e.of = n
    BY DEF Msg
  <2>3. Rng(owed') = Rng(owed) \cup {e}
    BY <1>1, <2>1, AppendFacts DEF PumpInv, TypeOK
  <2>4. Turned' = Turned \cup {e}
    BY <1>5, <2>2, <2>3 DEF Turned
  <2>5. \A r \in Turned' : r.of \in DOMAIN asked' /\ asked'[r.of] = Msg("refused", r.id, None, None)
    BY <1>2, <1>4, <2>1, <2>2, <2>4 DEF RefusalInv
  <2>6. StdinOpen => \A k \in DOMAIN asked' : asked'[k].kind = "refused" => \E r \in Turned' : r.of = k
    BY <1>2, <1>4, <2>2, <2>4 DEF RefusalInv
  <2>7. \A r \in Turned : r.of < n
    BY <1>2 DEF RefusalInv
  <2>8. Rising(owed')
    BY <1>1, <2>1, <2>2, <2>7, RisingAppend DEF RefusalInv, PumpInv, TypeOK, Turned
  <2>9. \A l \in Rng(toServer), r \in Rng(owed') : l.kind = "refusal" => l.of < r.of
    BY <2>2, <2>3, <2>7 DEF RefusalInv, Turned
  <2>10. \A k \in DOMAIN owed' : owed'[k].kind = "refusal"
    BY <1>1, <2>1, <2>2, AppendFacts DEF RefusalInv, PumpInv, TypeOK
  <2>11. Rising(toServer')
    BY <1>5 DEF RefusalInv
  <2> QED
    BY <1>5, <2>5, <2>6, <2>8, <2>9, <2>10, <2>11 DEF RefusalInv
<1> QED
  BY <1>6, <1>7

LEMMA RefusalDrain == ASSUME PumpInv, RefusalInv, Drain PROVE RefusalInv'
<1>1. owed' = <<>> /\ UNCHANGED asked /\ StdinOpen' = StdinOpen
  BY DEF Drain, Drained, StdinOpen
<1>2. Rng(owed') = {} /\ DOMAIN owed' = {} /\ Rising(owed')
  BY <1>1 DEF Rng, Rising
<1>3. CASE ~StdinOpen
  <2>1. toServer' = toServer
    BY <1>3 DEF Drain
  <2>2. Turned' \subseteq Turned
    BY <1>2, <2>1 DEF Turned
  <2> QED
    BY <1>1, <1>2, <1>3, <2>1, <2>2 DEF RefusalInv
<1>4. CASE StdinOpen
  <2>1. toServer' = toServer \o owed
    BY <1>4 DEF Drain
  <2>2. Rng(toServer') = Rng(toServer) \cup Rng(owed)
    BY <2>1, ConcatFacts DEF PumpInv, TypeOK
  <2>3. Turned' = Turned
    BY <1>2, <2>2 DEF Turned
  <2>4. Rising(toServer')
    BY <2>1, RisingConcat DEF RefusalInv, PumpInv, TypeOK
  <2> QED
    BY <1>1, <1>2, <2>3, <2>4 DEF RefusalInv
<1> QED
  BY <1>3, <1>4

LEMMA RefusalNext == PumpInv /\ RefusalInv /\ [Next]_vars => RefusalInv'
<1> SUFFICES ASSUME PumpInv, RefusalInv, [Next]_vars PROVE RefusalInv'
  OBVIOUS
<1>1. CASE HostLine
  BY <1>1, RefusalKept DEF HostLine, HostAnswers, HostLists, HostSendsToken, HostSubscribes,
                           HostUnsubscribes, HostSays, StdinOpen
<1>2. CASE Relay \/ ServerDies \/ ReadHostEof \/ UNCHANGED vars
  BY <1>2, RefusalKept DEF Relay, ServerDies, ReadHostEof, StdinOpen, vars
<1>3. CASE ServerLine
  <2>1. ASSUME NEW l, Notes(l) PROVE RefusalInv'
    BY <2>1, RefusalKept DEF Notes, Relays, StdinOpen
  <2>2. ASSUME NEW x \in SrvIds, ServerAsks(x) \/ ServerAsksInVain(x) PROVE RefusalInv'
    BY <2>2, RefusalAsks
  <2> QED
    BY <1>3, <2>1, <2>2 DEF ServerLine, ServerCancels, ServerLists, ServerProgresses, ServerUpdates
<1> QED
  BY <1>1, <1>2, <1>3, RefusalWrite, RefusalDrain DEF Next

LEMMA RefusalOrder == ASSUME PumpInv, RefusalInv PROVE RefusalsInOrder
<1> DEFINE lines == toServer \o owed
<1>1. lines \in Seq(Line) /\ Rng(lines) = Rng(toServer) \cup Rng(owed)
  BY ConcatFacts DEF PumpInv, TypeOK
<1>2. Kind(lines, "refusal") = Turned
  BY <1>1, KindFacts DEF Turned
<1>3. Rising(lines)
  BY RisingConcat DEF RefusalInv, PumpInv, TypeOK
<1> QED
  BY <1>2, <1>3 DEF RefusalsInOrder, RefusalInv, Rising

-----------------------------------------------------------------------------
(* An answer to a request of the server has one place to come from.         *)

Reply(l) == l.kind \in {"answer", "refusal"}

\* No two replies in `lines` to one request.
Once(lines) ==
  \A j, k \in DOMAIN lines :
    Reply(lines[j]) /\ Reply(lines[k]) /\ lines[j].id = lines[k].id => j = k

\* Everything an answer may come from is about a request that was asked.
AskedIds == {a.id : a \in Rng(asked)}

HomeInv ==
  /\ \A l \in Rng(toServer) \cup Rng(owed) \cup {cLine} : Reply(l) => l.id \in AskedIds
  /\ \A h \in Handles : requests[h] # None => requests[h] \in AskedIds
  /\ \A q \in Relayed(Out) : q.of \in AskedIds

OpenInv ==
  IdsUnique =>
    /\ Once(toServer) /\ Once(owed)
    /\ \A l \in Rng(toServer), r \in Rng(owed) : Reply(l) => l.id # r.id
    /\ Reply(cLine) => \A l \in Rng(toServer) \cup Rng(owed) : Reply(l) => l.id # cLine.id
    /\ \A h \in Handles : requests[h] # None =>
         /\ \A g \in Handles : requests[g] = requests[h] => g = h
         /\ \A l \in Rng(toServer) \cup Rng(owed) \cup {cLine} : Reply(l) => l.id # requests[h]
    /\ \A q \in Relayed(Out) :
         \/ \E a \in Rng(said) : a.kind = "answer" /\ a.id = q.id
         \/ idOf[q.of] = q.id /\ requests[q.id] = q.of

LEMMA OnceAppend ==
  ASSUME NEW s \in Seq(Line), NEW e \in Line, Once(s),
         Reply(e) => \A l \in Rng(s) : Reply(l) => l.id # e.id
  PROVE  Once(Append(s, e))
<1>1. Len(s) \in Nat /\ DOMAIN s = 1 .. Len(s) /\ \A j \in DOMAIN s : s[j] \in Rng(s)
  BY DEF Rng
<1> QED
  BY <1>1, AppendFacts DEF Once

LEMMA OnceConcat ==
  ASSUME NEW s \in Seq(Line), NEW t \in Seq(Line), Once(s), Once(t),
         \A l \in Rng(s), r \in Rng(t) : Reply(l) /\ Reply(r) => l.id # r.id
  PROVE  Once(s \o t)
<1>1. /\ Len(s) \in Nat /\ DOMAIN s = 1 .. Len(s) /\ \A j \in DOMAIN s : s[j] \in Rng(s)
      /\ Len(t) \in Nat /\ DOMAIN t = 1 .. Len(t) /\ \A j \in DOMAIN t : t[j] \in Rng(t)
  BY DEF Rng
<1> SUFFICES ASSUME NEW j \in DOMAIN (s \o t), NEW k \in DOMAIN (s \o t),
                    Reply((s \o t)[j]), Reply((s \o t)[k]), (s \o t)[j].id = (s \o t)[k].id
             PROVE  j = k
  BY DEF Once
<1>2. j \in Nat /\ k \in Nat
  BY <1>1, ConcatFacts
<1>3. ASSUME NEW i \in DOMAIN (s \o t), i \notin DOMAIN s
      PROVE  i - Len(s) \in DOMAIN t /\ (s \o t)[i] = t[i - Len(s)]
  <2>1. i - Len(s) \in DOMAIN t
    BY <1>3, ConcatFacts
  <2>2. (s \o t)[Len(s) + (i - Len(s))] = t[i - Len(s)]
    BY <2>1, ConcatFacts
  <2>3. i \in Nat
    BY <1>1, ConcatFacts
  <2>4. Len(s) + (i - Len(s)) = i
    BY <1>1, <2>3
  <2> QED
    BY <2>1, <2>2, <2>4
<1>4. CASE j \in DOMAIN s /\ k \in DOMAIN s
  BY <1>4, ConcatFacts DEF Once
<1>5. CASE j \in DOMAIN s /\ k \notin DOMAIN s
  BY <1>1, <1>3, <1>5, ConcatFacts
<1>6. CASE j \notin DOMAIN s /\ k \in DOMAIN s
  BY <1>1, <1>3, <1>6, ConcatFacts
<1>7. CASE j \notin DOMAIN s /\ k \notin DOMAIN s
  <2>1. j - Len(s) = k - Len(s)
    BY <1>3, <1>7 DEF Once
  <2> QED
    BY <1>1, <1>2, <2>1
<1> QED
  BY <1>4, <1>5, <1>6, <1>7

\* The history only grows: what was unique was unique before, and what is
\* asked now was not asked before.
LEMMA AskedGrows ==
  ASSUME PumpInv, NEW w \in Line, asked' = Append(asked, w)
  PROVE  /\ AskedIds' = AskedIds \cup {w.id}
         /\ IdsUnique' => IdsUnique /\ w.id \notin AskedIds
<1>1. /\ DOMAIN asked = 1 .. Len(asked) /\ Len(asked) \in Nat
      /\ DOMAIN asked' = 1 .. Len(asked) + 1 /\ asked'[Len(asked) + 1] = w
      /\ \A k \in DOMAIN asked : asked'[k] = asked[k]
      /\ Rng(asked') = Rng(asked) \cup {w}
  BY AppendFacts DEF PumpInv, TypeOK
<1>2. AskedIds' = AskedIds \cup {w.id}
  BY <1>1 DEF AskedIds
<1>3. IdsUnique' => IdsUnique
  BY <1>1 DEF IdsUnique
<1>4. ASSUME IdsUnique', w.id \in AskedIds PROVE FALSE
  <2>1. PICK k \in DOMAIN asked : asked[k].id = w.id
    BY <1>4 DEF AskedIds, Rng
  <2>2. k \in DOMAIN asked' /\ Len(asked) + 1 \in DOMAIN asked' /\ k # Len(asked) + 1
    BY <1>1, <2>1
  <2> QED
    BY <1>1, <1>4, <2>1, <2>2 DEF IdsUnique
<1> QED
  BY <1>2, <1>3, <1>4

LEMMA OpenInit == Init => HomeInv /\ OpenInv
<1> SUFFICES ASSUME Init PROVE HomeInv /\ OpenInv
  OBVIOUS
<1>1. /\ Rng(toServer) = {} /\ Rng(owed) = {} /\ Rng(toHost) = {}
      /\ DOMAIN toServer = {} /\ DOMAIN owed = {} /\ cLine = NoMsg /\ sLine = NoMsg
      /\ \A h \in Handles : requests[h] = None
  BY DEF Init, Rng
<1>2. Relayed(Out) = {} /\ ~Reply(cLine)
  BY <1>1, NoMsgLine DEF Out, Relayed, Reply
<1> QED
  BY <1>1, <1>2 DEF HomeInv, OpenInv, Once

\* Steps that answer nothing and ask nothing.
LEMMA OpenKept ==
  ASSUME HomeInv, OpenInv, UNCHANGED <<requests, idOf, asked, toServer, owed>>,
         ~Reply(cLine') \/ UNCHANGED cLine, Relayed(Out') = Relayed(Out), Rng(said) \subseteq Rng(said')
  PROVE  HomeInv' /\ OpenInv'
<1>1. AskedIds' = AskedIds /\ IdsUnique' = IdsUnique
  BY DEF AskedIds, IdsUnique, Rng
<1>2. HomeInv'
  BY <1>1 DEF HomeInv, Rng, Reply
<1>3. OpenInv'
  BY <1>1 DEF OpenInv, Rng, Once, Reply
<1> QED
  BY <1>2, <1>3

LEMMA OpenAnswers ==
  ASSUME PumpInv, RequestInv, HomeInv, OpenInv, NEW h \in Handles, HostAnswers(h)
  PROVE  HomeInv' /\ OpenInv'
<1> USE HandleRef DEF Kinds
<1> DEFINE w == Msg("answer", h, None, None)
<1>1. /\ requests' = [requests EXCEPT ![h] = None]
      /\ idOf' = IF requests[h] = None THEN idOf ELSE [idOf EXCEPT ![requests[h]] = None]
      /\ cLine' = IF requests[h] # None THEN Msg("answer", requests[h], None, h)
                  ELSE Msg("unknown", None, None, h)
      /\ said' = Append(said, w)
      /\ UNCHANGED <<toServer, owed, asked, toHost, sLine>>
  BY DEF HostAnswers, Answered, HostSays
<1>2. w \in Line /\ w.kind = "answer" /\ w.id = h
  BY DEF Msg, Line, Ref
<1>3. Rng(said') = Rng(said) \cup {w}
  BY <1>1, <1>2, AppendFacts DEF PumpInv, TypeOK
<1>4. AskedIds' = AskedIds /\ IdsUnique' = IdsUnique /\ Out' = Out
  BY <1>1 DEF AskedIds, IdsUnique, Rng, Out
<1>5. \A g \in Handles : requests'[g] = IF g = h THEN None ELSE requests[g]
  BY <1>1 DEF PumpInv, TypeOK
<1>6. CASE requests[h] = None
  <2>1. ~Reply(cLine') /\ requests' = requests /\ idOf' = idOf
    BY <1>1, <1>6 DEF Reply, Msg, PumpInv, TypeOK
  <2> QED
    BY <1>1, <1>3, <1>4, <2>1, OpenKept
<1>7. CASE requests[h] # None
  <2>1. cLine'.kind = "answer" /\ cLine'.id = requests[h] /\ requests[h] \in SrvIds
    BY <1>1, <1>7 DEF Msg, PumpInv, TypeOK
  <2>2. HomeInv'
    BY <1>1, <1>4, <1>5, <1>7, <2>1 DEF HomeInv, Rng
  <2>3. ASSUME IdsUnique, NEW q \in Relayed(Out)
        PROVE  \/ \E a \in Rng(said') : a.kind = "answer" /\ a.id = q.id
               \/ idOf'[q.of] = q.id /\ requests'[q.id] = q.of
    <3>1. q.id \in Handles /\ q.of \in SrvIds
      BY <2>3 DEF RequestInv
    <3>2. CASE q.id = h
      BY <1>2, <1>3, <3>2
    <3>3. CASE q.id # h /\ idOf[q.of] = q.id /\ requests[q.id] = q.of
      <4>1. q.of # requests[h]
        BY <1>7, <2>3, <3>1, <3>3 DEF OpenInv
      <4> QED
        BY <1>1, <1>5, <1>7, <3>1, <3>3, <4>1 DEF PumpInv, TypeOK
    <3>4. CASE \E a \in Rng(said) : a.kind = "answer" /\ a.id = q.id
      BY <1>3, <3>4
    <3> QED
      BY <2>3, <3>2, <3>3, <3>4 DEF OpenInv
  <2>4. ASSUME IdsUnique, NEW g \in Handles, requests'[g] # None
        PROVE  /\ \A g2 \in Handles : requests'[g2] = requests'[g] => g2 = g
               /\ \A l \in Rng(toServer) \cup Rng(owed) \cup {cLine'} : Reply(l) => l.id # requests'[g]
    <3>1. g # h /\ requests'[g] = requests[g]
      BY <1>5, <2>4
    <3>2. requests[g] # requests[h]
      BY <1>7, <2>4, <3>1 DEF OpenInv
    <3> QED
      BY <1>5, <2>1, <2>4, <3>1, <3>2 DEF OpenInv
  <2>5. IdsUnique => \A l \in Rng(toServer) \cup Rng(owed) : Reply(l) => l.id # cLine'.id
    BY <1>7, <2>1 DEF OpenInv
  <2>6. IdsUnique => /\ Once(toServer') /\ Once(owed')
                     /\ \A l \in Rng(toServer'), r \in Rng(owed') : Reply(l) => l.id # r.id
    BY <1>1 DEF OpenInv
  <2>7. Rng(toServer') = Rng(toServer) /\ Rng(owed') = Rng(owed)
    BY <1>1
  <2>8. OpenInv'
    BY <1>4, <2>3, <2>4, <2>5, <2>6, <2>7 DEF OpenInv
  <2> QED
    BY <2>2, <2>8
<1> QED
  BY <1>6, <1>7

LEMMA OpenWrite ==
  ASSUME PumpInv, RefusalInv, HomeInv, OpenInv, WriteC2S
  PROVE  HomeInv' /\ OpenInv'
<1>1. UNCHANGED <<requests, idOf, owed, sLine, said, asked>> /\ cLine' = NoMsg /\ ~Reply(cLine')
  BY WriteOut, NoMsgLine DEF Reply
<1>2. Relayed(Out') = Relayed(Out)
  <2>1. CASE toHost' = toHost
    BY <1>1, <2>1 DEF Out
  <2>2. CASE toHost' = Append(toHost, cLine) /\ cLine.kind \in {"badCursor", "blocked"}
    <3>1. Rng(toHost') = Rng(toHost) \cup {cLine}
      BY <2>2, AppendFacts DEF PumpInv, TypeOK
    <3> QED
      BY <1>1, <2>2, <3>1 DEF Out, Relayed
  <2> QED
    BY <2>1, <2>2, WriteOut
<1>3. CASE toServer' = toServer
  BY <1>1, <1>2, <1>3, OpenKept
<1>4. CASE toServer' = Append(toServer, cLine)
  <2>1. Rng(toServer') = Rng(toServer) \cup {cLine}
    BY <1>4, AppendFacts DEF PumpInv, TypeOK
  <2>2. AskedIds' = AskedIds /\ IdsUnique' = IdsUnique
    BY <1>1 DEF AskedIds, IdsUnique
  <2>3. HomeInv'
    BY <1>1, <1>2, <2>1, <2>2 DEF HomeInv
  <2>4. IdsUnique => Once(toServer')
    BY <1>4, OnceAppend DEF OpenInv, PumpInv, TypeOK
  <2>5. ASSUME IdsUnique, NEW l \in Rng(toServer'), NEW r \in Rng(owed), Reply(l)
        PROVE  l.id # r.id
    <3>1. Reply(r)
      BY <2>5 DEF RefusalInv, Rng, Reply
    <3> QED
      BY <2>1, <2>5, <3>1 DEF OpenInv
  <2>6. OpenInv'
    BY <1>1, <1>2, <2>1, <2>2, <2>4, <2>5 DEF OpenInv
  <2> QED
    BY <2>3, <2>6
<1> QED
  BY <1>3, <1>4, WriteOut

LEMMA OpenAsks ==
  ASSUME PumpInv, RequestInv, RefusalInv, HomeInv, OpenInv, NEW x \in SrvIds, ServerAsks(x)
  PROVE  HomeInv' /\ OpenInv'
<1> USE HandleRef DEF Kinds
<1> DEFINE w == Msg("relayed", x, None, None)
<1> DEFINE e == Msg("request", fresh, None, x)
<1>1. /\ fresh \in Handles /\ requests' = [requests EXCEPT ![fresh] = x] /\ idOf' = [idOf EXCEPT ![x] = fresh]
      /\ asked' = Append(asked, w) /\ sLine' = e /\ sLine = NoMsg
      /\ UNCHANGED <<toServer, owed, cLine, said, toHost>>
  BY ServerOut DEF ServerAsks, Relays, IdsKept, ServerLine
<1>2. w \in Line /\ w.id = x /\ e.kind = "request" /\ e.id = fresh /\ e.of = x
  BY DEF Msg, Line, Ref
<1>3. AskedIds' = AskedIds \cup {x} /\ (IdsUnique' => IdsUnique /\ x \notin AskedIds)
  BY <1>1, <1>2, AskedGrows
<1>4. Relayed(Out') = Relayed(Out) \cup {e}
  BY <1>1, <1>2, NoMsgLine DEF Out, Relayed
<1>5. \A h \in Handles : requests'[h] = IF h = fresh THEN x ELSE requests[h]
  BY <1>1 DEF PumpInv, TypeOK
<1>6. /\ Rng(toServer') = Rng(toServer) /\ Rng(owed') = Rng(owed) /\ Rng(said') = Rng(said)
  BY <1>1
<1>7. HomeInv'
  BY <1>1, <1>2, <1>3, <1>4, <1>5, <1>6 DEF HomeInv
<1>8. ASSUME IdsUnique, x \notin AskedIds, NEW h \in Handles, requests'[h] # None
      PROVE  /\ \A g \in Handles : requests'[g] = requests'[h] => g = h
             /\ \A l \in Rng(toServer) \cup Rng(owed) \cup {cLine} : Reply(l) => l.id # requests'[h]
  <2>1. \A g \in Handles : requests[g] # x
    BY <1>8, HandleAssumption DEF HomeInv, HandleAssumption
  <2>2. \A l \in Rng(toServer) \cup Rng(owed) \cup {cLine} : Reply(l) => l.id # x
    BY <1>8 DEF HomeInv
  <2> QED
    BY <1>5, <1>8, <2>1, <2>2 DEF OpenInv
<1>9. ASSUME IdsUnique, x \notin AskedIds, NEW q \in Relayed(Out')
      PROVE  \/ \E a \in Rng(said) : a.kind = "answer" /\ a.id = q.id
             \/ idOf'[q.of] = q.id /\ requests'[q.id] = q.of
  <2>1. CASE q = e
    BY <1>1, <1>2, <2>1 DEF PumpInv, TypeOK
  <2>2. CASE q \in Relayed(Out)
    <3>1. q.id \in Handles /\ q.id < fresh /\ q.of \in SrvIds /\ q.of \in AskedIds
      BY <2>2 DEF RequestInv, HomeInv
    <3>2. q.id # fresh /\ q.of # x
      BY <1>1, <1>9, <3>1
    <3>3. requests'[q.id] = requests[q.id] /\ idOf'[q.of] = idOf[q.of]
      BY <1>1, <3>1, <3>2 DEF PumpInv, TypeOK
    <3> QED
      BY <1>9, <2>2, <3>3 DEF OpenInv
  <2> QED
    BY <1>4, <1>9, <2>1, <2>2
<1>10. IdsUnique' =>
         /\ Once(toServer) /\ Once(owed)
         /\ \A l \in Rng(toServer), r \in Rng(owed) : Reply(l) => l.id # r.id
         /\ Reply(cLine) => \A l \in Rng(toServer) \cup Rng(owed) : Reply(l) => l.id # cLine.id
  BY <1>3 DEF OpenInv
<1>11. OpenInv'
  BY <1>1, <1>3, <1>6, <1>8, <1>9, <1>10 DEF OpenInv
<1> QED
  BY <1>7, <1>11

LEMMA OpenAsksInVain ==
  ASSUME PumpInv, RequestInv, RefusalInv, HomeInv, OpenInv, NEW x \in SrvIds, ServerAsksInVain(x)
  PROVE  HomeInv' /\ OpenInv'
<1> USE HandleRef DEF Kinds
<1> DEFINE w == Msg("refused", x, None, None)
<1> DEFINE e == Msg("refusal", x, None, Len(asked) + 1)
<1>1. /\ asked' = Append(asked, w) /\ owed' = Append(owed, e) /\ sLine' = NoMsg /\ sLine = NoMsg
      /\ UNCHANGED <<requests, idOf, toServer, cLine, said, toHost>>
  BY ServerOut DEF ServerAsksInVain, Relays, ServerLine
<1>2. w \in Line /\ w.id = x /\ e \in Line /\ e.kind = "refusal" /\ e.id = x
  BY DEF Msg, Line, Ref, PumpInv, TypeOK
<1>3. AskedIds' = AskedIds \cup {x} /\ (IdsUnique' => IdsUnique /\ x \notin AskedIds)
  BY <1>1, <1>2, AskedGrows
<1>4. Out' = Out /\ Rng(toServer') = Rng(toServer) /\ Rng(said') = Rng(said)
  BY <1>1 DEF Out
<1>5. Rng(owed') = Rng(owed) \cup {e} /\ Reply(e)
  BY <1>1, <1>2, AppendFacts DEF PumpInv, TypeOK, Reply
<1>6. HomeInv'
  BY <1>1, <1>2, <1>3, <1>4, <1>5 DEF HomeInv
<1>7. ASSUME IdsUnique, x \notin AskedIds
      PROVE  /\ \A l \in Rng(toServer) \cup Rng(owed) \cup {cLine} : Reply(l) => l.id # x
             /\ \A h \in Handles : requests[h] # None => requests[h] # x
  BY <1>7 DEF HomeInv
<1>8. IdsUnique' => Once(owed')
  BY <1>1, <1>2, <1>3, <1>7, OnceAppend DEF OpenInv, PumpInv, TypeOK
<1>9. IdsUnique' =>
         /\ \A l \in Rng(toServer), r \in Rng(owed') : Reply(l) => l.id # r.id
         /\ Reply(cLine) => \A l \in Rng(toServer) \cup Rng(owed') : Reply(l) => l.id # cLine.id
  BY <1>2, <1>3, <1>5, <1>7 DEF OpenInv
<1>10. ASSUME IdsUnique', NEW h \in Handles, requests[h] # None
       PROVE  /\ \A g \in Handles : requests[g] = requests[h] => g = h
              /\ \A l \in Rng(toServer) \cup Rng(owed') \cup {cLine} : Reply(l) => l.id # requests[h]
  BY <1>2, <1>3, <1>5, <1>7, <1>10 DEF OpenInv
<1>11. ASSUME IdsUnique', NEW q \in Relayed(Out)
       PROVE  \/ \E a \in Rng(said) : a.kind = "answer" /\ a.id = q.id
              \/ idOf[q.of] = q.id /\ requests[q.id] = q.of
  BY <1>3, <1>11 DEF OpenInv
<1>12. IdsUnique' => Once(toServer')
  BY <1>1, <1>3 DEF OpenInv
<1>13. OpenInv'
  BY <1>1, <1>4, <1>8, <1>9, <1>10, <1>11, <1>12 DEF OpenInv
<1> QED
  BY <1>6, <1>13

LEMMA OpenDrain ==
  ASSUME PumpInv, RefusalInv, HomeInv, OpenInv, Drain
  PROVE  HomeInv' /\ OpenInv'
<1>1. /\ owed' = <<>> /\ UNCHANGED <<requests, idOf, asked, cLine, sLine, said, toHost>>
      /\ toServer' \in {toServer, toServer \o owed}
  BY DEF Drain, Drained
<1>2. Rng(owed') = {} /\ Once(owed')
  BY <1>1 DEF Rng, Once
<1>3. Rng(toServer') \subseteq Rng(toServer) \cup Rng(owed)
  <2>1. Rng(toServer \o owed) = Rng(toServer) \cup Rng(owed)
    BY ConcatFacts DEF PumpInv, TypeOK
  <2> QED
    BY <1>1, <2>1
<1>4. IdsUnique => Once(toServer \o owed)
  BY OnceConcat DEF OpenInv, PumpInv, TypeOK
<1>5. IdsUnique => Once(toServer')
  BY <1>1, <1>4 DEF OpenInv
<1>6. AskedIds' = AskedIds /\ IdsUnique' = IdsUnique /\ Out' = Out /\ Rng(said') = Rng(said)
  BY <1>1 DEF AskedIds, IdsUnique, Out
<1>7. HomeInv'
  BY <1>1, <1>2, <1>3, <1>6 DEF HomeInv
<1>8. OpenInv'
  BY <1>1, <1>2, <1>3, <1>5, <1>6 DEF OpenInv
<1> QED
  BY <1>7, <1>8

HandleInv == PumpInv /\ RequestInv /\ RefusalInv /\ HomeInv /\ OpenInv

LEMMA HandleInit == Init => HandleInv
BY PumpInit, RequestInit, RefusalInit, OpenInit DEF HandleInv

LEMMA HandleNext == HandleInv /\ [Next]_vars => HandleInv'
<1> SUFFICES ASSUME HandleInv, [Next]_vars PROVE RequestInv' /\ HomeInv' /\ OpenInv'
  BY PumpNext, RefusalNext DEF HandleInv
<1> USE DEF HandleInv
<1>1. CASE HostLine
  <2>1. ASSUME NEW h \in Handles, HostAnswers(h) PROVE HomeInv' /\ OpenInv'
    BY <2>1, OpenAnswers
  <2>2. ASSUME NEW words \in Line, NEW line, NEW where, HostSays(words, line, where), ~Reply(line),
               UNCHANGED <<requests, idOf>>
        PROVE  HomeInv' /\ OpenInv'
    <3>1. Rng(said) \subseteq Rng(said')
      BY <2>2, AppendFacts DEF HostSays, PumpInv, TypeOK
    <3>2. UNCHANGED <<toHost, sLine, toServer, owed, asked>> /\ cLine' = line
      BY <1>1, <2>2, InwardOut DEF Inward, HostSays, HostLine, HostAnswers, HostLists, HostSendsToken,
                                   HostSubscribes, HostUnsubscribes
    <3> QED
      BY <2>2, <3>1, <3>2, OpenKept DEF Out
  <2>3. ASSUME NEW m \in Methods, NEW h \in Handles \cup {None}, HostLists(m, h) PROVE HomeInv' /\ OpenInv'
    <3>1. /\ Msg("list", m, h, None) \in Line /\ Msg("list", m, None, None) \in Line
          /\ ~Reply(Msg("list", m, None, None)) /\ ~Reply(Msg("list", m, cursors[h].of, h))
          /\ ~Reply(Msg("badCursor", m, None, h))
      BY HandleRef DEF Msg, Line, Ref, Kinds, Reply
    <3> QED
      BY <2>2, <2>3, <3>1 DEF HostLists
  <2>4. ASSUME NEW t \in Tokens, HostSendsToken(t) PROVE HomeInv' /\ OpenInv'
    <3>1. /\ Msg("token", t, None, None) \in Line /\ ~Reply(Msg("token", t, None, None))
          /\ ~Reply(Msg("blocked", None, None, None))
      BY DEF Msg, Line, Ref, Kinds, Reply
    <3> QED
      BY <2>2, <2>4, <3>1 DEF HostSendsToken
  <2>5. ASSUME NEW u \in Uris, HostSubscribes(u) \/ HostUnsubscribes(u) PROVE HomeInv' /\ OpenInv'
    <3>1. /\ Msg("subscribe", u, None, None) \in Line /\ ~Reply(Msg("subscribe", u, None, None))
          /\ Msg("unsubscribe", u, None, None) \in Line /\ ~Reply(Msg("unsubscribe", u, None, None))
      BY DEF Msg, Line, Ref, Kinds, Reply
    <3> QED
      BY <2>2, <2>5, <3>1 DEF HostSubscribes, HostUnsubscribes
  <2> QED
    BY <1>1, <2>1, <2>3, <2>4, <2>5, RequestHost DEF HostLine
<1>2. CASE WriteC2S
  BY <1>2, RequestWrite, OpenWrite
<1>3. CASE ServerLine
  <2>1. RequestInv'
    BY <1>3, RequestServer
  <2>2. ASSUME NEW l, Notes(l), l.kind # "request" PROVE HomeInv' /\ OpenInv'
    <3>1. /\ UNCHANGED <<requests, idOf, asked, toServer, owed, cLine, said, toHost>>
          /\ sLine' = l /\ sLine = NoMsg
      BY <2>2, PumpInit DEF Notes, Relays, PumpInv
    <3>2. Relayed(Out') = Relayed(Out)
      BY <2>2, <3>1, NoMsgLine DEF Out, Relayed
    <3> QED
      BY <3>1, <3>2, OpenKept
  <2>3. \A x \in SrvIds : ServerAsks(x) \/ ServerAsksInVain(x) => HomeInv' /\ OpenInv'
    BY OpenAsks, OpenAsksInVain
  <2>4. ASSUME NEW x \in SrvIds, ServerCancels(x) PROVE HomeInv' /\ OpenInv'
    BY <2>2, <2>4 DEF ServerCancels, Msg
  <2>5. ASSUME NEW m \in Methods, NEW c \in Cursors \cup {None}, ServerLists(m, c) PROVE HomeInv' /\ OpenInv'
    BY <2>2, <2>5 DEF ServerLists, Msg
  <2>6. ASSUME NEW t \in Tokens, ServerProgresses(t) PROVE HomeInv' /\ OpenInv'
    BY <2>2, <2>6 DEF ServerProgresses, Msg
  <2>7. ASSUME NEW u \in Uris, ServerUpdates(u) PROVE HomeInv' /\ OpenInv'
    BY <2>2, <2>7 DEF ServerUpdates, Msg
  <2> QED
    BY <1>3, <2>1, <2>3, <2>4, <2>5, <2>6, <2>7 DEF ServerLine
<1>4. CASE Relay
  <2>1. Relayed(Out') = Relayed(Out)
    BY <1>4, RelayOut, NoMsgLine DEF Out, Relayed
  <2> QED
    BY <1>4, <2>1, RelayOut, RequestRelay, OpenKept
<1>5. CASE Drain
  BY <1>5, RequestDrain, OpenDrain DEF RefusalInv
<1>6. CASE ServerDies \/ ReadHostEof \/ UNCHANGED vars
  <2>1. UNCHANGED <<requests, idOf, fresh, cLine, sLine, asked, owed, said, toHost, toServer>>
    BY <1>6 DEF ServerDies, ReadHostEof, vars
  <2>2. Out' = Out
    BY <2>1 DEF Out
  <2>3. RequestInv'
    BY <2>1, <2>2 DEF RequestInv, Follow, Match
  <2> QED
    BY <2>1, <2>2, <2>3, OpenKept
<1> QED
  BY <1>1, <1>2, <1>3, <1>4, <1>5, <1>6 DEF Next

LEMMA HandleAlways == Spec => []HandleInv
BY HandleInit, HandleNext, PTL DEF Spec

\* A cancellation reaches the host after the request it names and under its
\* handle, an answer the server under its own id, and what is unanswered can be
\* cancelled, whatever ids the server uses again (_server_request,
\* handle_client_line).
THEOREM Stand == Spec => []HandlesStand
<1>1. HandleInv => HandlesStand
  <2> SUFFICES ASSUME HandleInv PROVE HandlesResolve /\ UnansweredCanBeCancelled
    BY DEF HandlesStand
  <2>1. /\ Kind(toHost, "request") = Relayed(Rng(toHost))
        /\ \A k : Kind(toServer, k) = {l \in Rng(toServer) : l.kind = k}
        /\ \A k : Kind(said, k) = {l \in Rng(said) : l.kind = k}
    BY KindFacts DEF Relayed, HandleInv, PumpInv, TypeOK
  <2>2. HandlesResolve
    BY <2>1 DEF HandlesResolve, HandleInv, RequestInv, Follow, Match
  <2>3. UnansweredCanBeCancelled
    BY <2>1 DEF UnansweredCanBeCancelled, HandleInv, OpenInv, Out, Relayed
  <2> QED
    BY <2>2, <2>3
<1> QED
  BY <1>1, HandleAlways, PTL

\* The server gets one answer per request, a refusal or the host's, however
\* often the host answers; and a live one its refusals, each once and in order
\* (drain_to_server).
THEOREM AnsweredOnce == Spec => []ServerIsAnswered
<1>1. HandleInv => ServerIsAnswered
  <2> SUFFICES ASSUME HandleInv PROVE OneAnswerEach /\ RefusalsInOrder
    BY DEF ServerIsAnswered
  <2>1. OneAnswerEach
    BY DEF OneAnswerEach, HandleInv, OpenInv, Once, Reply
  <2> QED
    BY <2>1, RefusalOrder DEF HandleInv
<1> QED
  BY <1>1, HandleAlways, PTL

-----------------------------------------------------------------------------
(* Cursors: a handle leads to the listing that carries it.                  *)

\* The listings that carry a cursor.
Paged(lines) == {l \in lines : l.kind = "listing" /\ l.ref # None}

\* The host's use of a cursor, put back into the server's words.
Backed(l, lines) ==
  l.kind = "list" /\ l.of # None =>
    \E q \in Paged(lines) : q.id = l.id /\ q.ref = l.of /\ q.of = l.ref

\* A cursor that was turned down was issued with another listing.
Foreign(b) ==
  b.kind = "badCursor" =>
    b.of \in Handles /\ b.of < fresh /\ cursors[b.of] # None /\ cursors[b.of].id # b.id

CursorInv ==
  /\ \A q \in Paged(Out) : q.ref \in Handles /\ q.ref < fresh /\ cursors[q.ref] = q
  /\ \A l \in Rng(toServer) \cup {cLine} : Backed(l, Rng(toHost))
  /\ \A b \in Rng(toHost) \cup {cLine} : Foreign(b)

LEMMA CursorInit == Init => CursorInv
<1> SUFFICES ASSUME Init PROVE CursorInv
  OBVIOUS
<1>1. Rng(toHost) = {} /\ Rng(toServer) = {} /\ sLine.kind = "none" /\ cLine.kind = "none"
  BY NoMsgLine DEF Init, Rng
<1> QED
  BY <1>1 DEF CursorInv, Out, Paged, Backed, Foreign

\* The host says something that is no listing, or nothing; owed refusals go out.
LEMMA CursorKept ==
  ASSUME PumpInv, CursorInv, UNCHANGED <<toHost, sLine, cursors, fresh>>,
         cLine' = cLine \/ (Backed(cLine', Rng(toHost)) /\ Foreign(cLine')),
         \A l \in Rng(toServer') : l \in Rng(toServer) \/ l.kind = "refusal"
  PROVE  CursorInv'
<1>1. Out' = Out /\ Rng(toHost') = Rng(toHost)
  BY DEF Out
<1>2. \A l \in Rng(toServer') \cup {cLine'} : Backed(l, Rng(toHost))
  BY DEF CursorInv, Backed
<1>3. \A b \in Rng(toHost) \cup {cLine'} : Foreign(b)
  BY DEF CursorInv
<1>4. \A b \in Rng(toHost') \cup {cLine'} : Foreign(b)'
  BY <1>1, <1>3 DEF Foreign
<1> QED
  BY <1>1, <1>2, <1>4 DEF CursorInv, Paged, Foreign

LEMMA CursorHost == ASSUME PumpInv, CursorInv, HostLine PROVE CursorInv'
<1> USE HandleRef
<1>1. UNCHANGED <<toHost, sLine, cursors, fresh, toServer>>
  BY InwardOut DEF Inward, HostLine, HostAnswers, HostLists, HostSendsToken, HostSubscribes,
                   HostUnsubscribes, HostSays
<1>2. Rng(toServer') = Rng(toServer)
  BY <1>1
<1>3. ASSUME cLine'.kind \notin {"list", "badCursor"} PROVE CursorInv'
  BY <1>1, <1>2, <1>3, CursorKept DEF Backed, Foreign
<1>4. ASSUME NEW h \in Handles, HostAnswers(h) PROVE CursorInv'
  BY <1>3, <1>4 DEF HostAnswers, HostSays, Msg
<1>5. ASSUME NEW m \in Methods, NEW h \in Handles \cup {None}, HostLists(m, h) PROVE CursorInv'
  <2>1. CASE h = None
    <3>1. cLine' = Msg("list", m, None, None)
      BY <1>5, <2>1 DEF HostLists, HostSays
    <3>2. Backed(cLine', Rng(toHost)) /\ Foreign(cLine')
      BY <3>1 DEF Backed, Foreign, Msg
    <3> QED
      BY <1>1, <1>2, <3>2, CursorKept
  <2>2. CASE h # None
    <3>1. PICK q \in Paged(Rng(toHost)) : q.ref = h
      BY <1>5, <2>2, KindFacts DEF HostLists, PumpInv, TypeOK, Paged
    <3>2. h \in Handles /\ h < fresh /\ cursors[h] = q
      BY <3>1 DEF CursorInv, Paged, Out
    <3>3. q \in Line /\ q # None
      BY <3>1, RngLines, HandleAssumption DEF Paged, PumpInv, TypeOK, HandleAssumption
    <3>4. CASE Honoured(m, h)
      <4>1. cLine' = Msg("list", m, cursors[h].of, h) /\ q.id = m
        BY <1>5, <2>2, <3>2, <3>4 DEF HostLists, HostSays, Honoured
      <4>2. Backed(cLine', Rng(toHost)) /\ Foreign(cLine')
        BY <3>1, <3>2, <4>1 DEF Backed, Foreign, Msg
      <4> QED
        BY <1>1, <1>2, <4>2, CursorKept
    <3>5. CASE ~Honoured(m, h)
      <4>1. cLine' = Msg("badCursor", m, None, h) /\ q.id # m
        BY <1>5, <2>2, <3>2, <3>3, <3>5 DEF HostLists, HostSays, Honoured
      <4>2. Backed(cLine', Rng(toHost)) /\ Foreign(cLine')
        BY <3>2, <3>3, <4>1 DEF Backed, Foreign, Msg
      <4> QED
        BY <1>1, <1>2, <4>2, CursorKept
    <3> QED
      BY <3>4, <3>5
  <2> QED
    BY <2>1, <2>2
<1>6. ASSUME NEW t \in Tokens, HostSendsToken(t) PROVE CursorInv'
  BY <1>3, <1>6 DEF HostSendsToken, HostSays, Msg
<1>7. ASSUME NEW u \in Uris, HostSubscribes(u) \/ HostUnsubscribes(u) PROVE CursorInv'
  BY <1>3, <1>7 DEF HostSubscribes, HostUnsubscribes, HostSays, Msg
<1> QED
  BY <1>4, <1>5, <1>6, <1>7 DEF HostLine

LEMMA CursorWrite == ASSUME PumpInv, CursorInv, WriteC2S PROVE CursorInv'
<1>1. UNCHANGED <<cursors, fresh, sLine>> /\ cLine' = NoMsg
  BY WriteOut
<1>2. /\ Rng(toHost') \subseteq Rng(toHost) \cup {cLine}
      /\ Paged(Rng(toHost')) = Paged(Rng(toHost))
  <2>1. CASE toHost' = toHost
    BY <2>1
  <2>2. CASE toHost' = Append(toHost, cLine) /\ cLine.kind \in {"badCursor", "blocked"}
    BY <2>2, AppendFacts DEF PumpInv, TypeOK, Paged
  <2> QED
    BY <2>1, <2>2, WriteOut
<1>3. Rng(toServer') \subseteq Rng(toServer) \cup {cLine}
  <2>1. CASE toServer' = toServer
    BY <2>1
  <2>2. CASE toServer' = Append(toServer, cLine)
    BY <2>2, AppendFacts DEF PumpInv, TypeOK
  <2> QED
    BY <2>1, <2>2, WriteOut
<1>4. Paged(Out') = Paged(Out)
  BY <1>1, <1>2 DEF Out, Paged
<1>5. \A l \in Rng(toServer') \cup {cLine'} : Backed(l, Rng(toHost'))
  BY <1>1, <1>2, <1>3, NoMsgLine DEF CursorInv, Backed
<1>6. \A b \in Rng(toHost') \cup {cLine'} : Foreign(b)'
  BY <1>1, <1>2, NoMsgLine DEF CursorInv, Foreign
<1> QED
  BY <1>1, <1>4, <1>5, <1>6 DEF CursorInv, Foreign

LEMMA CursorRelay == ASSUME PumpInv, CursorInv, Relay PROVE CursorInv'
<1>1. /\ UNCHANGED <<cursors, fresh, cLine, toServer>>
      /\ sLine' = NoMsg /\ Rng(toHost') = Out
  BY RelayOut
<1>2. Paged(Out') = Paged(Out) /\ Paged(Rng(toHost)) \subseteq Paged(Rng(toHost'))
  BY <1>1, NoMsgLine DEF Out, Paged
<1>3. \A b \in Rng(toHost') \cup {cLine'} : Foreign(b)'
  BY <1>1 DEF CursorInv, Foreign, Out, PumpInv
<1>4. \A l \in Rng(toServer') \cup {cLine'} : Backed(l, Rng(toHost'))
  BY <1>1, <1>2 DEF CursorInv, Backed
<1> QED
  BY <1>1, <1>2, <1>3, <1>4 DEF CursorInv, Foreign

LEMMA CursorServer == ASSUME PumpInv, CursorInv, ServerLine PROVE CursorInv'
<1>1. UNCHANGED <<cLine, toHost, toServer>> /\ sLine = NoMsg
  BY ServerOut
<1>2. Paged(Out) = Paged(Rng(toHost)) /\ Paged(Out') = Paged(Rng(toHost)) \cup Paged({sLine'})
  BY <1>1, NoMsgLine DEF Out, Paged
<1>3. fresh \in Nat
  BY DEF PumpInv, TypeOK
<1>4. ASSUME cursors' = cursors, fresh' \in {fresh, fresh + 1}, Paged({sLine'}) = {} PROVE CursorInv'
  <2>1. \A n \in Handles : n < fresh => n < fresh'
    BY <1>3, <1>4, HandleRef
  <2>2. \A b \in Rng(toHost) \cup {cLine} : Foreign(b)'
    BY <1>4, <2>1 DEF CursorInv, Foreign
  <2> QED
    BY <1>1, <1>2, <1>4, <2>1, <2>2 DEF CursorInv, Foreign
<1>5. ASSUME NEW x \in SrvIds, ServerAsks(x) \/ ServerAsksInVain(x) \/ ServerCancels(x) PROVE CursorInv'
  BY <1>4, <1>5, NoMsgLine DEF ServerAsks, ServerAsksInVain, ServerCancels, Notes, Relays, Msg, Paged
<1>6. ASSUME NEW m \in Methods, NEW c \in Cursors \cup {None}, ServerLists(m, c) PROVE CursorInv'
  <2>1. CASE c = None
    BY <1>4, <1>6, <2>1 DEF ServerLists, Notes, Relays, Msg, Paged
  <2>2. CASE c # None
    <3> DEFINE e == Msg("listing", m, fresh, c)
    <3>1. /\ fresh \in Handles /\ fresh' = fresh + 1 /\ sLine' = e
          /\ cursors' = [cursors EXCEPT ![fresh] = e]
      BY <1>6, <2>2 DEF ServerLists, Notes, Relays
    <3>2. e.kind = "listing" /\ e.ref = fresh
      BY DEF Msg
    <3>3. ASSUME NEW n \in Handles, n < fresh PROVE n < fresh' /\ cursors'[n] = cursors[n]
      <4>1. n \in Nat
        BY HandleRef
      <4> QED
        BY <1>3, <3>1, <3>3, <4>1 DEF PumpInv, TypeOK
    <3>4. fresh < fresh' /\ cursors'[fresh] = e
      BY <1>3, <3>1 DEF PumpInv, TypeOK
    <3>5. \A q \in Paged(Out') : q.ref \in Handles /\ q.ref < fresh' /\ cursors'[q.ref] = q
      BY <1>2, <3>1, <3>2, <3>3, <3>4 DEF CursorInv, Paged
    <3>6. \A b \in Rng(toHost) \cup {cLine} : Foreign(b)'
      BY <3>3 DEF CursorInv, Foreign
    <3> QED
      BY <1>1, <3>5, <3>6 DEF CursorInv, Foreign
  <2> QED
    BY <2>1, <2>2
<1>7. ASSUME NEW t \in Tokens, ServerProgresses(t) PROVE CursorInv'
  BY <1>4, <1>7 DEF ServerProgresses, Notes, Relays, Msg, Paged
<1>8. ASSUME NEW u \in Uris, ServerUpdates(u) PROVE CursorInv'
  BY <1>4, <1>8 DEF ServerUpdates, Notes, Relays, Msg, Paged
<1> QED
  BY <1>5, <1>6, <1>7, <1>8 DEF ServerLine

LEMMA CursorNext == PumpInv /\ RefusalInv /\ CursorInv /\ [Next]_vars => CursorInv'
<1> SUFFICES ASSUME PumpInv, RefusalInv, CursorInv, [Next]_vars PROVE CursorInv'
  OBVIOUS
<1>1. CASE Drain
  <2>1. UNCHANGED <<cLine, toHost, sLine, cursors, fresh>> /\ toServer' \in {toServer, toServer \o owed}
    BY <1>1 DEF Drain
  <2>2. Rng(toServer \o owed) = Rng(toServer) \cup Rng(owed)
    BY ConcatFacts DEF PumpInv, TypeOK
  <2>4. \A l \in Rng(owed) : l.kind = "refusal"
    BY DEF RefusalInv, Rng
  <2>3. \A l \in Rng(toServer') : l \in Rng(toServer) \/ l.kind = "refusal"
    BY <2>1, <2>2, <2>4
  <2> QED
    BY <2>1, <2>3, CursorKept
<1>2. CASE ServerDies \/ ReadHostEof \/ UNCHANGED vars
  <2>1. UNCHANGED <<cLine, toHost, sLine, cursors, fresh, toServer>>
    BY <1>2 DEF ServerDies, ReadHostEof, vars
  <2>2. Rng(toServer') = Rng(toServer)
    BY <2>1
  <2> QED
    BY <2>1, <2>2, CursorKept
<1> QED
  BY <1>1, <1>2, CursorHost, CursorWrite, CursorServer, CursorRelay DEF Next

-----------------------------------------------------------------------------
(* Echoes of the host's values, and the proxy's count of each token.        *)

Said(k, x) == \E w \in Rng(said) : w.kind = k /\ w.id = x

\* The reports of progress on token t in `lines`.
Reports(lines, t) == {l \in lines : l.kind = "progress" /\ l.id = t}

\* Every report in `lines` is one more than a report before it, or the first.
Counting(lines) ==
  \A j \in DOMAIN lines : lines[j].kind = "progress" =>
    /\ \A i \in 1 .. j - 1 : lines[i].kind = "progress" /\ lines[i].id = lines[j].id =>
         lines[i].ref < lines[j].ref
    /\ \/ lines[j].ref = 1
       \/ \E i \in 1 .. j - 1 : /\ lines[i].kind = "progress" /\ lines[i].id = lines[j].id
                                /\ lines[i].ref + 1 = lines[j].ref

EchoInv ==
  /\ \A u \in subs : Said("subscribe", u)
  /\ \A t \in tokens : Said("token", t)
  /\ \A l \in Out : l.kind = "updated" => Said("subscribe", l.id)
  /\ \A l \in Out : l.kind = "progress" =>
       l.id \in Tokens /\ Said("token", l.id) /\ l.ref \in 1 .. counts[l.id]
  /\ sLine.kind = "progress" =>
       /\ \A l \in Reports(Rng(toHost), sLine.id) : l.ref < sLine.ref
       /\ sLine.ref = 1 \/ \E l \in Reports(Rng(toHost), sLine.id) : l.ref + 1 = sLine.ref
  /\ \A t \in Tokens : counts[t] > 0 => \E l \in Reports(Out, t) : l.ref = counts[t]
  /\ Counting(toHost)

LEMMA CountingAppend ==
  ASSUME NEW s \in Seq(Line), NEW e \in Line, Counting(s),
         e.kind = "progress" => /\ \A l \in Reports(Rng(s), e.id) : l.ref < e.ref
                                /\ e.ref = 1 \/ \E l \in Reports(Rng(s), e.id) : l.ref + 1 = e.ref
  PROVE  Counting(Append(s, e))
<1> DEFINE a == Append(s, e)
<1>1. Len(s) \in Nat /\ DOMAIN s = 1 .. Len(s) /\ \A i \in DOMAIN s : s[i] \in Rng(s)
  BY DEF Rng
<1>2. /\ DOMAIN a = 1 .. Len(s) + 1 /\ a[Len(s) + 1] = e
      /\ \A i \in DOMAIN s : a[i] = s[i]
  BY AppendFacts
<1> HIDE DEF a
<1> SUFFICES ASSUME NEW j \in DOMAIN a, a[j].kind = "progress"
             PROVE  /\ \A i \in 1 .. j - 1 : a[i].kind = "progress" /\ a[i].id = a[j].id => a[i].ref < a[j].ref
                    /\ \/ a[j].ref = 1
                       \/ \E i \in 1 .. j - 1 : /\ a[i].kind = "progress" /\ a[i].id = a[j].id
                                                /\ a[i].ref + 1 = a[j].ref
  BY DEF Counting, a
<1>3. CASE j \in DOMAIN s
  <2>1. \A i \in 1 .. j - 1 : i \in DOMAIN s /\ a[i] = s[i]
    BY <1>1, <1>2, <1>3
  <2> QED
    BY <1>2, <1>3, <2>1 DEF Counting
<1>4. CASE j = Len(s) + 1
  <2>1. a[j] = e /\ 1 .. j - 1 = DOMAIN s
    BY <1>1, <1>2, <1>4
  <2>2. \A i \in DOMAIN s : a[i].kind = "progress" /\ a[i].id = e.id => a[i].ref < e.ref
    BY <1>1, <1>2, <1>4, <2>1 DEF Reports
  <2>3. e.ref = 1 \/ \E i \in DOMAIN s : a[i].kind = "progress" /\ a[i].id = e.id /\ a[i].ref + 1 = e.ref
    BY <1>2, <1>4, <2>1 DEF Reports, Rng
  <2> QED
    BY <2>1, <2>2, <2>3
<1> QED
  BY <1>1, <1>2, <1>3, <1>4

LEMMA EchoInit == Init => EchoInv
<1> SUFFICES ASSUME Init PROVE EchoInv
  OBVIOUS
<1>1. Rng(toHost) = {} /\ DOMAIN toHost = {} /\ sLine.kind = "none"
  BY NoMsgLine DEF Init, Rng
<1> QED
  BY <1>1 DEF Init, EchoInv, Out, Counting

\* What the host said stays said.
LEMMA SaidGrows ==
  ASSUME PumpInv, NEW w \in Line, said' = Append(said, w)
  PROVE  Said(w.kind, w.id)' /\ \A k, x : Said(k, x) => Said(k, x)'
<1>1. Rng(said') = Rng(said) \cup {w}
  BY AppendFacts DEF PumpInv, TypeOK
<1> QED
  BY <1>1 DEF Said

LEMMA EchoHost == ASSUME PumpInv, EchoInv, HostLine PROVE EchoInv'
<1> USE HandleRef DEF Kinds
<1>1. UNCHANGED <<toHost, sLine, counts>>
  BY InwardOut DEF Inward
<1>2. Out' = Out /\ Rng(toHost') = Rng(toHost)
  BY <1>1 DEF Out
<1>3. ASSUME NEW w \in Line, said' = Append(said, w),
             subs' \subseteq subs \cup {u \in Uris : w.kind = "subscribe" /\ w.id = u},
             tokens' \subseteq tokens \cup {t \in Tokens : w.kind = "token" /\ w.id = t}
      PROVE  EchoInv'
  <2>1. Said(w.kind, w.id)' /\ \A k, x : Said(k, x) => Said(k, x)'
    BY <1>3, SaidGrows
  <2>2. (\A u \in subs' : Said("subscribe", u)') /\ (\A t \in tokens' : Said("token", t)')
    BY <1>3, <2>1 DEF EchoInv
  <2>3. /\ \A l \in Out : l.kind = "updated" => Said("subscribe", l.id)'
        /\ \A l \in Out : l.kind = "progress" =>
             l.id \in Tokens /\ Said("token", l.id)' /\ l.ref \in 1 .. counts[l.id]
    BY <2>1 DEF EchoInv
  <2> QED
    BY <1>1, <1>2, <2>2, <2>3 DEF EchoInv, Said, Counting
<1>4. ASSUME NEW h \in Handles, HostAnswers(h) PROVE EchoInv'
  <2>1. Msg("answer", h, None, None) \in Line
    BY DEF Msg, Line, Ref
  <2> QED
    BY <1>3, <1>4, <2>1 DEF HostAnswers, HostSays
<1>5. ASSUME NEW m \in Methods, NEW h \in Handles \cup {None}, HostLists(m, h) PROVE EchoInv'
  <2>1. Msg("list", m, h, None) \in Line /\ Msg("list", m, None, None) \in Line
    BY DEF Msg, Line, Ref
  <2> QED
    BY <1>3, <1>5, <2>1 DEF HostLists, HostSays
<1>6. ASSUME NEW t \in Tokens, HostSendsToken(t) PROVE EchoInv'
  <2> DEFINE w == Msg("token", t, None, None)
  <2>1. w \in Line /\ w.kind = "token" /\ w.id = t
    BY DEF Msg, Line, Ref
  <2>2. said' = Append(said, w) /\ tokens' = tokens \cup {t} /\ subs' = subs
    BY <1>6 DEF HostSendsToken, HostSays
  <2> QED
    BY <1>3, <2>1, <2>2
<1>7. ASSUME NEW u \in Uris, HostSubscribes(u) PROVE EchoInv'
  <2> DEFINE w == Msg("subscribe", u, None, None)
  <2>1. w \in Line /\ w.kind = "subscribe" /\ w.id = u
    BY DEF Msg, Line, Ref
  <2>2. said' = Append(said, w) /\ tokens' = tokens /\ subs' = subs \cup {u}
    BY <1>7 DEF HostSubscribes, HostSays
  <2> QED
    BY <1>3, <2>1, <2>2
<1>8. ASSUME NEW u \in Uris, HostUnsubscribes(u) PROVE EchoInv'
  <2>1. Msg("unsubscribe", u, None, None) \in Line
    BY DEF Msg, Line, Ref
  <2>2. said' = Append(said, Msg("unsubscribe", u, None, None)) /\ tokens' = tokens /\ subs' = subs \ {u}
    BY <1>8 DEF HostUnsubscribes, HostSays
  <2> QED
    BY <1>3, <2>1, <2>2
<1> QED
  BY <1>4, <1>5, <1>6, <1>7, <1>8 DEF HostLine

LEMMA EchoWrite == ASSUME PumpInv, EchoInv, WriteC2S PROVE EchoInv'
<1>1. UNCHANGED <<counts, tokens, subs, sLine, said>>
  BY WriteOut
<1>2. CASE toHost' = toHost
  <2>1. Out' = Out /\ Rng(toHost') = Rng(toHost)
    BY <1>1, <1>2 DEF Out
  <2> QED
    BY <1>1, <1>2, <2>1 DEF EchoInv, Said, Counting
<1>3. CASE toHost' = Append(toHost, cLine) /\ cLine.kind \in {"badCursor", "blocked"}
  <2>1. Rng(toHost') = Rng(toHost) \cup {cLine}
    BY <1>3, AppendFacts DEF PumpInv, TypeOK
  <2>2. Counting(toHost')
    BY <1>3, CountingAppend DEF EchoInv, PumpInv, TypeOK
  <2>3. /\ \A l \in Out' : l \in Out \/ l.kind \in {"badCursor", "blocked"}
        /\ \A t : Reports(Rng(toHost'), t) = Reports(Rng(toHost), t) /\ Reports(Out', t) = Reports(Out, t)
    BY <1>1, <1>3, <2>1 DEF Out, Reports
  <2>4. /\ \A l \in Out' : l.kind = "updated" => Said("subscribe", l.id)
        /\ \A l \in Out' : l.kind = "progress" =>
             l.id \in Tokens /\ Said("token", l.id) /\ l.ref \in 1 .. counts[l.id]
    BY <2>3 DEF EchoInv
  <2> QED
    BY <1>1, <2>2, <2>3, <2>4 DEF EchoInv, Said
<1> QED
  BY <1>2, <1>3, WriteOut

LEMMA EchoRelay == ASSUME PumpInv, EchoInv, Relay PROVE EchoInv'
<1>1. /\ UNCHANGED <<counts, tokens, subs, said>>
      /\ toHost' = Append(toHost, sLine) /\ sLine' = NoMsg /\ Rng(toHost') = Out
  BY RelayOut
<1>2. Counting(toHost')
  BY <1>1, CountingAppend DEF EchoInv, PumpInv, TypeOK
<1>3. Out' = Out \cup {NoMsg} /\ \A t : Reports(Out', t) = Reports(Out, t)
  BY <1>1, NoMsgLine DEF Out, Reports
<1>4. /\ \A l \in Out' : l.kind = "updated" => Said("subscribe", l.id)
      /\ \A l \in Out' : l.kind = "progress" =>
           l.id \in Tokens /\ Said("token", l.id) /\ l.ref \in 1 .. counts[l.id]
  BY <1>3, NoMsgLine DEF EchoInv
<1>5. /\ \A u \in subs' : Said("subscribe", u)'
      /\ \A t \in tokens' : Said("token", t)'
  BY <1>1 DEF EchoInv, Said
<1>6. \A t \in Tokens : counts'[t] > 0 => \E l \in Reports(Out', t) : l.ref = counts'[t]
  BY <1>1, <1>3 DEF EchoInv
<1>7. sLine'.kind = "none"
  BY <1>1, NoMsgLine
<1>8. /\ \A l \in Out' : l.kind = "updated" => Said("subscribe", l.id)'
      /\ \A l \in Out' : l.kind = "progress" =>
           l.id \in Tokens /\ Said("token", l.id)' /\ l.ref \in 1 .. counts'[l.id]
  BY <1>1, <1>4 DEF Said
<1> QED
  BY <1>2, <1>5, <1>6, <1>7, <1>8 DEF EchoInv

LEMMA EchoServer == ASSUME PumpInv, EchoInv, ServerLine PROVE EchoInv'
<1>1. UNCHANGED <<tokens, subs, said, toHost>> /\ sLine = NoMsg
  BY ServerOut
<1>2. /\ Out = Rng(toHost) \cup {NoMsg} /\ Out' = Rng(toHost) \cup {sLine'}
      /\ \A t : Reports(Out, t) = Reports(Rng(toHost), t)
  BY <1>1, NoMsgLine DEF Out, Reports
<1>3. ASSUME counts' = counts, sLine'.kind # "progress",
             sLine'.kind = "updated" => Said("subscribe", sLine'.id)
      PROVE  EchoInv'
  <2>1. \A t : Reports(Out', t) = Reports(Out, t)
    BY <1>2, <1>3 DEF Reports
  <2>2. /\ \A l \in Out' : l.kind = "updated" => Said("subscribe", l.id)
        /\ \A l \in Out' : l.kind = "progress" =>
             l.id \in Tokens /\ Said("token", l.id) /\ l.ref \in 1 .. counts[l.id]
    BY <1>2, <1>3 DEF EchoInv
  <2> QED
    BY <1>1, <1>3, <2>1, <2>2 DEF EchoInv, Said
<1>4. ASSUME NEW x \in SrvIds, ServerAsks(x) \/ ServerAsksInVain(x) \/ ServerCancels(x) PROVE EchoInv'
  BY <1>3, <1>4, NoMsgLine DEF ServerAsks, ServerAsksInVain, ServerCancels, Notes, Relays, Msg
<1>5. ASSUME NEW m \in Methods, NEW c \in Cursors \cup {None}, ServerLists(m, c) PROVE EchoInv'
  BY <1>3, <1>5 DEF ServerLists, Notes, Relays, Msg
<1>6. ASSUME NEW u \in Uris, ServerUpdates(u) PROVE EchoInv'
  BY <1>3, <1>6 DEF ServerUpdates, Wanted, Notes, Relays, Msg, EchoInv
<1>7. ASSUME NEW t \in Tokens, ServerProgresses(t) PROVE EchoInv'
  <2> DEFINE n == counts[t] + 1
  <2> DEFINE e == Msg("progress", t, n, None)
  <2>1. t \in tokens /\ counts' = [counts EXCEPT ![t] = n] /\ sLine' = e
    BY <1>7 DEF ServerProgresses, Counted, Notes, Relays
  <2>2. e.kind = "progress" /\ e.id = t /\ e.ref = n
    BY DEF Msg
  <2>3. counts[t] \in Nat /\ n \in Nat /\ n > counts[t] /\ counts'[t] = n
    BY <2>1 DEF PumpInv, TypeOK
  <2>4. \A t2 \in Tokens : t2 # t => counts'[t2] = counts[t2]
    BY <2>1 DEF PumpInv, TypeOK
  <2>5. Said("token", t)
    BY <2>1 DEF EchoInv
  <2>6. ASSUME NEW l \in Rng(toHost), l.kind = "progress"
        PROVE  /\ l.id \in Tokens /\ Said("token", l.id)
               /\ l.ref \in 1 .. counts'[l.id] /\ (l.id = t => l.ref < n)
    <3>1. l.id \in Tokens /\ Said("token", l.id) /\ l.ref \in 1 .. counts[l.id]
      BY <1>2, <2>6 DEF EchoInv
    <3>2. l.ref \in Nat /\ l.ref >= 1 /\ l.ref <= counts[l.id] /\ counts[l.id] \in Nat
      BY <3>1 DEF PumpInv, TypeOK
    <3>3. CASE l.id = t
      BY <2>3, <3>1, <3>2, <3>3
    <3>4. CASE l.id # t
      BY <2>4, <3>1, <3>4
    <3> QED
      BY <3>3, <3>4
  <2>7. \A l \in Out' : l.kind = "progress" =>
          l.id \in Tokens /\ Said("token", l.id) /\ l.ref \in 1 .. counts'[l.id]
    <3>1. e.ref \in 1 .. counts'[e.id]
      BY <2>2, <2>3
    <3> QED
      BY <1>2, <2>1, <2>2, <2>5, <2>6, <3>1
  <2>8. /\ \A l \in Reports(Rng(toHost), t) : l.ref < n
        /\ n = 1 \/ \E l \in Reports(Rng(toHost), t) : l.ref + 1 = n
    <3>1. counts[t] > 0 => \E l \in Reports(Rng(toHost), t) : l.ref = counts[t]
      BY <1>2 DEF EchoInv
    <3>2. n = 1 \/ \E l \in Reports(Rng(toHost), t) : l.ref + 1 = n
      BY <2>3, <3>1
    <3> QED
      BY <2>6, <3>2 DEF Reports
  <2>9. ASSUME NEW t2 \in Tokens, counts'[t2] > 0 PROVE \E l \in Reports(Out', t2) : l.ref = counts'[t2]
    <3>1. CASE t2 = t
      BY <1>2, <2>1, <2>2, <2>3, <3>1 DEF Reports
    <3>2. CASE t2 # t
      <4>1. PICK l \in Reports(Rng(toHost), t2) : l.ref = counts[t2]
        BY <1>2, <2>4, <2>9, <3>2 DEF EchoInv
      <4> QED
        BY <1>2, <2>4, <3>2, <4>1 DEF Reports
    <3> QED
      BY <3>1, <3>2
  <2>10. \A l \in Out' : l.kind = "updated" => Said("subscribe", l.id)
    BY <1>2, <2>1, <2>2 DEF EchoInv
  <2>11. /\ \A u \in subs : Said("subscribe", u)
         /\ \A t2 \in tokens : Said("token", t2)
         /\ Counting(toHost)
    BY DEF EchoInv
  <2>12. sLine'.kind = "progress" =>
           /\ \A l \in Reports(Rng(toHost), sLine'.id) : l.ref < sLine'.ref
           /\ sLine'.ref = 1 \/ \E l \in Reports(Rng(toHost), sLine'.id) : l.ref + 1 = sLine'.ref
    BY <2>1, <2>2, <2>8
  <2> QED
    BY <1>1, <2>7, <2>9, <2>10, <2>11, <2>12 DEF EchoInv, Said
<1> QED
  BY <1>4, <1>5, <1>6, <1>7 DEF ServerLine

LEMMA EchoNext == PumpInv /\ EchoInv /\ [Next]_vars => EchoInv'
<1> SUFFICES ASSUME PumpInv, EchoInv, [Next]_vars PROVE EchoInv'
  OBVIOUS
<1>1. CASE Drain \/ ServerDies \/ ReadHostEof \/ UNCHANGED vars
  <2>1. UNCHANGED <<toHost, sLine, counts, tokens, subs, said>>
    BY <1>1 DEF Drain, ServerDies, ReadHostEof, vars
  <2>2. Out' = Out
    BY <2>1 DEF Out
  <2> QED
    BY <2>1, <2>2 DEF EchoInv, Said, Counting
<1> QED
  BY <1>1, EchoHost, EchoWrite, EchoServer, EchoRelay DEF Next

\* A cursor of the server comes back to it as it wrote it and for the listing it
\* came with (_cursors), what its notifications name the host named first
\* (_remember_host_values), and a token's progress counts 1, 2, 3.
THEOREM Echoes == Spec => []EchoesAreOwn
<1> DEFINE Inv == PumpInv /\ RefusalInv /\ CursorInv /\ EchoInv
<1>1. Init => Inv
  BY PumpInit, RefusalInit, CursorInit, EchoInit
<1>2. Inv /\ [Next]_vars => Inv'
  BY PumpNext, RefusalNext, CursorNext, EchoNext
<1>3. Inv => EchoesAreOwn
  <2> SUFFICES ASSUME Inv PROVE CursorsRoundTrip /\ HostValuesOnly
    BY DEF EchoesAreOwn
  <2>1. /\ \A k : Kind(toServer, k) = {l \in Rng(toServer) : l.kind = k}
        /\ \A k : Kind(toHost, k) = {l \in Rng(toHost) : l.kind = k}
        /\ \A k : Kind(said, k) = {l \in Rng(said) : l.kind = k}
    BY KindFacts DEF PumpInv, TypeOK
  <2>2. ASSUME NEW b \in Kind(toHost, "badCursor"), NEW q \in Kind(toHost, "listing"), q.ref = b.of, q.id = b.id
        PROVE  FALSE
    <3>1. b.of \in Handles /\ cursors[b.of].id # b.id
      BY <2>1, <2>2 DEF CursorInv, Foreign
    <3>2. q \in Paged(Out)
      BY <2>1, <2>2, <3>1, HandleRef DEF Paged, Out
    <3> QED
      BY <2>2, <3>1, <3>2 DEF CursorInv
  <2>3. CursorsRoundTrip
    BY <2>1, <2>2 DEF CursorsRoundTrip, CursorInv, Backed, Paged
  <2>4. HostValuesOnly
    BY <2>1 DEF HostValuesOnly, EchoInv, Counting, Said, Out, Rng
  <2> QED
    BY <2>3, <2>4
<1> QED
  BY <1>1, <1>2, <1>3, PTL DEF Spec

=============================================================================
