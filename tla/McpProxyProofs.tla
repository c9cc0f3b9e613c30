--------------------------- MODULE McpProxyProofs ---------------------------
(***************************************************************************)
(* Proofs about McpProxy, for every policy, every set of options, every    *)
(* alphabet of host lines and of replies, and every bound.                 *)
(*                                                                         *)
(*   TypeCorrect    the types of the state                                 *)
(*   Disclosure     what a relayed line carries, MinimumDisclosure         *)
(*   DeniedStayOut  where a refused call cannot be, DeniedNeverRuns        *)
(*   AnsweredOnce   OneAnswerPerRequest                                    *)
(*   AuditHonest    AuditTellsTruth                                        *)
(*   Refines        ImplementsChannel, for unique request ids              *)
(*                                                                         *)
(* MinimumDisclosure speaks of lines already written; the reply on its way *)
(* to the host was popped from a table that c2s filled.  DisclosureInv     *)
(* therefore follows the entry of a call through the table, the hand of    *)
(* s2c and the line it is about to relay.  DeniedNeverRuns speaks of what  *)
(* reached the server and the host; between the judgement of c2s and       *)
(* either of them a call leaves traces in the table, the hand of s2c, the  *)
(* line on its way and the place of c2s itself, and DenialInv says that a  *)
(* denied call is in none of them.  For the answers a request is a token   *)
(* that the pumps hand on, from c2s to the table, from there to s2c, and   *)
(* from either pump to the host: AnswerInv says that it is in one of these *)
(* places at a time, whatever id it bears and however often the server     *)
(* answers; only Refines needs that the host does not use an id twice.     *)
(* The audit is written between the judgement of a line and its relay, so  *)
(* AuditInv says what stands there of the lines each pump holds, and that  *)
(* the event about a request is written while no other of its kind is.     *)
(***************************************************************************)
EXTENDS McpProxy, TLAPS

-----------------------------------------------------------------------------
(* The values the actions build.                                            *)

\* A refusal has one of the reasons an event may bear.
LEMMA RefusalType ==
  ASSUME NEW l \in Line
  PROVE  Refusal(l) \in Reasons \cup {None}
<1>1. ArgumentRefusal(l) \in Reasons \cup {None}
  BY Zenon DEF ArgumentRefusal, ArgumentsUnchecked, Reasons
<1> QED
  BY <1>1, Zenon DEF Refusal, Reasons

\* Whatever filtering does, it adds nothing to what the server wrote.
LEMMA ProjectionType ==
  ASSUME NEW l, NEW body \in SUBSET Carriers, NEW broken
  PROVE  Projection(l, body, broken) \in SUBSET body
BY DEF Projection, Approved, FieldRule

LEMMA EventTypes ==
  ASSUME NEW n \in Numbers
  PROVE  /\ \A r \in Reasons : Deny(n, r) \in AuditEvent
         /\ \A body, broken : GatedEvent(n, body, broken) \in AuditEvent
         /\ InterfaceEvent(n) \in AuditEvent
<1>1. ASSUME NEW d \in {"allow", "deny"}, NEW r \in Reasons \cup {None},
             NEW o \in {"protected", "access_reduced", "blocked", None}
      PROVE  Event(n, d, o, r) \in AuditEvent
  BY <1>1 DEF Event, AuditEvent
<1>2. ASSUME NEW body, NEW broken
      PROVE  GatedEvent(n, body, broken) \in AuditEvent
  <2> DEFINE blocked == Blocked(asked[n], body, broken)
             unfiltered == Unfiltered(asked[n], body)
             outcome == IF blocked THEN "access_reduced"
                        ELSE IF unfiltered THEN None ELSE "protected"
             reason == IF DeclaredOverride(asked[n])
                       THEN "declared_purpose_override"
                       ELSE IF unfiltered THEN "unfiltered_passthrough"
                       ELSE IF blocked THEN "minimum_disclosure" ELSE None
  <2>1. outcome \in {"protected", "access_reduced", "blocked", None}
    BY Zenon
  <2>2. reason \in Reasons \cup {None}
    BY Zenon DEF Reasons
  <2>3. GatedEvent(n, body, broken) = Event(n, "allow", outcome, reason)
    BY Zenon DEF GatedEvent
  <2> HIDE DEF outcome, reason
  <2> QED
    BY <1>1, <2>1, <2>2, <2>3
<1>3. InterfaceEvent(n) \in AuditEvent
  BY <1>1 DEF InterfaceEvent, Reasons
<1>4. ASSUME NEW r \in Reasons PROVE Deny(n, r) \in AuditEvent
  BY <1>1 DEF Deny
<1> QED
  BY <1>2, <1>3, <1>4

LEMMA LogEventType == LogEvent \in AuditEvent
<1>1. 0 \in Numbers
  BY ModeAssumption DEF Numbers, ModeAssumption, StartOptions
<1> QED
  BY <1>1 DEF LogEvent, Event, AuditEvent, Reasons

LEMMA EmitType ==
  ASSUME audit \in Seq(AuditEvent), NEW e \in AuditEvent, Emit(e)
  PROVE  audit' \in Seq(AuditEvent)
BY DEF Emit

LEMMA ToHostType ==
  ASSUME NEW n \in Numbers, NEW i \in Ids \cup {NullId},
         NEW k \in {"none", "blocked", "error", "result", "log"},
         NEW body \in SUBSET Carriers, NEW raw \in SUBSET Carriers
  PROVE  ToHost(n, i, k, body, raw) \in HostLine
BY DEF ToHost, HostLine

-----------------------------------------------------------------------------

LEMMA TypeInit == Init => TypeOK
<1> USE ModeAssumption, HostAssumption
<1>1. NoLine \in HostLine
  BY ToHostType DEF NoLine, Numbers, ModeAssumption, StartOptions
<1>2. NoReply \in [id : Ids \cup {NullId}, body : SUBSET Carriers]
  BY DEF NoReply
<1> QED
  BY <1>1, <1>2 DEF Init, TypeOK, Numbers, ModeAssumption, StartOptions

LEMMA PopType ==
  ASSUME TypeOK, NEW r \in [id : Ids \cup {NullId}, body : SUBSET Carriers],
         Pop(r)
  PROVE  /\ pending' \in [Ids -> Numbers]
         /\ hit' \in Numbers
         /\ rep' = r /\ s2c' = "judge"
BY ModeAssumption DEF Pop, Popped, TypeOK, Numbers, ModeAssumption, StartOptions

LEMMA TypeNext == TypeOK /\ [Next]_vars => TypeOK'
<1> USE ModeAssumption, HostAssumption
<1> SUFFICES ASSUME TypeOK, [Next]_vars
             PROVE  TypeOK'
  OBVIOUS
<1>1. ASSUME NEW l \in HostLines, ReadRefused(l)
      PROVE  TypeOK'
  <2>1. l \in Line /\ Len(asked) + 1 \in Numbers
    BY <1>1 DEF HostAssumption, ReadRefused, MayWrite, TypeOK, Numbers, ModeAssumption, StartOptions
  <2>2. audit' \in Seq(AuditEvent)
    BY <1>1, <2>1, RefusalType, EventTypes, EmitType DEF ReadRefused, TypeOK
  <2>3. /\ asked' \in Seq(Line) /\ Len(asked') = Len(asked) + 1
        /\ Len(asked') <= MaxAsked
    BY <1>1, <2>1 DEF ReadRefused, MayWrite, TypeOK
  <2> QED
    BY <1>1, <2>2, <2>3
    DEF ReadRefused, AfterRefusal, TypeOK, Current, locals
<1>2. ASSUME NEW l \in HostLines, ReadAdmitted(l)
      PROVE  TypeOK'
  <2>1. l \in Line
    BY DEF HostAssumption
  <2>2. /\ asked' \in Seq(Line) /\ Len(asked') = Len(asked) + 1
        /\ Len(asked') <= MaxAsked
    BY <1>2, <2>1 DEF ReadAdmitted, MayWrite, TypeOK
  <2>3. c2s' \in {"forward", "gate", "remember", "badCursor"}
    BY <1>2 DEF ReadAdmitted, AfterAdmission
  <2> QED
    BY <1>2, <2>2, <2>3 DEF ReadAdmitted, TypeOK, Current, locals
<1>3. ASSUME GateGrants PROVE TypeOK'
  BY <1>3 DEF GateGrants, TypeOK, Current, locals, records
<1>4. ASSUME GateRefuses PROVE TypeOK'
  <2>1. Current \in Numbers
    BY DEF Current, TypeOK, Numbers, ModeAssumption, StartOptions
  <2>2. audit' \in Seq(AuditEvent) /\ c2s' = "block"
    BY <1>4, <2>1, EventTypes, EmitType
    DEF GateRefuses, GateReasons, AfterRefusal, Reasons, TypeOK
  <2> QED
    BY <1>4, <2>2 DEF GateRefuses, TypeOK, Current, locals
<1>5. ASSUME Remember PROVE TypeOK'
  BY <1>5 DEF Remember, TypeOK, Current, Numbers, locals, records, ModeAssumption, StartOptions
<1>6. ASSUME Forward PROVE TypeOK'
  <2>1. Current \in 1 .. Len(asked)
    BY <1>6 DEF Forward, TypeOK, Current
  <2> QED
    BY <1>6, <2>1 DEF Forward, TypeOK, locals
<1>7. ASSUME ForwardBroken \/ ReadHostEof PROVE TypeOK'
  BY <1>7 DEF ForwardBroken, ReadHostEof, TypeOK, Current, locals, records
<1>8. ASSUME Answer PROVE TypeOK'
  <2>1. toHost' \in Seq(HostLine)
    <3> DEFINE id == IF IsRequest(asked[Current]) THEN asked[Current].id
                     ELSE NullId
               kind == IF c2s = "block" THEN "blocked" ELSE "error"
    <3>1. Current \in Numbers /\ asked[Current] \in Line
      BY <1>8 DEF Answer, Current, TypeOK, Numbers, ModeAssumption, StartOptions
    <3>2. id \in Ids \cup {NullId}
      BY <3>1 DEF Line
    <3>3. kind \in {"none", "blocked", "error", "result", "log"}
      OBVIOUS
    <3>4. \/ UNCHANGED toHost
          \/ toHost' = Append(toHost, ToHost(Current, id, kind, {}, {}))
      BY <1>8, Zenon DEF Answer
    <3> HIDE DEF id, kind
    <3>5. ToHost(Current, id, kind, {}, {}) \in HostLine
      BY <3>1, <3>2, <3>3, ToHostType
    <3>6. toHost \in Seq(HostLine)
      BY DEF TypeOK
    <3> QED
      BY <3>4, <3>5, <3>6
  <2> QED
    BY <1>8, <2>1 DEF Answer, TypeOK, Current, locals
<1>9. ASSUME NEW n \in ran, NEW b \in Bodies, ServerAnswers(n, b)
      PROVE  TypeOK'
  <2> DEFINE r == [id |-> asked[n].id, body |-> b]
  <2>1. r \in [id : Ids \cup {NullId}, body : SUBSET Carriers]
    <3>1. asked[n] \in Line
      BY DEF TypeOK
    <3> QED
      BY <3>1 DEF Line, HostAssumption
  <2>2. Pop(r)
    BY <1>9 DEF ServerAnswers
  <2> HIDE DEF r
  <2>3. /\ pending' \in [Ids -> Numbers]
        /\ hit' \in Numbers
        /\ rep' = r /\ s2c' = "judge"
    BY <2>1, <2>2, PopType
  <2> QED
    BY <1>9, <2>1, <2>2, <2>3 DEF ServerAnswers, Pop, TypeOK, Current
<1>10. ASSUME NEW i \in Ids \cup {NullId}, NEW b \in Bodies, ServerStray(i, b)
       PROVE  TypeOK'
  <2> DEFINE r == [id |-> i, body |-> b]
  <2>1. r \in [id : Ids \cup {NullId}, body : SUBSET Carriers]
    BY DEF HostAssumption
  <2>2. Pop(r)
    BY <1>10 DEF ServerStray
  <2> HIDE DEF r
  <2>3. /\ pending' \in [Ids -> Numbers]
        /\ hit' \in Numbers
        /\ rep' = r /\ s2c' = "judge"
    BY <2>1, <2>2, PopType
  <2> QED
    BY <1>10, <2>1, <2>2, <2>3
    DEF ServerStray, Pop, TypeOK, Current, ModeAssumption, StartOptions
<1>11. ASSUME NEW b \in Bodies, ServerLogs(b) PROVE TypeOK'
  <2>1. audit' \in Seq(AuditEvent)
    BY <1>11, LogEventType, EmitType DEF ServerLogs, TypeOK
  <2>2. ToHost(0, NullId, "log", b, b) \in HostLine
    BY ToHostType DEF HostAssumption, Numbers, ModeAssumption, StartOptions
  <2>3. out' \in HostLine /\ s2c' \in {"read", "relay"}
    BY <1>11, <2>2 DEF ServerLogs, TypeOK
  <2>4. noise' \in 0 .. MaxNoise
    BY <1>11 DEF ServerLogs, TypeOK, ModeAssumption, StartOptions
  <2> QED
    BY <1>11, <2>1, <2>3, <2>4 DEF ServerLogs, TypeOK, Current
<1>12. ASSUME JudgeUnmatched PROVE TypeOK'
  <2>1. audit' \in Seq(AuditEvent)
    BY <1>12, EventTypes, EmitType
    DEF JudgeUnmatched, Reasons, Numbers, ModeAssumption, StartOptions, TypeOK
  <2>2. NoLine \in HostLine
    BY ToHostType DEF NoLine, Numbers, ModeAssumption, StartOptions
  <2>3. NoReply \in [id : Ids \cup {NullId}, body : SUBSET Carriers]
    BY DEF NoReply
  <2> QED
    BY <1>12, <2>1, <2>2, <2>3
    DEF JudgeUnmatched, Rested, TypeOK, Current, Numbers, ModeAssumption, StartOptions
<1>13. ASSUME JudgeGated PROVE TypeOK'
  <2>1. PICK broken :
          /\ out' = ToHost(hit, rep.id, "result",
                           Projection(asked[hit], rep.body, broken), rep.body)
          /\ Emit(GatedEvent(hit, rep.body, broken))
    BY <1>13 DEF JudgeGated
  <2>2. audit' \in Seq(AuditEvent)
    BY <2>1, EventTypes, EmitType DEF TypeOK
  <2>3. rep.id \in Ids \cup {NullId} /\ rep.body \in SUBSET Carriers
    BY DEF TypeOK
  <2>4. out' \in HostLine
    BY <2>1, <2>3, ProjectionType, ToHostType DEF TypeOK
  <2> QED
    BY <1>13, <2>2, <2>4 DEF JudgeGated, LogArmed, TypeOK, Current
<1>14. ASSUME JudgeInterface PROVE TypeOK'
  <2>1. audit' \in Seq(AuditEvent)
    BY <1>14, EventTypes, EmitType DEF JudgeInterface, TypeOK
  <2>2. rep.id \in Ids \cup {NullId} /\ rep.body \in SUBSET Carriers
    BY DEF TypeOK
  <2>3. Projection(asked[hit], rep.body, FALSE) \in SUBSET Carriers
    BY <2>2, ProjectionType
  <2>4. ToHost(hit, rep.id, "result", Projection(asked[hit], rep.body, FALSE),
               rep.body) \in HostLine
    BY <2>2, <2>3, ToHostType DEF TypeOK
  <2>5. out' \in HostLine /\ s2c' \in {"relay", "dead"}
    BY <1>14, <2>4 DEF JudgeInterface, TypeOK
  <2> QED
    BY <1>14, <2>1, <2>5 DEF JudgeInterface, TypeOK, Current
<1>15. ASSUME JudgePlain PROVE TypeOK'
  <2>1. audit' \in Seq(AuditEvent)
    BY <1>15, EventTypes, EmitType DEF JudgePlain, Reasons, TypeOK
  <2>2. rep.id \in Ids \cup {NullId} /\ rep.body \in SUBSET Carriers
    BY DEF TypeOK
  <2>3. (IF PassUninspected THEN rep.body \cap Opaque ELSE {})
          \in SUBSET Carriers
    BY <2>2
  <2>4. /\ ToHost(hit, rep.id, "result", {}, rep.body) \in HostLine
        /\ ToHost(hit, rep.id, "error", {}, rep.body) \in HostLine
        /\ ToHost(hit, rep.id, "error",
                  IF PassUninspected THEN rep.body \cap Opaque ELSE {},
                  rep.body) \in HostLine
    BY <2>2, <2>3, ToHostType DEF TypeOK
  <2>5. out' \in HostLine
    BY <1>15, <2>4 DEF JudgePlain
  <2> QED
    BY <1>15, <2>1, <2>5 DEF JudgePlain, TypeOK, Current
<1>16. ASSUME Relay PROVE TypeOK'
  <2>1. NoLine \in HostLine
    BY ToHostType DEF NoLine, Numbers, ModeAssumption, StartOptions
  <2>2. NoReply \in [id : Ids \cup {NullId}, body : SUBSET Carriers]
    BY DEF NoReply
  <2>3. toHost' \in Seq(HostLine) /\ s2c' \in {"dead", "read"}
    <3>1. toHost \in Seq(HostLine) /\ out \in HostLine
      BY DEF TypeOK
    <3> QED
      BY <1>16, <3>1 DEF Relay
  <2>4. hit' \in Numbers
    BY <1>16 DEF Relay, Rested, Numbers, ModeAssumption, StartOptions
  <2> QED
    BY <1>16, <2>1, <2>2, <2>3, <2>4 DEF Relay, Rested, TypeOK, Current
<1>17. ASSUME ReadServerEof \/ JoinC2S \/ Exit PROVE TypeOK'
  <2>1. CASE ReadServerEof
    BY <2>1 DEF ReadServerEof, TypeOK, Current, locals, records
  <2>2. CASE JoinC2S
    BY <2>2 DEF JoinC2S, TypeOK, Current, locals, records
  <2>3. CASE Exit
    BY <2>3 DEF Exit, TypeOK, Current, locals, records
  <2> QED
    BY <1>17, <2>1, <2>2, <2>3
<1>18. ASSUME HostCloses \/ HostDies \/ ServerDies PROVE TypeOK'
  <2>1. CASE HostCloses
    BY <2>1 DEF HostCloses, TypeOK, Current, locals, records
  <2>2. CASE HostDies
    BY <2>2 DEF HostDies, TypeOK, Current, locals, records
  <2>3. CASE ServerDies
    BY <2>3 DEF ServerDies, TypeOK, Current, locals, records
  <2> QED
    BY <1>18, <2>1, <2>2, <2>3
<1>19. ASSUME UNCHANGED vars PROVE TypeOK'
  BY <1>19 DEF vars, TypeOK, Current
<1> QED
  BY <1>1, <1>2, <1>3, <1>4, <1>5, <1>6, <1>7, <1>8, <1>9, <1>10, <1>11, <1>12,
     <1>13, <1>14, <1>15, <1>16, <1>17, <1>18, <1>19
  DEF Next, C2SPump, C2SJudges, S2CPump, S2CJudges, Exited

\* In every behaviour the state has its types (McpProxy!TypeOK).
THEOREM TypeCorrect == Spec => []TypeOK
<1> QED
  BY TypeInit, TypeNext, PTL DEF Spec

-----------------------------------------------------------------------------
(* Minimum disclosure: the way of an admitted request through the proxy.    *)

\* Request n bears id i and the proxy did not refuse it.
Admitted(n, i) ==
  /\ n \in DOMAIN asked
  /\ IsRequest(asked[n]) /\ asked[n].id = i
  /\ Refusal(asked[n]) = None

\* What c2s is about to record was admitted;
Recording == c2s \in {"gate", "remember"} =>
               IsRequest(asked[Current]) /\ Refusal(asked[Current]) = None
\* every entry of the table is an admitted request under its own id;
Recorded  == \A i \in Ids : pending[i] # 0 => Admitted(pending[i], i)
\* so is the entry popped for the reply that s2c judges;
InHand    == s2c = "judge" /\ hit # 0 => Admitted(hit, rep.id)
\* and the line s2c is about to write carries no more than that permits.
OnItsWay  == s2c = "relay" /\ out.id \in Ids => Covered(out)

DisclosureInv ==
  TypeOK /\ Recording /\ Recorded /\ InHand /\ OnItsWay /\ MinimumDisclosure

\* A reply to an admitted request releases no more than the request permits,
\* whatever the server wrote and whether or not the filter failed.
LEMMA ProjectionPermitted ==
  ASSUME NEW l, NEW body \in SUBSET Carriers, NEW broken,
         Refusal(l) = None
  PROVE  Projection(l, body, broken) \subseteq Permitted(l)
BY DEF Projection, Approved, Permitted, FieldRule

\* What was read stays read: a new line of the host takes nothing away.
LEMMA HistoryGrows ==
  ASSUME asked \in Seq(Line), NEW l \in Line,
         asked' = Append(asked, l) \/ UNCHANGED asked
  PROVE  /\ \A n, i : Admitted(n, i) => Admitted(n, i)'
         /\ \A o : Covered(o) => Covered(o)'
<1>1. \A n \in DOMAIN asked : n \in DOMAIN asked' /\ asked'[n] = asked[n]
  OBVIOUS
<1>2. ASSUME NEW n, NEW i, Admitted(n, i) PROVE Admitted(n, i)'
  BY <1>1, <1>2 DEF Admitted
<1>3. ASSUME NEW o, Covered(o) PROVE Covered(o)'
  BY <1>1, <1>3 DEF Covered
<1> QED
  BY <1>2, <1>3

LEMMA DisclosureInit == Init => DisclosureInv
BY TypeInit
DEF Init, DisclosureInv, Recording, Recorded, InHand, OnItsWay,
    MinimumDisclosure

\* Steps that leave the streams, the table and the hand of s2c alone.
LEMMA DisclosureIdle ==
  ASSUME DisclosureInv, TypeOK',
         UNCHANGED <<asked, pending, hit, rep, out, toHost>>,
         s2c' = s2c \/ s2c' \in {"read", "closed", "dead"},
         c2s' \in {"gate", "remember"} => c2s \in {"gate", "remember"}
  PROVE  DisclosureInv'
<1>1. \A n, i : Admitted(n, i) => Admitted(n, i)'
  BY DEF Admitted
<1>2. \A o : Covered(o) => Covered(o)'
  BY DEF Covered
<1>3. Recording'
  BY DEF DisclosureInv, Recording, Current
<1>4. Recorded' /\ InHand'
  BY <1>1 DEF DisclosureInv, Recorded, InHand
<1>5. OnItsWay' /\ MinimumDisclosure'
  BY <1>2 DEF DisclosureInv, OnItsWay, MinimumDisclosure
<1> QED
  BY <1>3, <1>4, <1>5 DEF DisclosureInv

\* A new line of the host: it may be on its way to be recorded.
LEMMA DisclosureRead ==
  ASSUME DisclosureInv, TypeOK', NEW l \in Line,
         asked' = Append(asked, l),
         UNCHANGED <<pending, hit, rep, out, toHost, s2c>>,
         c2s' \in {"gate", "remember"} => IsRequest(l) /\ Refusal(l) = None
  PROVE  DisclosureInv'
<1>1. asked \in Seq(Line)
  BY DEF DisclosureInv, TypeOK
<1>2. /\ \A n, i : Admitted(n, i) => Admitted(n, i)'
      /\ \A o : Covered(o) => Covered(o)'
  BY <1>1, HistoryGrows
<1>3. Recording'
  BY <1>1 DEF Recording, Current
<1>4. Recorded' /\ InHand'
  BY <1>2 DEF DisclosureInv, Recorded, InHand
<1>5. OnItsWay' /\ MinimumDisclosure'
  BY <1>2 DEF DisclosureInv, OnItsWay, MinimumDisclosure
<1> QED
  BY <1>3, <1>4, <1>5 DEF DisclosureInv

\* A reply read from the server takes the entry it names, and only that.
LEMMA DisclosurePop ==
  ASSUME DisclosureInv, TypeOK', UNCHANGED asked,
         NEW r \in [id : Ids \cup {NullId}, body : SUBSET Carriers], Pop(r)
  PROVE  DisclosureInv'
<1>1. \A n, i : Admitted(n, i) => Admitted(n, i)'
  BY DEF Admitted
<1>2. \A o : Covered(o) => Covered(o)'
  BY DEF Covered
<1>3. Recording'
  BY DEF DisclosureInv, Recording, Current, Pop
<1>4. Recorded'
  <2>1. \A i \in Ids : pending'[i] \in {0, pending[i]}
    BY DEF Pop, Popped, DisclosureInv, TypeOK
  <2> QED
    BY <1>1, <2>1 DEF DisclosureInv, Recorded
<1>5. InHand'
  <2> SUFFICES ASSUME hit' # 0 PROVE Admitted(hit, rep.id)'
    BY DEF InHand
  <2>1. r.id \in Ids /\ hit' = pending[r.id] /\ rep' = r
    BY DEF Pop
  <2>2. Admitted(hit', r.id)
    BY <2>1 DEF DisclosureInv, Recorded
  <2> QED
    BY <2>1, <2>2 DEF Admitted
<1>6. OnItsWay' /\ MinimumDisclosure'
  BY <1>2 DEF DisclosureInv, OnItsWay, MinimumDisclosure, Pop
<1> QED
  BY <1>3, <1>4, <1>5, <1>6 DEF DisclosureInv

\* A line is put on its way: it has to be covered.
LEMMA DisclosureJudge ==
  ASSUME DisclosureInv, TypeOK',
         UNCHANGED <<asked, pending, hit, rep, toHost, c2s>>,
         s2c' = "relay", out'.id \in Ids => Covered(out')
  PROVE  DisclosureInv'
<1>1. \A n, i : Admitted(n, i) => Admitted(n, i)'
  BY DEF Admitted
<1>2. \A o : Covered(o) => Covered(o)'
  BY DEF Covered
<1>3. Recording'
  BY DEF DisclosureInv, Recording, Current
<1>4. Recorded' /\ InHand'
  BY <1>1 DEF DisclosureInv, Recorded, InHand
<1>5. OnItsWay'
  BY DEF OnItsWay, Covered
<1>6. MinimumDisclosure'
  BY <1>2 DEF DisclosureInv, MinimumDisclosure
<1> QED
  BY <1>3, <1>4, <1>5, <1>6 DEF DisclosureInv

\* A line is written to the host: it was covered.
LEMMA DisclosureWrite ==
  ASSUME DisclosureInv, TypeOK', UNCHANGED <<asked, pending>>,
         NEW o \in HostLine, toHost' = Append(toHost, o),
         o.id \in Ids => Covered(o)
  PROVE  MinimumDisclosure'
<1>1. ASSUME NEW x, Covered(x) PROVE Covered(x)'
  BY <1>1 DEF Covered
<1>2. toHost \in Seq(HostLine)
  BY DEF DisclosureInv, TypeOK
<1>3. ASSUME NEW k \in DOMAIN toHost', toHost'[k].id \in Ids
      PROVE  Covered(toHost'[k])
  <2>1. CASE k \in DOMAIN toHost
    <3>1. toHost'[k] = toHost[k]
      BY <1>2, <2>1
    <3> QED
      BY <1>3, <2>1, <3>1 DEF DisclosureInv, MinimumDisclosure
  <2>2. CASE k \notin DOMAIN toHost
    <3>1. toHost'[k] = o
      BY <1>2, <1>3, <2>2
    <3> QED
      BY <1>3, <3>1
  <2> QED
    BY <2>1, <2>2
<1> QED
  BY <1>1, <1>3 DEF MinimumDisclosure, Covered

LEMMA DisclosureNext == DisclosureInv /\ [Next]_vars => DisclosureInv'
<1> SUFFICES ASSUME DisclosureInv, [Next]_vars
             PROVE  DisclosureInv'
  OBVIOUS
<1>0. TypeOK /\ TypeOK'
  BY TypeNext DEF DisclosureInv
<1>1. ASSUME NEW l \in HostLines, ReadRefused(l) PROVE DisclosureInv'
  <2>1. l \in Line
    BY HostAssumption DEF HostAssumption
  <2> QED
    BY <1>0, <1>1, <2>1, DisclosureRead DEF ReadRefused, AfterRefusal, locals
<1>2. ASSUME NEW l \in HostLines, ReadAdmitted(l) PROVE DisclosureInv'
  <2>1. l \in Line
    BY HostAssumption DEF HostAssumption
  <2>2. c2s' \in {"gate", "remember"} => IsRequest(l)
    <3>1. l.kind = "batch" => Refusal(l) # None
      BY PolicyAssumption DEF PolicyAssumption, LoadedPolicy, LoadedPurposes, LoadedRules, Reasons, Refusal
    <3> QED
      BY <1>2, <3>1 DEF ReadAdmitted, AfterAdmission, IsRequest
  <2> QED
    BY <1>0, <1>2, <2>1, <2>2, DisclosureRead DEF ReadAdmitted, locals
<1>3. ASSUME GateGrants PROVE DisclosureInv'
  BY <1>0, <1>3, DisclosureIdle DEF GateGrants, locals, records
<1>4. ASSUME GateRefuses PROVE DisclosureInv'
  BY <1>0, <1>4, DisclosureIdle DEF GateRefuses, AfterRefusal, locals
<1>5. ASSUME Remember PROVE DisclosureInv'
  <2>1. UNCHANGED <<asked, hit, rep, out, toHost, s2c>>
    BY <1>5 DEF Remember, locals, records
  <2>2. Current \in DOMAIN asked
    BY <1>0, <1>5 DEF Remember, TypeOK, Current
  <2>3. Recorded'
    <3> SUFFICES ASSUME NEW i \in Ids, pending'[i] # 0
                 PROVE  Admitted(pending[i], i)'
      BY DEF Recorded
    <3>1. CASE asked[Current].id = i /\ pending'[i] = Current
      BY <1>5, <2>1, <2>2, <3>1 DEF DisclosureInv, Recording, Remember, Admitted
    <3>2. CASE pending'[i] = pending[i]
      BY <2>1, <3>2 DEF DisclosureInv, Recorded, Admitted
    <3> QED
      BY <1>0, <1>5, <3>1, <3>2 DEF Remember, TypeOK
  <2>4. InHand' /\ OnItsWay' /\ MinimumDisclosure'
    BY <2>1
    DEF DisclosureInv, InHand, OnItsWay, MinimumDisclosure, Admitted, Covered
  <2>5. Recording'
    BY <1>5 DEF Remember, Recording
  <2> QED
    BY <1>0, <2>3, <2>4, <2>5 DEF DisclosureInv
<1>6. ASSUME Forward PROVE DisclosureInv'
  BY <1>0, <1>6, DisclosureIdle DEF Forward, locals
<1>7. ASSUME ForwardBroken \/ ReadHostEof PROVE DisclosureInv'
  BY <1>0, <1>7, DisclosureIdle DEF ForwardBroken, ReadHostEof, locals, records
<1>8. ASSUME Answer PROVE DisclosureInv'
  <2>1. UNCHANGED <<asked, pending, hit, rep, out, s2c>> /\ c2s' \in {"dead", "read"}
    BY <1>8 DEF Answer, locals
  <2>2. CASE UNCHANGED toHost
    BY <1>0, <2>1, <2>2, DisclosureIdle
  <2>3. CASE host # "gone"
    <3> DEFINE id == IF IsRequest(asked[Current]) THEN asked[Current].id
                     ELSE NullId
               o == ToHost(Current, id, IF c2s = "block" THEN "blocked" ELSE "error",
                           {}, {})
    <3>1. Current \in DOMAIN asked
      BY <1>0, <1>8 DEF Answer, TypeOK, Current
    <3>2. o.id = id /\ o.body = {}
      BY DEF ToHost
    <3>3. o.id \in Ids => Covered(o)
      BY <3>1, <3>2, HostAssumption DEF Covered, HostAssumption
    <3>4. o \in HostLine
      <4>1. Current \in Numbers /\ asked[Current] \in Line
        BY <1>0, <3>1, ModeAssumption DEF TypeOK, Current, Numbers, ModeAssumption, StartOptions
      <4>2. id \in Ids \cup {NullId}
        BY <4>1 DEF Line
      <4>3. (IF c2s = "block" THEN "blocked" ELSE "error")
              \in {"none", "blocked", "error", "result", "log"}
        OBVIOUS
      <4> HIDE DEF id
      <4> QED
        BY <4>1, <4>2, <4>3, ToHostType
    <3>5. toHost' = Append(toHost, o)
      BY <1>8, <2>3, Zenon DEF Answer
    <3> HIDE DEF o
    <3>6. MinimumDisclosure'
      BY <1>0, <2>1, <3>3, <3>4, <3>5, DisclosureWrite
    <3>7. Recording' /\ Recorded' /\ InHand' /\ OnItsWay'
      BY <2>1
      DEF DisclosureInv, Recording, Recorded, InHand, OnItsWay, Admitted, Covered
    <3> QED
      BY <1>0, <3>6, <3>7 DEF DisclosureInv
  <2> QED
    BY <1>8, <2>2, <2>3 DEF Answer
<1>9. ASSUME NEW n \in ran, NEW b \in Bodies, ServerAnswers(n, b)
      PROVE  DisclosureInv'
  <2>1. asked[n] \in Line
    BY <1>0 DEF TypeOK
  <2>2. [id |-> asked[n].id, body |-> b] \in [id : Ids \cup {NullId}, body : SUBSET Carriers]
    BY <2>1, HostAssumption DEF Line, HostAssumption
  <2>3. UNCHANGED asked
    BY <1>9 DEF ServerAnswers, Pop
  <2> QED
    BY <1>0, <1>9, <2>2, <2>3, DisclosurePop DEF ServerAnswers
<1>10. ASSUME NEW i \in Ids \cup {NullId}, NEW b \in Bodies, ServerStray(i, b)
       PROVE  DisclosureInv'
  <2>1. [id |-> i, body |-> b] \in [id : Ids \cup {NullId}, body : SUBSET Carriers]
    BY HostAssumption DEF HostAssumption
  <2>2. UNCHANGED asked
    BY <1>10 DEF ServerStray, Pop
  <2> QED
    BY <1>0, <1>10, <2>1, <2>2, DisclosurePop DEF ServerStray
<1>11. ASSUME NEW b \in Bodies, ServerLogs(b) PROVE DisclosureInv'
  <2>1. UNCHANGED <<asked, pending, hit, rep, toHost, c2s>>
    BY <1>11 DEF ServerLogs
  <2>2. CASE UNCHANGED <<out, s2c>>
    BY <1>0, <2>1, <2>2, DisclosureIdle
  <2>3. CASE s2c' = "relay" /\ out' = ToHost(0, NullId, "log", b, b)
    <3>1. out'.id \notin Ids
      BY <2>3, HostAssumption DEF ToHost, HostAssumption
    <3> QED
      BY <1>0, <2>1, <2>3, <3>1, DisclosureJudge
  <2> QED
    BY <1>11, <2>2, <2>3 DEF ServerLogs
<1>12. ASSUME JudgeUnmatched \/ Relay PROVE DisclosureInv'
  <2>1. UNCHANGED <<asked, pending, c2s>> /\ s2c' \in {"read", "dead"}
    BY <1>12 DEF JudgeUnmatched, Relay
  <2>2. MinimumDisclosure'
    <3>1. CASE UNCHANGED toHost
      BY <2>1, <3>1 DEF DisclosureInv, MinimumDisclosure, Covered
    <3>2. CASE Relay /\ toHost' = Append(toHost, out)
      <4>1. out \in HostLine /\ (out.id \in Ids => Covered(out))
        BY <1>0, <3>2 DEF Relay, DisclosureInv, OnItsWay, TypeOK
      <4> QED
        BY <1>0, <2>1, <3>2, <4>1, DisclosureWrite
    <3> QED
      BY <1>12, <3>1, <3>2 DEF JudgeUnmatched, Relay
  <2>3. Recording' /\ Recorded' /\ InHand' /\ OnItsWay'
    BY <2>1 DEF DisclosureInv, Recording, Recorded, InHand, OnItsWay, Current, Admitted
  <2> QED
    BY <1>0, <2>2, <2>3 DEF DisclosureInv
<1>13. ASSUME JudgeGated PROVE DisclosureInv'
  <2>1. PICK broken :
          out' = ToHost(hit, rep.id, "result",
                        Projection(asked[hit], rep.body, broken), rep.body)
    BY <1>13 DEF JudgeGated
  <2>2. UNCHANGED <<asked, pending, hit, rep, toHost, c2s>> /\ s2c' = "relay"
    BY <1>13 DEF JudgeGated
  <2>3. Admitted(hit, rep.id)
    BY <1>13 DEF JudgeGated, DisclosureInv, InHand
  <2>4. Projection(asked[hit], rep.body, broken) \subseteq Permitted(asked[hit])
    BY <1>0, <2>3, ProjectionPermitted DEF Admitted, TypeOK
  <2>5. Covered(out')
    BY <2>1, <2>3, <2>4 DEF Admitted, Covered, ToHost
  <2> QED
    BY <1>0, <2>2, <2>5, DisclosureJudge
<1>14. ASSUME JudgeInterface PROVE DisclosureInv'
  <2>1. UNCHANGED <<asked, pending, hit, rep, toHost, c2s>>
    BY <1>14 DEF JudgeInterface
  <2>2. CASE s2c' = "dead" /\ UNCHANGED out
    BY <1>0, <2>1, <2>2, DisclosureIdle
  <2>3. CASE /\ s2c' = "relay"
             /\ out' = ToHost(hit, rep.id, "result",
                              Projection(asked[hit], rep.body, FALSE), rep.body)
    <3>1. Admitted(hit, rep.id)
      BY <1>14 DEF JudgeInterface, DisclosureInv, InHand
    <3>2. Projection(asked[hit], rep.body, FALSE) \subseteq Permitted(asked[hit])
      BY <1>0, <3>1, ProjectionPermitted DEF Admitted, TypeOK
    <3>3. Covered(out')
      BY <2>3, <3>1, <3>2 DEF Admitted, Covered, ToHost
    <3> QED
      BY <1>0, <2>1, <2>3, <3>3, DisclosureJudge
  <2> QED
    BY <1>14, <2>2, <2>3 DEF JudgeInterface
<1>15. ASSUME JudgePlain PROVE DisclosureInv'
  <2>1. UNCHANGED <<asked, pending, hit, rep, toHost, c2s>> /\ s2c' = "relay"
    BY <1>15 DEF JudgePlain
  <2>2. Admitted(hit, rep.id)
    BY <1>15 DEF JudgePlain, DisclosureInv, InHand
  <2>3. /\ {} \subseteq Permitted(asked[hit])
        /\ (IF PassUninspected THEN rep.body \cap Opaque ELSE {})
             \subseteq Permitted(asked[hit])
    BY <2>2 DEF Admitted, Permitted
  <2>4. out'.id = rep.id /\ out'.body \subseteq Permitted(asked[hit])
    BY <1>15, <2>3 DEF JudgePlain, ToHost
  <2>5. Covered(out')
    BY <2>2, <2>4 DEF Admitted, Covered
  <2> QED
    BY <1>0, <2>1, <2>5, DisclosureJudge
<1>16. ASSUME ReadServerEof \/ JoinC2S \/ Exit PROVE DisclosureInv'
  BY <1>0, <1>16, DisclosureIdle DEF ReadServerEof, JoinC2S, Exit, locals, records
<1>17. ASSUME HostCloses \/ HostDies \/ ServerDies PROVE DisclosureInv'
  BY <1>0, <1>17, DisclosureIdle
  DEF HostCloses, HostDies, ServerDies, locals, records
<1>18. ASSUME UNCHANGED vars PROVE DisclosureInv'
  BY <1>0, <1>18, DisclosureIdle DEF vars
<1> QED
  BY <1>1, <1>2, <1>3, <1>4, <1>5, <1>6, <1>7, <1>8, <1>9, <1>10, <1>11, <1>12,
     <1>13, <1>14, <1>15, <1>16, <1>17, <1>18
  DEF Next, C2SPump, C2SJudges, S2CPump, S2CJudges, Exited

\* A line with a request's id never carries more than a request with that id
\* permits (McpProxy!MinimumDisclosure).
THEOREM Disclosure == Spec => []MinimumDisclosure
<1>1. DisclosureInv => MinimumDisclosure
  BY DEF DisclosureInv
<1> QED
  BY <1>1, DisclosureInit, DisclosureNext, PTL DEF Spec

-----------------------------------------------------------------------------
(* Refused calls.                                                           *)

\* The calls that left the gate: c2s recorded or forwarded them, s2c has their
\* reply at hand, or the host got something for them that is not a block.
Passed == ran \cup {pending[i] : i \in Ids} \cup {hit, out.n}
          \cup {toHost[j].n : j \in {j \in DOMAIN toHost :
                                        toHost[j].kind # "blocked"}}

\* The gated calls with a deny event.
Denied == {n \in 1 .. Len(asked) :
             /\ Gated(asked[n])
             /\ \E k \in DOMAIN audit : audit[k].n = n /\ audit[k].decision = "deny"}

\* The call that c2s handles is not refused so far.
Going == {"gate", "remember", "forward", "badCursor"}

\* Only lines that were read have left the gate or have an event;
Numbered  == /\ Passed \subseteq 0 .. Len(asked)
             /\ \A k \in DOMAIN audit : audit[k].n \in 0 .. Len(asked)
\* a call is asked about before it goes anywhere;
AtTheGate == c2s = "gate" => Current \notin Passed
\* and a denied one goes nowhere.
Stopped   == /\ Denied \cap Passed = {}
             /\ c2s \in Going => Current \notin Denied

DenialInv == TypeOK /\ Numbered /\ AtTheGate /\ Stopped

LEMMA DenialInit == Init => DenialInv
<1> SUFFICES ASSUME Init PROVE DenialInv
  OBVIOUS
<1>1. TypeOK
  BY TypeInit
<1>2. Passed \subseteq {0}
  BY DEF Init, Passed, NoLine, ToHost
<1>3. Denied = {} /\ Len(asked) = 0 /\ audit = <<>> /\ c2s = "read"
  BY DEF Init, Denied
<1>4. Numbered
  BY <1>2, <1>3 DEF Numbered
<1>5. AtTheGate /\ Stopped
  BY <1>3 DEF AtTheGate, Stopped, Going
<1> QED
  BY <1>1, <1>4, <1>5 DEF DenialInv

-----------------------------------------------------------------------------
(* Steps.                                                                   *)

\* The audit file tells nothing new about refusals: it grew by no event, or by
\* one that refuses no gated call.
Quiet ==
  \/ UNCHANGED audit
  \/ \E e \in AuditEvent :
       /\ audit' = Append(audit, e) /\ e.n \in 0 .. Len(asked)
       /\ e.n = 0 \/ e.decision = "allow" \/ ~Gated(asked[e.n])

LEMMA QuietDenied ==
  ASSUME DenialInv, UNCHANGED asked, Quiet
  PROVE  /\ Denied' \subseteq Denied
         /\ \A k \in DOMAIN audit' : audit'[k].n \in 0 .. Len(asked)
<1>1. audit \in Seq(AuditEvent) /\ Len(asked) \in Nat
  BY DEF DenialInv, TypeOK
<1>2. CASE UNCHANGED audit
  BY <1>2 DEF DenialInv, Numbered, Denied
<1>3. ASSUME NEW e \in AuditEvent,
             audit' = Append(audit, e), e.n \in 0 .. Len(asked),
             e.n = 0 \/ e.decision = "allow" \/ ~Gated(asked[e.n])
      PROVE  /\ Denied' \subseteq Denied
             /\ \A k \in DOMAIN audit' : audit'[k].n \in 0 .. Len(asked)
  <2>1. \A k \in DOMAIN audit' : \/ k \in DOMAIN audit /\ audit'[k] = audit[k]
                                 \/ audit'[k] = e
    BY <1>1, <1>3
  <2>2. Denied' \subseteq Denied
    BY <1>3, <2>1 DEF Denied
  <2>3. \A k \in DOMAIN audit' : audit'[k].n \in 0 .. Len(asked)
    BY <1>3, <2>1 DEF DenialInv, Numbered
  <2> QED
    BY <2>2, <2>3
<1> QED
  BY <1>2, <1>3 DEF Quiet

\* A step of s2c, of main or of a peer, and those of c2s that add nothing:
\* no call leaves the gate, and no event refuses a gated call.
LEMMA DenialIdle ==
  ASSUME DenialInv, TypeOK', UNCHANGED asked, Quiet,
         Passed' \subseteq Passed \cup {0},
         c2s' \in Going => c2s \in Going,
         c2s' = "gate" => c2s = "gate"
  PROVE  DenialInv'
<1>1. /\ Denied' \subseteq Denied
      /\ \A k \in DOMAIN audit' : audit'[k].n \in 0 .. Len(asked)
  BY QuietDenied
<1>2. Len(asked) \in Nat /\ (c2s = "gate" => Current # 0) /\ Current' = Current
  BY DEF DenialInv, TypeOK, Current
<1>3. Numbered'
  BY <1>1, <1>2 DEF DenialInv, Numbered
<1>4. AtTheGate'
  BY <1>2 DEF DenialInv, AtTheGate
<1>5. 0 \notin Denied
  BY DEF Denied
<1>6. Stopped'
  BY <1>1, <1>2, <1>5 DEF DenialInv, Stopped
<1> QED
  BY <1>3, <1>4, <1>6 DEF DenialInv

\* c2s lets the call it handles go one step further.
LEMMA DenialGoes ==
  ASSUME DenialInv, TypeOK', UNCHANGED <<asked, audit>>,
         c2s \in Going, c2s' # "gate",
         Passed' \subseteq Passed \cup {Current}
  PROVE  DenialInv'
<1>1. Denied' = Denied /\ Current' = Current
  BY DEF Denied, Current
<1>2. Len(asked) \in Nat /\ Current \in 0 .. Len(asked)
  BY DEF DenialInv, TypeOK, Current
<1>3. Numbered'
  BY <1>2 DEF DenialInv, Numbered
<1>4. AtTheGate'
  BY DEF AtTheGate
<1>5. Stopped'
  BY <1>1 DEF DenialInv, Stopped
<1> QED
  BY <1>3, <1>4, <1>5 DEF DenialInv

\* A new line of the host, refused with an event or not.
LEMMA DenialRead ==
  ASSUME DenialInv, TypeOK', NEW l \in Line, asked' = Append(asked, l),
         UNCHANGED <<ran, pending, hit, out, toHost>>,
         \/ UNCHANGED audit
         \/ /\ c2s' \notin Going
            /\ \E e \in AuditEvent :
                 audit' = Append(audit, e) /\ e.n = Len(asked) + 1
  PROVE  DenialInv'
<1>1. /\ asked \in Seq(Line) /\ audit \in Seq(AuditEvent)
      /\ Len(asked) \in Nat /\ Len(asked') = Len(asked) + 1
  BY DEF DenialInv, TypeOK
<1>2. Passed' = Passed /\ Current' = Len(asked) + 1
  BY <1>1 DEF Passed, Current
<1>3. \A k \in DOMAIN audit' : \/ k \in DOMAIN audit /\ audit'[k] = audit[k]
                               \/ audit'[k].n = Len(asked) + 1 /\ c2s' \notin Going
  <2>1. ASSUME NEW e \in AuditEvent, audit' = Append(audit, e),
               NEW k \in DOMAIN audit'
        PROVE  (k \in DOMAIN audit /\ audit'[k] = audit[k]) \/ audit'[k] = e
    BY <1>1, <2>1
  <2>2. ASSUME UNCHANGED audit, NEW k \in DOMAIN audit'
        PROVE  k \in DOMAIN audit /\ audit'[k] = audit[k]
    BY <2>2, Zenon
  <2>3. ASSUME c2s' \notin Going, NEW e \in AuditEvent,
               audit' = Append(audit, e), e.n = Len(asked) + 1
        PROVE  \A k \in DOMAIN audit' :
                 \/ k \in DOMAIN audit /\ audit'[k] = audit[k]
                 \/ audit'[k].n = Len(asked) + 1 /\ c2s' \notin Going
    BY <2>1, <2>3
  <2> QED
    BY <2>2, <2>3
<1>4. /\ Denied' \subseteq Denied \cup {Len(asked) + 1}
      /\ c2s' \in Going => Len(asked) + 1 \notin Denied'
  <2>1. \A k \in DOMAIN audit : audit[k].n \in 0 .. Len(asked)
    BY DEF DenialInv, Numbered
  <2>2. \A n \in 1 .. Len(asked) : asked'[n] = asked[n]
    BY <1>1
  <2>3. ASSUME NEW n \in Denied', n # Len(asked) + 1
        PROVE  n \in Denied
    BY <1>1, <1>3, <2>2, <2>3 DEF Denied
  <2>4. ASSUME c2s' \in Going PROVE Len(asked) + 1 \notin Denied'
    BY <1>1, <1>3, <2>1, <2>4 DEF Denied
  <2> QED
    BY <2>3, <2>4
<1>5. Numbered'
  BY <1>1, <1>2, <1>3 DEF DenialInv, Numbered
<1>6. AtTheGate'
  BY <1>1, <1>2 DEF DenialInv, Numbered, AtTheGate
<1>7. Stopped'
  BY <1>1, <1>2, <1>4 DEF DenialInv, Numbered, Stopped
<1> QED
  BY <1>5, <1>6, <1>7 DEF DenialInv

\* An event of the proxy is appended, or none.
LEMMA Emitted ==
  ASSUME NEW e \in AuditEvent, Emit(e)
  PROVE  UNCHANGED audit \/ \E x \in AuditEvent : x = e /\ audit' = Append(audit, x)
BY DEF Emit

LEMMA DenialNext == DenialInv /\ [Next]_vars => DenialInv'
<1> SUFFICES ASSUME DenialInv, [Next]_vars
             PROVE  DenialInv'
  OBVIOUS
<1>0. TypeOK /\ TypeOK'
  BY TypeNext DEF DenialInv
<1>1. ASSUME NEW l \in HostLines, ReadRefused(l) PROVE DenialInv'
  <2>1. l \in Line /\ Refusal(l) \in Reasons
    BY <1>1, RefusalType, HostAssumption DEF HostAssumption, ReadRefused
  <2>2. Len(asked) + 1 \in Numbers
    BY <1>0, <1>1, ModeAssumption
    DEF ReadRefused, MayWrite, TypeOK, Numbers, ModeAssumption, StartOptions
  <2> DEFINE e == Deny(Len(asked) + 1, Refusal(l))
  <2>3. e \in AuditEvent /\ e.n = Len(asked) + 1
    BY <2>1, <2>2, EventTypes DEF Deny, Event
  <2>4. Emit(e) /\ c2s' \notin Going
    BY <1>1 DEF ReadRefused, AfterRefusal, Going
  <2> HIDE DEF e
  <2>5. \/ UNCHANGED audit
        \/ \E x \in AuditEvent :
             audit' = Append(audit, x) /\ x.n = Len(asked) + 1
    BY <2>3, <2>4, Emitted
  <2>6. asked' = Append(asked, l) /\ UNCHANGED <<ran, pending, hit, out, toHost>>
    BY <1>1 DEF ReadRefused, locals
  <2> QED
    BY <1>0, <2>1, <2>4, <2>5, <2>6, DenialRead
<1>2. ASSUME NEW l \in HostLines, ReadAdmitted(l) PROVE DenialInv'
  <2>1. l \in Line
    BY HostAssumption DEF HostAssumption
  <2>2. /\ asked' = Append(asked, l)
        /\ UNCHANGED <<ran, pending, hit, out, toHost, audit>>
    BY <1>2 DEF ReadAdmitted, locals
  <2> QED
    BY <1>0, <2>1, <2>2, DenialRead
<1>3. ASSUME GateGrants PROVE DenialInv'
  <2>1. /\ UNCHANGED <<asked, audit, ran, pending, hit, out, toHost>>
        /\ c2s \in Going /\ c2s' # "gate"
    BY <1>3 DEF GateGrants, Going, locals, records
  <2> QED
    BY <1>0, <2>1, DenialGoes DEF Passed
<1>4. ASSUME GateRefuses PROVE DenialInv'
  <2>1. PICK reason \in GateReasons : Emit(Deny(Current, reason))
    BY <1>4 DEF GateRefuses
  <2>2. /\ UNCHANGED <<asked, ran, pending, hit, out, toHost>>
        /\ c2s = "gate" /\ c2s' = "block"
    BY <1>4 DEF GateRefuses, AfterRefusal, locals
  <2>3. Current \in Numbers \ {0} /\ Current \notin Passed /\ Current \in 0 .. Len(asked)
    BY <1>0, <2>2, ModeAssumption
    DEF DenialInv, AtTheGate, TypeOK, Current, Numbers, ModeAssumption, StartOptions
  <2> DEFINE e == Deny(Current, reason)
  <2>4. e \in AuditEvent /\ e.n = Current
    BY <2>1, <2>3, EventTypes DEF GateReasons, Reasons, Deny, Event
  <2>5. Emit(e)
    BY <2>1
  <2> HIDE DEF e
  <2>6. audit \in Seq(AuditEvent)
    BY <1>0 DEF TypeOK
  <2>7. \A k \in DOMAIN audit' : \/ k \in DOMAIN audit /\ audit'[k] = audit[k]
                                 \/ audit'[k].n = Current
    BY <2>4, <2>5, <2>6, Emitted
  <2>8. Passed' = Passed /\ Denied' \subseteq Denied \cup {Current}
    BY <2>2, <2>7 DEF Passed, Denied
  <2>9. Numbered'
    BY <2>2, <2>3, <2>7, <2>8 DEF DenialInv, Numbered
  <2>10. AtTheGate' /\ Stopped'
    BY <2>2, <2>3, <2>8 DEF DenialInv, AtTheGate, Stopped, Going
  <2> QED
    BY <1>0, <2>9, <2>10 DEF DenialInv
<1>5. ASSUME Remember PROVE DenialInv'
  <2>1. /\ UNCHANGED <<asked, audit, ran, hit, out, toHost>>
        /\ c2s \in Going /\ c2s' # "gate"
    BY <1>5 DEF Remember, Going, locals, records
  <2>2. \A i \in Ids : pending'[i] \in {pending[i], Current}
    BY <1>0, <1>5 DEF Remember, TypeOK
  <2>3. Passed' \subseteq Passed \cup {Current}
    BY <2>1, <2>2 DEF Passed
  <2> QED
    BY <1>0, <2>1, <2>3, DenialGoes
<1>6. ASSUME Forward PROVE DenialInv'
  <2>1. /\ UNCHANGED <<asked, audit, pending, hit, out, toHost>>
        /\ ran' = ran \cup {Current}
        /\ c2s \in Going /\ c2s' # "gate"
    BY <1>6 DEF Forward, Going, locals
  <2>2. Passed' \subseteq Passed \cup {Current}
    BY <2>1 DEF Passed
  <2> QED
    BY <1>0, <2>1, <2>2, DenialGoes
<1>7. ASSUME ForwardBroken \/ ReadHostEof PROVE DenialInv'
  <2>1. /\ UNCHANGED <<asked, audit, ran, pending, hit, out, toHost>>
        /\ c2s' \notin Going
    BY <1>7 DEF ForwardBroken, ReadHostEof, Going, locals, records
  <2> QED
    BY <1>0, <2>1, DenialIdle DEF Passed, Going, Quiet
<1>8. ASSUME Answer PROVE DenialInv'
  <2>1. /\ UNCHANGED <<asked, audit, ran, pending, hit, out>>
        /\ c2s' \in {"dead", "read"}
    BY <1>8 DEF Answer, locals
  <2>2. CASE UNCHANGED toHost
    BY <1>0, <2>1, <2>2, DenialIdle DEF Passed, Going, Quiet
  <2>3. CASE host # "gone"
    <3> DEFINE kind == IF c2s = "block" THEN "blocked" ELSE "error"
               id == IF IsRequest(asked[Current]) THEN asked[Current].id
                     ELSE NullId
               o == ToHost(Current, id, kind, {}, {})
    <3>1. toHost' = Append(toHost, o)
      BY <1>8, <2>3, Zenon DEF Answer
    <3>2. o.n = Current /\ o.kind = kind
      BY DEF ToHost
    <3>3. toHost \in Seq(HostLine)
      BY <1>0 DEF TypeOK
    <3> HIDE DEF o
    <3>4. \A j \in DOMAIN toHost' : \/ j \in DOMAIN toHost /\ toHost'[j] = toHost[j]
                                    \/ toHost'[j] = o
      BY <3>1, <3>3
    <3>5. CASE c2s = "block"
      <4>1. Passed' \subseteq Passed
        BY <2>1, <3>2, <3>4, <3>5 DEF Passed
      <4> QED
        BY <1>0, <2>1, <4>1, DenialIdle DEF Going, Quiet
    <3>6. CASE c2s = "badCursor"
      <4>1. Passed' \subseteq Passed \cup {Current}
        BY <2>1, <3>2, <3>4 DEF Passed
      <4> QED
        BY <1>0, <2>1, <3>6, <4>1, DenialGoes DEF Going
    <3> QED
      BY <1>8, <3>5, <3>6 DEF Answer
  <2> QED
    BY <1>8, <2>2, <2>3 DEF Answer
<1>9. ASSUME NEW r, Pop(r) PROVE DenialInv'
  <2>1. UNCHANGED <<asked, audit, ran, out, toHost, c2s>>
    BY <1>9 DEF Pop
  <2>2. /\ hit' = 0 \/ \E i \in Ids : hit' = pending[i]
        /\ \A i \in Ids : pending'[i] \in {0, pending[i]}
    BY <1>0, <1>9 DEF Pop, Popped, TypeOK
  <2>3. Passed' \subseteq Passed \cup {0}
    BY <2>1, <2>2 DEF Passed
  <2> QED
    BY <1>0, <2>1, <2>3, DenialIdle DEF Quiet
<1>10. ASSUME NEW b \in Bodies, ServerLogs(b) PROVE DenialInv'
  <2>1. UNCHANGED <<asked, ran, pending, hit, toHost, c2s>>
    BY <1>10 DEF ServerLogs
  <2>2. out' = out \/ out'.n = 0
    BY <1>10 DEF ServerLogs, ToHost
  <2>3. Passed' \subseteq Passed \cup {0}
    BY <2>1, <2>2 DEF Passed
  <2>4. LogEvent.n = 0 /\ LogEvent \in AuditEvent
    BY LogEventType DEF LogEvent, Event
  <2>5. Quiet
    BY <1>0, <1>10, <2>4, Emitted DEF ServerLogs, Quiet, TypeOK
  <2> QED
    BY <1>0, <2>1, <2>3, <2>5, DenialIdle
<1>11. ASSUME JudgeUnmatched PROVE DenialInv'
  <2>1. UNCHANGED <<asked, ran, pending, toHost, c2s>> /\ hit' = 0 /\ out'.n = 0
    BY <1>11 DEF JudgeUnmatched, Rested, NoLine, ToHost
  <2>2. Passed' \subseteq Passed \cup {0}
    BY <2>1 DEF Passed
  <2> DEFINE e == Deny(0, "unmatched_response")
  <2>3. e \in AuditEvent /\ e.n = 0
    <3>1. 0 \in Numbers /\ "unmatched_response" \in Reasons
      BY ModeAssumption DEF Reasons, Numbers, ModeAssumption, StartOptions
    <3> QED
      BY <3>1, EventTypes DEF Deny, Event
  <2>4. Emit(e)
    BY <1>11 DEF JudgeUnmatched
  <2> HIDE DEF e
  <2>5. Quiet
    BY <1>0, <2>3, <2>4, Emitted DEF Quiet, TypeOK
  <2> QED
    BY <1>0, <2>1, <2>2, <2>5, DenialIdle
<1>12. ASSUME JudgeGated \/ JudgeInterface \/ JudgePlain PROVE DenialInv'
  <2>1. UNCHANGED <<asked, ran, pending, hit, toHost, c2s>>
    BY <1>12 DEF JudgeGated, JudgeInterface, JudgePlain
  <2>2. out' = out \/ out'.n = hit
    <3>1. \A i, k, body, raw : ToHost(hit, i, k, body, raw).n = hit
      BY DEF ToHost
    <3>2. CASE JudgeGated
      BY <3>1, <3>2 DEF JudgeGated
    <3>3. CASE JudgeInterface
      <4> DEFINE o == ToHost(hit, rep.id, "result",
                             Projection(asked[hit], rep.body, FALSE), rep.body)
      <4>1. o.n = hit
        BY <3>1
      <4>2. out' = out \/ out' = o
        BY <3>3, Zenon DEF JudgeInterface
      <4> HIDE DEF o
      <4> QED
        BY <4>1, <4>2
    <3>4. CASE JudgePlain
      BY <3>1, <3>4 DEF JudgePlain
    <3> QED
      BY <1>12, <3>2, <3>3, <3>4
  <2>3. Passed' \subseteq Passed \cup {0}
    BY <2>1, <2>2 DEF Passed
  <2>4. hit \in Numbers /\ hit \in 0 .. Len(asked)
    BY <1>0 DEF DenialInv, Numbered, Passed, TypeOK
  <2>5. ASSUME NEW e \in AuditEvent, Emit(e), e.n = hit,
               e.decision = "allow" \/ ~Gated(asked[hit])
        PROVE  Quiet
    BY <2>4, <2>5, Emitted DEF Quiet
  <2>6. CASE JudgeGated
    <3>1. PICK broken : Emit(GatedEvent(hit, rep.body, broken))
      BY <2>6 DEF JudgeGated
    <3>2. GatedEvent(hit, rep.body, broken) \in AuditEvent
      BY <2>4, EventTypes
    <3>3. /\ GatedEvent(hit, rep.body, broken).n = hit
          /\ GatedEvent(hit, rep.body, broken).decision = "allow"
      BY DEF GatedEvent, Event
    <3>4. Quiet
      BY <2>5, <3>1, <3>2, <3>3
    <3> QED
      BY <1>0, <2>1, <2>3, <3>4, DenialIdle
  <2>7. CASE JudgeInterface
    <3>1. InterfaceEvent(hit) \in AuditEvent
      BY <2>4, EventTypes
    <3>2. InterfaceEvent(hit).n = hit /\ InterfaceEvent(hit).decision = "allow"
      BY DEF InterfaceEvent, Event
    <3>3. Quiet
      BY <2>5, <2>7, <3>1, <3>2 DEF JudgeInterface, Quiet
    <3> QED
      BY <1>0, <2>1, <2>3, <3>3, DenialIdle
  <2>8. CASE JudgePlain
    <3>1. ASSUME NEW reason \in Reasons
          PROVE  Deny(hit, reason) \in AuditEvent /\ Deny(hit, reason).n = hit
      BY <2>4, EventTypes DEF Deny, Event
    <3>2. UNCHANGED audit \/ \E reason \in Reasons : Emit(Deny(hit, reason))
      BY <2>8 DEF JudgePlain, Reasons
    <3>3. ~Gated(asked[hit])
      BY <2>8 DEF JudgePlain
    <3>4. Quiet
      BY <2>5, <3>1, <3>2, <3>3 DEF Quiet
    <3> QED
      BY <1>0, <2>1, <2>3, <3>4, DenialIdle
  <2> QED
    BY <1>12, <2>6, <2>7, <2>8
<1>13. ASSUME Relay PROVE DenialInv'
  <2>1. /\ UNCHANGED <<asked, audit, ran, pending, c2s>>
        /\ hit' = 0 /\ out'.n = 0
        /\ toHost' = toHost \/ toHost' = Append(toHost, out)
    BY <1>13 DEF Relay, Rested, NoLine, ToHost
  <2>2. toHost \in Seq(HostLine)
    BY <1>0 DEF TypeOK
  <2>3. \A j \in DOMAIN toHost' : \/ j \in DOMAIN toHost /\ toHost'[j] = toHost[j]
                                  \/ toHost'[j] = out
    BY <2>1, <2>2
  <2>4. Passed' \subseteq Passed \cup {0}
    BY <2>1, <2>3 DEF Passed
  <2> QED
    BY <1>0, <2>1, <2>4, DenialIdle DEF Quiet
<1>14. ASSUME ReadServerEof \/ JoinC2S \/ Exit PROVE DenialInv'
  <2>1. UNCHANGED <<asked, audit, ran, pending, hit, out, toHost, c2s>>
    BY <1>14 DEF ReadServerEof, JoinC2S, Exit, locals, records
  <2> QED
    BY <1>0, <2>1, DenialIdle DEF Passed, Quiet
<1>15. ASSUME HostCloses \/ HostDies \/ ServerDies PROVE DenialInv'
  <2>1. UNCHANGED <<asked, audit, ran, pending, hit, out, toHost, c2s>>
    BY <1>15 DEF HostCloses, HostDies, ServerDies, locals, records
  <2> QED
    BY <1>0, <2>1, DenialIdle DEF Passed, Quiet
<1>16. ASSUME UNCHANGED vars PROVE DenialInv'
  <2>1. UNCHANGED <<asked, audit, ran, pending, hit, out, toHost, c2s>>
    BY <1>16 DEF vars
  <2> QED
    BY <1>0, <2>1, DenialIdle DEF Passed, Quiet
<1>17. ASSUME NEW n \in ran, NEW b \in Bodies, ServerAnswers(n, b)
       PROVE  DenialInv'
  BY <1>9, <1>17 DEF ServerAnswers
<1>18. ASSUME NEW i \in Ids \cup {NullId}, NEW b \in Bodies, ServerStray(i, b)
       PROVE  DenialInv'
  BY <1>9, <1>18 DEF ServerStray
<1> QED
  BY <1>1, <1>2, <1>3, <1>4, <1>5, <1>6, <1>7, <1>8, <1>10, <1>11, <1>12,
     <1>13, <1>14, <1>15, <1>16, <1>17, <1>18
  DEF Next, C2SPump, C2SJudges, S2CPump, S2CJudges, Exited

\* A gated call with a deny event never reaches the server, and the host gets
\* nothing for it but the block (McpProxy!DeniedNeverRuns): whatever the
\* gateway, the server and the host do, and however the pumps interleave.
THEOREM DeniedStayOut == Spec => []DeniedNeverRuns
<1>1. DenialInv => DeniedNeverRuns
  <2> SUFFICES ASSUME DenialInv, NEW k \in DOMAIN audit,
                      audit[k].n # 0, audit[k].decision = "deny",
                      Gated(asked[audit[k].n])
               PROVE  /\ audit[k].n \notin ran
                      /\ \A j \in DOMAIN toHost :
                           toHost[j].n = audit[k].n => toHost[j].kind = "blocked"
    BY DEF DeniedNeverRuns
  <2>1. audit[k].n \in Denied
    BY DEF DenialInv, Numbered, Denied
  <2> QED
    BY <2>1 DEF DenialInv, Stopped, Passed
<1> QED
  BY <1>1, DenialInit, DenialNext, PTL DEF Spec

-----------------------------------------------------------------------------
(* Answers.                                                                 *)

\* Request n bears id i.
Names(n, i) == n \in 1 .. Len(asked) /\ IsRequest(asked[n]) /\ asked[n].id = i

\* The lines of the host that answer a request, and the requests they answer.
Told == {j \in DOMAIN toHost : toHost[j].id # NullId}
Done == {toHost[j].n : j \in Told}
\* The requests that wait for an answer, or have one at hand.
Waiting == ({pending[i] : i \in Ids} \cup {hit}) \ {0}
\* c2s has a line that it has neither recorded nor answered.
Busy == {"gate", "remember", "block", "badCursor"}

\* Only requests are recorded;
Requested == c2s \in {"gate", "remember"} => IsRequest(asked[Current])
\* a request bears the id of its entry, of its reply and of its answer;
Named ==
  /\ \A i \in Ids : pending[i] # 0 => Names(pending[i], i)
  /\ hit # 0 => Names(hit, rep.id)
  /\ out.id # NullId => out.n = hit /\ hit # 0 /\ out.id = rep.id
  /\ s2c \in {"read", "judge"} => out.id = NullId
  /\ \A j \in Told : Names(toHost[j].n, toHost[j].id)
\* it is answered once;
Once == \A j, k \in Told : toHost[j].n = toHost[k].n => j = k
\* and is in one place.
OnePlace ==
  /\ Done \cap Waiting = {}
  /\ \A i \in Ids : pending[i] = hit => hit = 0
  /\ c2s \in Busy => Current \notin Done \cup Waiting

AnswerInv == TypeOK /\ Requested /\ Named /\ Once /\ OnePlace

LEMMA AnswerInit == Init => AnswerInv
BY TypeInit
DEF Init, AnswerInv, Requested, Named, Once, OnePlace, Told, Done, Waiting,
    Busy, NoLine, ToHost

-----------------------------------------------------------------------------
(* Steps.                                                                   *)

\* Nothing is handed on.
LEMMA AnswerIdle ==
  ASSUME AnswerInv, TypeOK', UNCHANGED <<asked, pending, hit, rep, out, toHost>>,
         c2s' \in Busy => c2s \in Busy,
         c2s' \in {"gate", "remember"} => c2s \in {"gate", "remember"},
         s2c' \in {"read", "judge"} => s2c \in {"read", "judge"}
  PROVE  AnswerInv'
<1>1. Told' = Told /\ Done' = Done /\ Waiting' = Waiting /\ Current' = Current
  BY DEF Told, Done, Waiting, Current
<1> QED
  BY <1>1 DEF AnswerInv, Requested, Named, Names, Once, OnePlace

\* A new line of the host.
LEMMA AnswerRead ==
  ASSUME AnswerInv, TypeOK', NEW l \in Line, asked' = Append(asked, l),
         UNCHANGED <<pending, hit, rep, out, toHost, s2c>>,
         c2s' \in {"gate", "remember"} => IsRequest(l)
  PROVE  AnswerInv'
<1>1. /\ asked \in Seq(Line) /\ Len(asked) \in Nat /\ Len(asked') = Len(asked) + 1
      /\ asked'[Len(asked) + 1] = l
      /\ \A n \in 1 .. Len(asked) : asked'[n] = asked[n]
  BY DEF AnswerInv, TypeOK
<1>2. \A n, i : Names(n, i) => Names(n, i)' /\ n # Len(asked) + 1
  BY <1>1 DEF Names
<1>3. /\ Told' = Told /\ Done' = Done /\ Waiting' = Waiting
      /\ Current' = Len(asked) + 1
  BY <1>1 DEF Told, Done, Waiting, Current
<1>4. Requested'
  BY <1>1, <1>3 DEF Requested
<1>5. Named'
  BY <1>2, <1>3 DEF AnswerInv, Named
<1>6. Once'
  BY <1>3 DEF AnswerInv, Once
<1>7. Len(asked) + 1 \notin Done \cup Waiting
  BY <1>2 DEF AnswerInv, Named, Done, Waiting
<1>8. OnePlace'
  BY <1>3, <1>7 DEF AnswerInv, OnePlace
<1> QED
  BY <1>4, <1>5, <1>6, <1>8 DEF AnswerInv

\* s2c takes the entry of a request, if there is one.
LEMMA AnswerPop ==
  ASSUME AnswerInv, TypeOK', UNCHANGED asked, NEW r, Pop(r)
  PROVE  AnswerInv'
<1>1. /\ UNCHANGED <<c2s, out, toHost>> /\ rep' = r
      /\ s2c = "read" /\ s2c' = "judge" /\ out.id = NullId
  BY DEF Pop, AnswerInv, Named
<1>2. /\ hit' = 0 \/ (r.id \in Ids /\ hit' = pending[r.id])
      /\ \A i \in Ids : /\ pending'[i] \in {0, pending[i]}
                        /\ i = r.id => pending'[i] = 0
  BY DEF Pop, Popped, AnswerInv, TypeOK
<1>3. /\ Told' = Told /\ Done' = Done /\ Current' = Current
      /\ \A n, i : Names(n, i)' <=> Names(n, i)
  BY <1>1 DEF Told, Done, Current, Names
<1>4. Waiting' \subseteq Waiting
  BY <1>2 DEF Waiting
<1>5. Requested' /\ Once'
  BY <1>1, <1>3 DEF AnswerInv, Requested, Once
<1>6. Named'
  BY <1>1, <1>2, <1>3 DEF AnswerInv, Named
<1>7. ASSUME NEW i \in Ids, pending'[i] = hit', hit' # 0
      PROVE  FALSE
  <2>1. /\ r.id \in Ids /\ hit' = pending[r.id] /\ pending[i] = pending[r.id]
        /\ i # r.id /\ pending[i] # 0
    BY <1>2, <1>7
  <2>2. Names(pending[i], i) /\ Names(pending[r.id], r.id)
    BY <2>1 DEF AnswerInv, Named
  <2> QED
    BY <2>1, <2>2 DEF Names
<1>8. OnePlace'
  BY <1>1, <1>3, <1>4, <1>7 DEF AnswerInv, OnePlace
<1> QED
  BY <1>5, <1>6, <1>8 DEF AnswerInv

\* A line is made for the request at hand, or one that answers none.
LEMMA AnswerJudge ==
  ASSUME AnswerInv, TypeOK', UNCHANGED <<asked, pending, hit, rep, toHost, c2s>>,
         s2c' = "relay",
         out'.id = NullId \/ (out'.n = hit /\ hit # 0 /\ out'.id = rep.id)
  PROVE  AnswerInv'
<1>1. /\ Told' = Told /\ Done' = Done /\ Waiting' = Waiting
      /\ Current' = Current
  BY DEF Told, Done, Waiting, Current
<1> QED
  BY <1>1 DEF AnswerInv, Requested, Named, Names, Once, OnePlace

\* s2c drops what it has at hand.
LEMMA AnswerDrop ==
  ASSUME AnswerInv, TypeOK', UNCHANGED <<asked, pending, toHost, c2s>>, Rested
  PROVE  AnswerInv'
<1>1. /\ Told' = Told /\ Done' = Done /\ Waiting' \subseteq Waiting
      /\ Current' = Current /\ hit' = 0 /\ out'.id = NullId
  BY DEF Told, Done, Waiting, Current, Rested, NoLine, ToHost
<1> QED
  BY <1>1 DEF AnswerInv, Requested, Named, Names, Once, OnePlace

\* A line is written to the host, which answers nothing or a request that is
\* nowhere else afterwards.
LEMMA AnswerWrite ==
  ASSUME AnswerInv, TypeOK', UNCHANGED <<asked, pending>>,
         NEW o \in HostLine, toHost' = Append(toHost, o),
         o.id # NullId => /\ Names(o.n, o.id) /\ o.n \notin Done
                          /\ o.n \notin Waiting' /\ (c2s' \in Busy => o.n # Current),
         Waiting' \subseteq Waiting, hit' \in {0, hit},
         c2s' \in Busy => c2s \in Busy,
         c2s' \in {"gate", "remember"} => c2s \in {"gate", "remember"},
         hit' # 0 => rep' = rep,
         out'.id # NullId => out'.n = hit' /\ hit' # 0 /\ out'.id = rep'.id,
         s2c' \in {"read", "judge"} => out'.id = NullId
  PROVE  AnswerInv'
<1>1. /\ toHost \in Seq(HostLine) /\ Len(toHost) \in Nat
      /\ DOMAIN toHost = 1 .. Len(toHost)
      /\ DOMAIN toHost' = 1 .. Len(toHost) + 1
      /\ toHost'[Len(toHost) + 1] = o
      /\ \A j \in DOMAIN toHost : toHost'[j] = toHost[j]
  BY DEF AnswerInv, TypeOK
<1>2. \A j \in Told' : \/ j \in Told /\ toHost'[j] = toHost[j]
                       \/ j = Len(toHost) + 1 /\ toHost'[j] = o /\ o.id # NullId
  BY <1>1 DEF Told
<1>3. Current' = Current /\ \A n, i : Names(n, i)' <=> Names(n, i)
  BY DEF Current, Names
<1>4. \A j \in Told : toHost[j].n \in Done
  BY DEF Done
<1>5. Named'
  BY <1>2, <1>3 DEF AnswerInv, Named
<1>6. Once'
  <2> SUFFICES ASSUME NEW j \in Told', NEW k \in Told', toHost'[j].n = toHost'[k].n
               PROVE  j = k
    BY DEF Once
  <2>1. CASE j \in Told /\ k \in Told
    BY <1>2, <2>1 DEF AnswerInv, Once, Told
  <2>2. CASE j \notin Told \/ k \notin Told
    BY <1>2, <1>4, <2>2
  <2> QED
    BY <2>1, <2>2
<1>7. Done' \subseteq Done \cup {n \in {o.n} : o.id # NullId}
  BY <1>2, <1>4 DEF Done
<1>8. OnePlace'
  <2>1. Done' \cap Waiting' = {}
    BY <1>7 DEF AnswerInv, OnePlace
  <2>2. c2s' \in Busy => Current \notin Done' \cup Waiting'
    BY <1>7 DEF AnswerInv, OnePlace
  <2> QED
    BY <1>3, <2>1, <2>2 DEF AnswerInv, OnePlace
<1>9. Requested'
  BY <1>3 DEF AnswerInv, Requested
<1> QED
  BY <1>5, <1>6, <1>8, <1>9 DEF AnswerInv

\* c2s records a request.
LEMMA AnswerRemember ==
  ASSUME AnswerInv, TypeOK', Remember
  PROVE  AnswerInv'
<1>1. /\ UNCHANGED <<asked, hit, rep, out, toHost, s2c>>
      /\ c2s = "remember" /\ c2s' = "forward"
  BY DEF Remember, locals, records
<1>2. /\ Told' = Told /\ Done' = Done
      /\ \A n, i : Names(n, i)' <=> Names(n, i)
  BY <1>1 DEF Told, Done, Names
<1>3. Current \in 1 .. Len(asked) /\ IsRequest(asked[Current])
  BY <1>1 DEF AnswerInv, TypeOK, Current, Requested
<1>4. Current \notin Done /\ Current # hit
  <2>1. Current \notin Done \cup Waiting /\ Current # 0
    BY <1>1, <1>3 DEF AnswerInv, OnePlace, Busy
  <2> QED
    BY <2>1 DEF Waiting
<1>5. \A i \in Ids : \/ pending'[i] = pending[i]
                     \/ pending'[i] = Current /\ asked[Current].id = i
  BY DEF Remember, AnswerInv, TypeOK
<1>6. Waiting' \subseteq Waiting \cup {Current}
  BY <1>1, <1>5 DEF Waiting
<1>7. Named'
  BY <1>1, <1>2, <1>3, <1>5 DEF AnswerInv, Named, Names
<1>8. Once' /\ Requested'
  BY <1>1, <1>2 DEF AnswerInv, Once, Requested
<1>9. OnePlace'
  BY <1>1, <1>2, <1>4, <1>5, <1>6 DEF AnswerInv, OnePlace, Busy
<1> QED
  BY <1>7, <1>8, <1>9 DEF AnswerInv

LEMMA AnswerNext == AnswerInv /\ [Next]_vars => AnswerInv'
<1> SUFFICES ASSUME AnswerInv, [Next]_vars
             PROVE  AnswerInv'
  OBVIOUS
<1>0. TypeOK /\ TypeOK'
  BY TypeNext DEF AnswerInv
<1>1. ASSUME NEW l \in HostLines, ReadRefused(l) PROVE AnswerInv'
  <2>1. l \in Line
    BY HostAssumption DEF HostAssumption
  <2>2. /\ asked' = Append(asked, l) /\ c2s' = "block"
        /\ UNCHANGED <<pending, hit, rep, out, toHost, s2c>>
    BY <1>1 DEF ReadRefused, AfterRefusal, locals
  <2> QED
    BY <1>0, <2>1, <2>2, AnswerRead
<1>2. ASSUME NEW l \in HostLines, ReadAdmitted(l) PROVE AnswerInv'
  <2>1. l \in Line
    BY HostAssumption DEF HostAssumption
  <2>2. /\ asked' = Append(asked, l) /\ Refusal(l) = None
        /\ UNCHANGED <<pending, hit, rep, out, toHost, s2c>>
        /\ c2s' = AfterAdmission(l) \/ c2s' = "badCursor"
    BY <1>2 DEF ReadAdmitted, locals
  <2>3. l.kind # "batch"
    BY <2>2, PolicyAssumption DEF Refusal, PolicyAssumption, LoadedPolicy, LoadedPurposes, LoadedRules, Reasons
  <2>4. c2s' \in {"gate", "remember"} => IsRequest(l)
    BY <2>2, <2>3 DEF AfterAdmission, IsRequest
  <2> QED
    BY <1>0, <2>1, <2>2, <2>4, AnswerRead
<1>3. ASSUME GateGrants \/ GateRefuses PROVE AnswerInv'
  <2>1. /\ UNCHANGED <<asked, pending, hit, rep, out, toHost, s2c>>
        /\ c2s = "gate" /\ c2s' \in {"remember", "block"}
    BY <1>3 DEF GateGrants, GateRefuses, AfterRefusal, locals, records
  <2> QED
    BY <1>0, <2>1, AnswerIdle DEF Busy
<1>4. ASSUME Forward \/ ForwardBroken \/ ReadHostEof PROVE AnswerInv'
  <2>1. /\ UNCHANGED <<asked, pending, hit, rep, out, toHost, s2c>>
        /\ c2s' \in {"read", "dead", "closed"}
    BY <1>4 DEF Forward, ForwardBroken, ReadHostEof, locals, records
  <2> QED
    BY <1>0, <2>1, AnswerIdle DEF Busy
<1>5. ASSUME Remember PROVE AnswerInv'
  BY <1>0, <1>5, AnswerRemember
<1>6. ASSUME Answer PROVE AnswerInv'
  <2>1. /\ UNCHANGED <<asked, pending, hit, rep, out, s2c>>
        /\ c2s \in {"block", "badCursor"} /\ c2s' \in {"dead", "read"}
    BY <1>6 DEF Answer, locals
  <2>2. CASE UNCHANGED toHost
    BY <1>0, <2>1, <2>2, AnswerIdle DEF Busy
  <2>3. CASE host # "gone"
    <3> DEFINE kind == IF c2s = "block" THEN "blocked" ELSE "error"
               id == IF IsRequest(asked[Current]) THEN asked[Current].id
                     ELSE NullId
               o == ToHost(Current, id, kind, {}, {})
    <3>1. toHost' = Append(toHost, o)
      BY <1>6, <2>3, Zenon DEF Answer
    <3>2. o.n = Current /\ o.id = id
      BY DEF ToHost
    <3>3. Current \in 1 .. Len(asked) /\ Current \in Numbers /\ asked[Current] \in Line
      BY <1>0, <2>1, ModeAssumption DEF TypeOK, Current, Numbers, ModeAssumption, StartOptions
    <3>4. o \in HostLine
      <4>1. id \in Ids \cup {NullId}
        BY <3>3 DEF Line
      <4>2. kind \in {"none", "blocked", "error", "result", "log"}
        OBVIOUS
      <4> HIDE DEF id, kind
      <4> QED
        BY <3>3, <4>1, <4>2, ToHostType
    <3>5. o.id # NullId => Names(o.n, o.id)
      BY <3>2, <3>3 DEF Names
    <3>6. Current \notin Done \cup Waiting
      BY <2>1 DEF AnswerInv, OnePlace, Busy
    <3>7. Waiting' = Waiting
      BY <2>1 DEF Waiting
    <3> HIDE DEF o
    <3> QED
      BY <1>0, <2>1, <3>1, <3>2, <3>4, <3>5, <3>6, <3>7, AnswerWrite
      DEF Busy, AnswerInv, Named
  <2> QED
    BY <1>6, <2>2, <2>3 DEF Answer
<1>7. ASSUME NEW n \in ran, NEW b \in Bodies, ServerAnswers(n, b) PROVE AnswerInv'
  BY <1>0, <1>7, AnswerPop DEF ServerAnswers, Pop
<1>8. ASSUME NEW i \in Ids \cup {NullId}, NEW b \in Bodies, ServerStray(i, b)
      PROVE  AnswerInv'
  BY <1>0, <1>8, AnswerPop DEF ServerStray, Pop
<1>9. ASSUME NEW b \in Bodies, ServerLogs(b) PROVE AnswerInv'
  <2>1. UNCHANGED <<asked, pending, hit, rep, toHost, c2s>>
    BY <1>9 DEF ServerLogs
  <2>2. \/ UNCHANGED <<out, s2c>>
        \/ out'.id = NullId /\ s2c' = "relay"
    BY <1>9 DEF ServerLogs, ToHost
  <2> QED
    BY <1>0, <2>1, <2>2, AnswerIdle, AnswerJudge
<1>10. ASSUME JudgeUnmatched PROVE AnswerInv'
  BY <1>0, <1>10, AnswerDrop DEF JudgeUnmatched
<1>11. ASSUME JudgeGated \/ JudgeInterface \/ JudgePlain PROVE AnswerInv'
  <2>1. UNCHANGED <<asked, pending, hit, rep, toHost, c2s>> /\ hit # 0
    BY <1>11 DEF JudgeGated, JudgeInterface, JudgePlain
  <2>2. \A k, body, raw : /\ ToHost(hit, rep.id, k, body, raw).n = hit
                          /\ ToHost(hit, rep.id, k, body, raw).id = rep.id
    BY DEF ToHost
  <2>3. \/ UNCHANGED out /\ s2c' = "dead"
        \/ s2c' = "relay" /\ \E k, body, raw : out' = ToHost(hit, rep.id, k, body, raw)
    <3>1. CASE JudgeGated
      BY <3>1, Zenon DEF JudgeGated
    <3>2. CASE JudgeInterface
      BY <3>2, Zenon DEF JudgeInterface
    <3>3. CASE JudgePlain
      BY <3>3, Zenon DEF JudgePlain
    <3> QED
      BY <1>11, <3>1, <3>2, <3>3
  <2> QED
    BY <1>0, <2>1, <2>2, <2>3, AnswerIdle, AnswerJudge
<1>12. ASSUME Relay PROVE AnswerInv'
  <2>1. /\ UNCHANGED <<asked, pending, c2s>> /\ Rested
        /\ hit' = 0 /\ out'.id = NullId
        /\ toHost' = toHost \/ toHost' = Append(toHost, out)
    BY <1>12 DEF Relay, Rested, NoLine, ToHost
  <2>2. CASE UNCHANGED toHost
    BY <1>0, <2>1, <2>2, AnswerDrop
  <2>3. CASE toHost' = Append(toHost, out)
    <3>1. out \in HostLine /\ hit \in Numbers
      BY <1>0 DEF TypeOK
    <3>2. Waiting' \subseteq Waiting
      BY <2>1 DEF Waiting
    <3>3. ASSUME out.id # NullId
          PROVE  /\ Names(out.n, out.id) /\ out.n \notin Done
                 /\ out.n \notin Waiting' /\ (c2s' \in Busy => out.n # Current)
      <4>1. out.n = hit /\ hit # 0 /\ hit \in Waiting /\ Names(out.n, out.id)
        BY <3>3 DEF AnswerInv, Named, Waiting
      <4>2. hit \notin Waiting'
        BY <2>1, <4>1 DEF AnswerInv, OnePlace, Waiting
      <4> QED
        BY <2>1, <4>1, <4>2 DEF AnswerInv, OnePlace
    <3> QED
      BY <1>0, <2>1, <2>3, <3>1, <3>2, <3>3, AnswerWrite
  <2> QED
    BY <2>1, <2>2, <2>3
<1>13. ASSUME ReadServerEof \/ JoinC2S \/ Exit PROVE AnswerInv'
  <2>1. /\ UNCHANGED <<asked, pending, hit, rep, out, toHost, c2s>>
        /\ s2c' = s2c \/ s2c' = "closed"
    BY <1>13 DEF ReadServerEof, JoinC2S, Exit, locals, records
  <2> QED
    BY <1>0, <2>1, AnswerIdle
<1>14. ASSUME HostCloses \/ HostDies \/ ServerDies \/ UNCHANGED vars
       PROVE  AnswerInv'
  <2>1. UNCHANGED <<asked, pending, hit, rep, out, toHost, c2s, s2c>>
    BY <1>14 DEF HostCloses, HostDies, ServerDies, vars, locals, records
  <2> QED
    BY <1>0, <2>1, AnswerIdle
<1> QED
  BY <1>1, <1>2, <1>3, <1>4, <1>5, <1>6, <1>7, <1>8, <1>9, <1>10, <1>11, <1>12,
     <1>13, <1>14
  DEF Next, C2SPump, C2SJudges, S2CPump, S2CJudges, Exited

\* One place at a time, and no id twice: one answer.
LEMMA OneAnswer == AnswerInv => OneAnswerPerRequest
<1> SUFFICES ASSUME AnswerInv, IdsUnique,
                    NEW j \in DOMAIN toHost, NEW k \in DOMAIN toHost,
                    toHost[j].id = toHost[k].id, toHost[j].id # NullId
             PROVE  j = k
  BY DEF OneAnswerPerRequest
<1>1. /\ j \in Told /\ k \in Told
      /\ Names(toHost[j].n, toHost[j].id) /\ Names(toHost[k].n, toHost[k].id)
  BY DEF AnswerInv, Named, Told
<1>2. toHost[j].n = toHost[k].n
  BY <1>1 DEF IdsUnique, Names
<1> QED
  BY <1>1, <1>2 DEF AnswerInv, Once

\* The host gets at most one line for a request, be it a block, an error or a
\* reply, as long as it uses no id twice (McpProxy!OneAnswerPerRequest):
\* whatever the server repeats or makes up, and however the pumps interleave.
THEOREM AnsweredOnce == Spec => []OneAnswerPerRequest
BY OneAnswer, AnswerInit, AnswerNext, PTL DEF Spec

-----------------------------------------------------------------------------
(* The channel: what the host asked and got is a behaviour of CallChannel.  *)

\* The channel's variables keep their values for call n.
Same(n) ==
  Stage'[n] = Stage[n] /\ Permit'[n] = Permit[n] /\ Given'[n] = Given[n]

\* A host that uses no id twice.
UniqueInv == AnswerInv /\ DisclosureInv /\ IdsUnique

LEMMA UniqueInit == Init => UniqueInv
BY AnswerInit, DisclosureInit DEF UniqueInv, IdsUnique, Init

\* What a step may do to the two streams of the host.
LEMMA Streams ==
  ASSUME TypeOK, [Next]_vars
  PROVE  \/ UNCHANGED <<asked, toHost>>
         \/ \E l \in HostLines : /\ MayWrite(l) /\ asked' = Append(asked, l)
                                 /\ UNCHANGED toHost
         \/ UNCHANGED asked /\ \E o : toHost' = Append(toHost, o)
<1>1. CASE \E l \in HostLines : ReadRefused(l) \/ ReadAdmitted(l)
  BY <1>1 DEF ReadRefused, ReadAdmitted
<1>2. CASE Answer
  BY <1>2, Zenon DEF Answer
<1>3. CASE Relay
  BY <1>3, Zenon DEF Relay
<1>4. CASE \E n \in ran, b \in Bodies : ServerAnswers(n, b)
  BY <1>4 DEF ServerAnswers, Pop
<1>5. CASE \E i \in Ids \cup {NullId}, b \in Bodies : ServerStray(i, b)
  BY <1>5 DEF ServerStray, Pop
<1>6. CASE \E b \in Bodies : ServerLogs(b)
  BY <1>6 DEF ServerLogs
<1>7. CASE GateGrants \/ GateRefuses \/ Remember \/ Forward \/ ForwardBroken
           \/ ReadHostEof
  BY <1>7 DEF GateGrants, GateRefuses, Remember, Forward, ForwardBroken,
              ReadHostEof, records
<1>8. CASE JudgeUnmatched \/ JudgeGated \/ JudgeInterface \/ JudgePlain
           \/ ReadServerEof
  BY <1>8 DEF JudgeUnmatched, JudgeGated, JudgeInterface, JudgePlain,
              ReadServerEof, records
<1>9. CASE JoinC2S \/ Exit \/ HostCloses \/ HostDies \/ ServerDies
           \/ UNCHANGED vars
  BY <1>9 DEF JoinC2S, Exit, HostCloses, HostDies, ServerDies, vars, records
<1> QED
  BY <1>1, <1>2, <1>3, <1>4, <1>5, <1>6, <1>7, <1>8, <1>9
  DEF Next, C2SPump, C2SJudges, S2CPump, S2CJudges, Exited

LEMMA UniqueNext ==
  ASSUME ~ReuseIds
  PROVE  UniqueInv /\ [Next]_vars => UniqueInv'
<1> SUFFICES ASSUME UniqueInv, [Next]_vars
             PROVE  UniqueInv'
  OBVIOUS
<1>1. AnswerInv' /\ DisclosureInv' /\ TypeOK
  BY AnswerNext, DisclosureNext DEF UniqueInv, AnswerInv
<1>2. IdsUnique'
  <2>1. CASE UNCHANGED asked
    BY <2>1 DEF UniqueInv, IdsUnique
  <2>2. ASSUME NEW l \in HostLines, MayWrite(l), asked' = Append(asked, l)
        PROVE  IdsUnique'
    <3>1. asked \in Seq(Line) /\ l \in Line
      BY <1>1, HostAssumption DEF TypeOK, HostAssumption
    <3>2. \A m \in DOMAIN asked' : \/ m \in DOMAIN asked /\ asked'[m] = asked[m]
                                   \/ m = Len(asked) + 1 /\ asked'[m] = l
      BY <2>2, <3>1
    <3>3. IsRequest(l) /\ l.id # NullId =>
            \A k \in DOMAIN asked : asked[k].id # l.id \/ ~IsRequest(asked[k])
      BY <2>2 DEF MayWrite
    <3> QED
      BY <3>2, <3>3 DEF UniqueInv, IdsUnique
  <2> QED
    BY <1>1, <2>1, <2>2, Streams
<1> QED
  BY <1>1, <1>2 DEF UniqueInv

\* A call may carry carriers.
LEMMA PermittedType ==
  ASSUME NEW l \in HostLines
  PROVE  Permitted(l) \subseteq Carriers
<1>1. l \in Line /\ ((l.kind = "plain") = (l.op \in PlainOps))
  BY HostAssumption DEF HostAssumption
<1>2. ASSUME Gated(l), Refusal(l) = None
      PROVE  Allowed[PurposeOf(l)] \subseteq Carriers
  <2>1. PurposeOf(l) # None
    BY <1>2, PolicyAssumption, Zenon
    DEF Refusal, Gated, PolicyAssumption, LoadedPolicy, LoadedPurposes, LoadedRules, Reasons
  <2>2. l.op \in Ops
    BY <1>1, <1>2 DEF Gated, Line
  <2>3. PurposeOf(l) \in Purposes \cup {None}
    BY <2>2, PolicyAssumption DEF PurposeOf, PolicyAssumption, LoadedPolicy, LoadedPurposes, LoadedRules
  <2> QED
    BY <2>1, <2>3, PolicyAssumption DEF PolicyAssumption, LoadedPolicy, LoadedPurposes, LoadedRules, Carriers
<1> QED
  BY <1>2, PolicyAssumption DEF Permitted, PolicyAssumption, LoadedPolicy, LoadedPurposes, LoadedRules, Carriers

\* The channel's variables are functions of the calls.
LEMMA Shapes ==
  /\ Stage = [n \in 1 .. MaxAsked |-> Stage[n]]
  /\ Permit = [n \in 1 .. MaxAsked |-> Permit[n]]
  /\ Given = [n \in 1 .. MaxAsked |-> Given[n]]
  /\ Stage' = [n \in 1 .. MaxAsked |-> Stage'[n]]
  /\ Permit' = [n \in 1 .. MaxAsked |-> Permit'[n]]
  /\ Given' = [n \in 1 .. MaxAsked |-> Given'[n]]
<1>1. /\ Stage = [n \in 1 .. MaxAsked |-> Stage[n]]
      /\ Stage' = [n \in 1 .. MaxAsked |-> Stage'[n]]
  BY DEF Stage, Tracked, SettledLines
<1>2. /\ Permit = [n \in 1 .. MaxAsked |-> Permit[n]]
      /\ Permit' = [n \in 1 .. MaxAsked |-> Permit'[n]]
  BY DEF Permit
<1>3. /\ Given = [n \in 1 .. MaxAsked |-> Given[n]]
      /\ Given' = [n \in 1 .. MaxAsked |-> Given'[n]]
  BY DEF Given, Tracked, SettledLines
<1> QED
  BY <1>1, <1>2, <1>3

\* A call is opened, or settled.
LEMMA OpenMeans ==
  ASSUME NEW c \in 1 .. MaxAsked, Stage[c] = "none", Stage'[c] = "open",
         Given'[c] = Given[c], \A m \in 1 .. MaxAsked : m # c => Same(m)
  PROVE  Channel!Open(c, Permit'[c])
BY Shapes DEF Channel!Open, Same

LEMMA SettleMeans ==
  ASSUME NEW c \in 1 .. MaxAsked, Stage[c] = "open", Stage'[c] = "settled",
         Permit'[c] = Permit[c], Given'[c] \subseteq Permit[c],
         \A m \in 1 .. MaxAsked : m # c => Same(m)
  PROVE  Channel!Settle(c, Given'[c])
BY Shapes DEF Channel!Settle, Same

LEMMA SameMeans ==
  ASSUME \A m \in 1 .. MaxAsked : Same(m)
  PROVE  UNCHANGED Channel!vars
BY Shapes DEF Channel!vars, Same

\* A line of the host opens a call: nobody has answered it yet.
LEMMA ChannelOpens ==
  ASSUME UniqueInv, UniqueInv', ~ReuseIds, NEW l \in HostLines, MayWrite(l),
         asked' = Append(asked, l), UNCHANGED toHost
  PROVE  Channel!Next
<1> DEFINE c == Len(asked) + 1
<1>0. /\ asked \in Seq(Line) /\ Len(asked) \in Nat /\ Len(asked) < MaxAsked
      /\ MaxAsked \in Nat /\ toHost \in Seq(HostLine)
  BY ModeAssumption DEF UniqueInv, AnswerInv, TypeOK, MayWrite, ModeAssumption, StartOptions
<1>1. /\ c \in 1 .. MaxAsked /\ c \notin DOMAIN asked
      /\ DOMAIN asked' = DOMAIN asked \cup {c} /\ asked'[c] = l
      /\ \A m \in DOMAIN asked : asked'[m] = asked[m]
  BY <1>0, HostAssumption DEF HostAssumption
<1>2. ASSUME NEW m \in 1 .. MaxAsked, m # c PROVE Same(m)
  BY <1>1, <1>2 DEF Same, Stage, Permit, Given, Tracked, SettledLines
<1>3. ASSUME IsRequest(l), l.id \in Ids, NEW k \in DOMAIN toHost
      PROVE  toHost[k].id # l.id
  <2> SUFFICES ASSUME toHost[k].id = l.id PROVE FALSE
    OBVIOUS
  <2>1. k \in Told
    BY <1>3, HostAssumption DEF Told, HostAssumption
  <2>2. Names(toHost[k].n, l.id)
    BY <2>1 DEF UniqueInv, AnswerInv, Named
  <2> QED
    BY <1>0, <1>3, <2>2, HostAssumption DEF MayWrite, Names, HostAssumption
<1>4. Stage[c] = "none" /\ Given[c] = {}
  BY <1>1 DEF Stage, Given, Tracked, SettledLines
<1>5. Stage'[c] = "open" /\ Given'[c] = {}
  BY <1>1, <1>3 DEF Stage, Given, Tracked, SettledLines
<1>6. Permit'[c] \in SUBSET Carriers
  BY <1>1, PermittedType DEF Permit
<1>7. Channel!Open(c, Permit'[c])
  BY <1>1, <1>2, <1>4, <1>5, OpenMeans
<1> QED
  BY <1>1, <1>6, <1>7 DEF Channel!Next

\* A line to the host settles the call it answers, if it answers one.
LEMMA ChannelSettles ==
  ASSUME UniqueInv, UniqueInv', UNCHANGED asked, NEW o, toHost' = Append(toHost, o)
  PROVE  Channel!Next \/ UNCHANGED Channel!vars
<1> DEFINE k0 == Len(toHost) + 1
<1>0. /\ asked \in Seq(Line) /\ Len(asked) \in Nat /\ Len(asked) <= MaxAsked
      /\ MaxAsked \in Nat /\ toHost \in Seq(HostLine)
  BY ModeAssumption DEF UniqueInv, AnswerInv, TypeOK, ModeAssumption, StartOptions
<1>1. /\ DOMAIN toHost' = DOMAIN toHost \cup {k0} /\ k0 \notin DOMAIN toHost
      /\ toHost'[k0] = o /\ \A k \in DOMAIN toHost : toHost'[k] = toHost[k]
  BY <1>0
<1>2. ASSUME NEW m \in 1 .. MaxAsked,
             m \in DOMAIN asked /\ Tracked(m) => o.id # asked[m].id
      PROVE  Same(m)
  BY <1>1, <1>2 DEF Same, Stage, Permit, Given, Tracked, SettledLines
<1>3. CASE o.id \notin Ids
  BY <1>2, <1>3, SameMeans DEF Tracked
<1>4. CASE o.id \in Ids
  <2> DEFINE c == o.n
  <2>1. /\ c \in DOMAIN asked /\ c \in 1 .. MaxAsked
        /\ Tracked(c) /\ asked[c].id = o.id /\ IsRequest(asked[c])
    <3>1. k0 \in Told'
      BY <1>1, <1>4, HostAssumption DEF Told, HostAssumption
    <3>2. Names(o.n, o.id)'
      BY <1>1, <3>1 DEF UniqueInv, AnswerInv, Named
    <3> QED
      BY <1>0, <1>4, <3>2 DEF Names, Tracked
  <2>2. ASSUME NEW m \in DOMAIN asked, IsRequest(asked[m]), asked[m].id = o.id
        PROVE  m = c
    BY <1>4, <2>1, <2>2, HostAssumption DEF UniqueInv, IdsUnique, HostAssumption
  <2>3. ASSUME NEW m \in 1 .. MaxAsked, m # c PROVE Same(m)
    BY <1>2, <2>2, <2>3 DEF Tracked
  <2>4. SettledLines(c) = {} /\ SettledLines(c)' = {k0}
    <3>1. OneAnswerPerRequest'
      <4>1. AnswerInv'
        BY DEF UniqueInv
      <4> QED
        BY <4>1, OneAnswer, PTL
    <3>2. IdsUnique'
      BY DEF UniqueInv
    <3>3. \A k \in DOMAIN toHost : toHost[k].id # o.id
      BY <1>1, <1>4, <3>1, <3>2, HostAssumption
      DEF OneAnswerPerRequest, HostAssumption
    <3> QED
      BY <1>1, <2>1, <3>3 DEF SettledLines
  <2>5. o.body \subseteq Permitted(asked[c])
    BY <1>1, <1>4, <2>2 DEF UniqueInv, DisclosureInv, MinimumDisclosure, Covered
  <2>6. Stage[c] = "open" /\ Stage'[c] = "settled"
    BY <2>1, <2>4 DEF Stage, Tracked, SettledLines
  <2>7. /\ Permit'[c] = Permit[c] /\ Given'[c] = o.body
        /\ Permit[c] = Permitted(asked[c])
    <3>1. UNION {toHost'[k].body : k \in {k0}} = o.body
      BY <1>1
    <3>2. Given'[c] = UNION {toHost'[k].body : k \in SettledLines(c)'}
      BY <2>1 DEF Given, Tracked, SettledLines
    <3> QED
      BY <2>1, <2>4, <3>1, <3>2 DEF Permit
  <2>8. Given'[c] \in SUBSET Carriers
    <3>1. asked[c] \in Line
      BY <1>0, <2>1
    <3> QED
      BY <1>0, <1>1, <2>7 DEF UniqueInv, AnswerInv, TypeOK, HostLine
  <2>9. Channel!Settle(c, Given'[c])
    BY <2>1, <2>3, <2>5, <2>6, <2>7, SettleMeans
  <2> QED
    BY <2>1, <2>8, <2>9 DEF Channel!Next
<1> QED
  BY <1>3, <1>4

LEMMA ChannelNext ==
  ASSUME ~ReuseIds
  PROVE  UniqueInv /\ UniqueInv' /\ [Next]_vars => [Channel!Next]_(Channel!vars)
<1> SUFFICES ASSUME UniqueInv, UniqueInv', [Next]_vars
             PROVE  Channel!Next \/ UNCHANGED Channel!vars
  OBVIOUS
<1>1. CASE UNCHANGED <<asked, toHost>>
  <2>1. \A m \in 1 .. MaxAsked : Same(m)
    BY <1>1 DEF Same, Stage, Permit, Given, Tracked, SettledLines
  <2> QED
    BY <2>1, SameMeans
<1>2. TypeOK
  BY DEF UniqueInv, AnswerInv
<1> QED
  BY <1>1, <1>2, Streams, ChannelOpens, ChannelSettles

LEMMA ChannelInit == Init => Channel!Init
BY DEF Init, Channel!Init, Stage, Permit, Given, Tracked, SettledLines

\* Where the host uses no id twice, what it asked and got is a behaviour of
\* CallChannel: a call is opened with what it may carry and settled once, in
\* one step, with content within that permit (McpProxy!ImplementsChannel).
THEOREM Refines ==
  ASSUME ~ReuseIds
  PROVE  Spec => ImplementsChannel
<1>1. UniqueInv /\ [Next]_vars => UniqueInv'
  BY UniqueNext
<1>2. UniqueInv /\ UniqueInv' /\ [Next]_vars => [Channel!Next]_(Channel!vars)
  BY ChannelNext
<1> QED
  BY <1>1, <1>2, UniqueInit, ChannelInit, PTL
  DEF Spec, ImplementsChannel, Channel!Spec

-----------------------------------------------------------------------------
(* The audit.                                                               *)

\* The requests whose reply is still to be judged: recorded, about to be, or
\* in the hand of s2c.
Untold == {pending[i] : i \in Ids}
          \cup (IF s2c = "judge" THEN {hit} ELSE {})
          \cup (IF c2s \in {"gate", "remember"} THEN {Current} ELSE {})

\* What the audit says of a line that s2c relays or relayed.
IsTold(o) ==
  o.kind = "result" =>
    /\ o.n \in 1 .. Len(asked)
    /\ Gated(asked[o.n]) =>
         \E e \in DOMAIN audit :
           /\ audit[e].n = o.n /\ audit[e].decision = "allow"
           /\ \A f \in DOMAIN audit : audit[f].n = o.n => e = f
           /\ o.body # o.raw => audit[e].outcome = "access_reduced"
           /\ audit[e].outcome = "protected" =>
                /\ o.body \cap Opaque = {}
                /\ ~ArgumentsUnchecked(asked[o.n])

\* No event is about a gated call whose reply is to be judged;
Unheard == \A k \in DOMAIN audit :
             audit[k].n \in Untold => audit[k].n = 0 \/ ~Gated(asked[audit[k].n])
\* the line on its way to the host is told of, and those it received are.
OutTold  == s2c = "relay" => IsTold(out)
HostTold == \A k \in DOMAIN toHost : IsTold(toHost[k])

Agreement == Unheard /\ OutTold /\ HostTold /\ LogEventStands
AuditInv  == DenialInv /\ AnswerInv /\ (AuditCanFail \/ Agreement)

\* The step reads a line of the host, or none.
Reads == UNCHANGED asked \/ \E l \in Line : asked' = Append(asked, l)
\* The step adds no event, or one that is the first about its gated call, and
\* the call is not to be judged again.
Tells ==
  \/ UNCHANGED audit
  \/ \E e \in AuditEvent :
       /\ audit' = Append(audit, e)
       /\ e.n \in 1 .. Len(asked) /\ Gated(asked[e.n]) => e.n \in Untold
       /\ e.n \in Untold' => e.n = 0 \/ ~Gated(asked'[e.n])

LEMMA AskedStays ==
  ASSUME TypeOK, Reads
  PROVE  /\ Len(asked) \in Nat /\ Len(asked') \in Nat /\ Len(asked) <= Len(asked')
         /\ \A n \in 1 .. Len(asked) : asked'[n] = asked[n]
<1>1. asked \in Seq(Line)
  BY DEF TypeOK
<1>2. CASE UNCHANGED asked
  BY <1>1, <1>2
<1>3. ASSUME NEW l \in Line, asked' = Append(asked, l)
      PROVE  /\ Len(asked) \in Nat /\ Len(asked') \in Nat /\ Len(asked) <= Len(asked')
             /\ \A n \in 1 .. Len(asked) : asked'[n] = asked[n]
  BY <1>1, <1>3
<1> QED
  BY <1>2, <1>3 DEF Reads

LEMMA UnheardStays ==
  ASSUME TypeOK, Numbered, Unheard, Reads, Tells,
         Untold' \subseteq Untold \cup {0, Len(asked) + 1}
  PROVE  Unheard'
<1>1. audit \in Seq(AuditEvent) /\ Len(asked) \in Nat
  BY DEF TypeOK
<1>2. ASSUME NEW k \in DOMAIN audit, audit[k].n \in Untold'
      PROVE  audit[k].n = 0 \/ ~Gated(asked'[audit[k].n])
  BY <1>1, <1>2, AskedStays DEF Numbered, Unheard
<1>3. CASE UNCHANGED audit
  BY <1>2, <1>3 DEF Unheard
<1>4. ASSUME NEW e \in AuditEvent, audit' = Append(audit, e),
             e.n \in Untold' => e.n = 0 \/ ~Gated(asked'[e.n])
      PROVE  Unheard'
  <2>1. \A k \in DOMAIN audit' : \/ k \in DOMAIN audit /\ audit'[k] = audit[k]
                                 \/ audit'[k] = e
    BY <1>1, <1>4
  <2> QED
    BY <1>2, <1>4, <2>1 DEF Unheard
<1> QED
  BY <1>3, <1>4 DEF Tells

LEMMA ToldStays ==
  ASSUME TypeOK, Unheard, Reads, Tells
  PROVE  \A o : IsTold(o) => IsTold(o)'
<1>1. audit \in Seq(AuditEvent)
  BY DEF TypeOK
<1> SUFFICES ASSUME NEW o, IsTold(o), o.kind = "result"
             PROVE  /\ o.n \in 1 .. Len(asked')
                    /\ Gated(asked'[o.n]) =>
                         \E e \in DOMAIN audit' :
                           /\ audit'[e].n = o.n /\ audit'[e].decision = "allow"
                           /\ \A f \in DOMAIN audit' : audit'[f].n = o.n => e = f
                           /\ o.body # o.raw => audit'[e].outcome = "access_reduced"
                           /\ audit'[e].outcome = "protected" =>
                                /\ o.body \cap Opaque = {}
                                /\ ~ArgumentsUnchecked(asked'[o.n])
  BY DEF IsTold
<1>2. o.n \in 1 .. Len(asked) /\ o.n \in 1 .. Len(asked') /\ asked'[o.n] = asked[o.n]
  BY AskedStays DEF IsTold
<1>3. CASE UNCHANGED audit
  BY <1>2, <1>3 DEF IsTold
<1>4. CASE ~Gated(asked[o.n])
  BY <1>2, <1>4
<1>5. ASSUME Gated(asked[o.n]), NEW x \in AuditEvent, audit' = Append(audit, x),
             x.n \in 1 .. Len(asked) /\ Gated(asked[x.n]) => x.n \in Untold
      PROVE  \E e \in DOMAIN audit' :
               /\ audit'[e].n = o.n /\ audit'[e].decision = "allow"
               /\ \A f \in DOMAIN audit' : audit'[f].n = o.n => e = f
               /\ o.body # o.raw => audit'[e].outcome = "access_reduced"
               /\ audit'[e].outcome = "protected" =>
                    /\ o.body \cap Opaque = {}
                    /\ ~ArgumentsUnchecked(asked'[o.n])
  <2>1. PICK e \in DOMAIN audit :
               /\ audit[e].n = o.n /\ audit[e].decision = "allow"
               /\ \A f \in DOMAIN audit : audit[f].n = o.n => e = f
               /\ o.body # o.raw => audit[e].outcome = "access_reduced"
               /\ audit[e].outcome = "protected" =>
                    /\ o.body \cap Opaque = {}
                    /\ ~ArgumentsUnchecked(asked[o.n])
    BY <1>5 DEF IsTold
  <2>2. o.n \notin Untold
    BY <1>2, <1>5, <2>1 DEF Unheard
  <2>3. x.n # o.n
    BY <1>2, <1>5, <2>2
  <2>4. /\ e \in DOMAIN audit' /\ audit'[e] = audit[e]
        /\ \A f \in DOMAIN audit' : \/ f \in DOMAIN audit /\ audit'[f] = audit[f]
                                    \/ audit'[f] = x
    BY <1>1, <1>5
  <2>5. \A f \in DOMAIN audit' : audit'[f].n = o.n => e = f
    BY <2>1, <2>3, <2>4
  <2>6. ArgumentsUnchecked(asked'[o.n]) = ArgumentsUnchecked(asked[o.n])
    BY <1>2
  <2> QED
    BY <2>1, <2>4, <2>5, <2>6
<1> QED
  BY <1>2, <1>3, <1>4, <1>5 DEF Tells

\* The events that are written while no gated reply is judged leave the log's
\* event where it stands.
LEMMA LogStands ==
  ASSUME TypeOK, Numbered, LogEventStands, ~AuditCanFail, Reads,
         ~logDue' => ~logDue,
         \/ UNCHANGED audit
         \/ \E e \in AuditEvent :
              /\ audit' = Append(audit, e)
              /\ e.n # 0 /\ e.decision = "allow" => ~Gated(asked'[e.n])
  PROVE  LogEventStands'
<1>1. audit \in Seq(AuditEvent)
  BY DEF TypeOK
<1> SUFFICES ASSUME ~logDue, ~logDue'
             PROVE  \E k \in DOMAIN audit' :
                      /\ audit'[k] = LogEvent
                      /\ \A j \in k + 1 .. Len(audit') :
                           audit'[j].n # 0 /\ audit'[j].decision = "allow"
                             => ~Gated(asked'[audit'[j].n])
  BY DEF LogEventStands, LogEvent, Event
<1>2. PICK k \in DOMAIN audit :
        /\ audit[k] = LogEvent
        /\ \A j \in k + 1 .. Len(audit) :
             audit[j].n # 0 /\ audit[j].decision = "allow"
               => ~Gated(asked[audit[j].n])
  BY DEF LogEventStands
<1>3. \A j \in k + 1 .. Len(audit) :
        audit[j].n # 0 /\ audit[j].decision = "allow"
          => ~Gated(asked'[audit[j].n])
  <2> TAKE j \in k + 1 .. Len(audit)
  <2>1. j \in DOMAIN audit
    BY <1>1, <1>2
  <2>2. audit[j].n \in 0 .. Len(asked) /\ Len(asked) \in Nat
    BY <2>1 DEF Numbered, TypeOK
  <2> QED
    BY <1>2, <2>2, AskedStays
<1>4. CASE UNCHANGED audit
  BY <1>2, <1>3, <1>4
<1>5. ASSUME NEW e \in AuditEvent, audit' = Append(audit, e),
             e.n # 0 /\ e.decision = "allow" => ~Gated(asked'[e.n])
      PROVE  \E i \in DOMAIN audit' :
               /\ audit'[i] = LogEvent
               /\ \A j \in i + 1 .. Len(audit') :
                    audit'[j].n # 0 /\ audit'[j].decision = "allow"
                      => ~Gated(asked'[audit'[j].n])
  <2>1. /\ k \in DOMAIN audit' /\ audit'[k] = audit[k]
        /\ \A j \in k + 1 .. Len(audit') : \/ j \in k + 1 .. Len(audit) /\ audit'[j] = audit[j]
                                           \/ audit'[j] = e
    BY <1>1, <1>2, <1>5
  <2> QED
    BY <1>2, <1>3, <1>5, <2>1
<1> QED
  BY <1>4, <1>5

LEMMA AuditInit == Init => AuditInv
<1> SUFFICES ASSUME Init PROVE AuditInv
  OBVIOUS
<1>1. audit = <<>> /\ toHost = <<>> /\ s2c = "read" /\ logDue
  BY DEF Init
<1>2. Unheard /\ OutTold /\ HostTold /\ LogEventStands
  BY <1>1 DEF Unheard, OutTold, HostTold, LogEventStands
<1> QED
  BY <1>2, DenialInit, AnswerInit DEF AuditInv, Agreement

\* A step in which s2c judges no gated reply, and the host may get a line that
\* is told of.
LEMMA AuditStep ==
  ASSUME DenialInv, Agreement, ~AuditCanFail, Reads, Tells,
         Untold' \subseteq Untold \cup {0, Len(asked) + 1},
         OutTold',
         \/ UNCHANGED toHost
         \/ \E o \in HostLine : toHost' = Append(toHost, o) /\ IsTold(o)',
         LogEventStands'
  PROVE  Agreement'
<1>1. TypeOK /\ Numbered /\ Unheard /\ toHost \in Seq(HostLine)
  BY DEF DenialInv, TypeOK, Agreement
<1>2. Unheard'
  BY <1>1, UnheardStays
<1>3. \A o : IsTold(o) => IsTold(o)'
  BY <1>1, ToldStays
<1>4. HostTold'
  <2>1. CASE UNCHANGED toHost
    BY <1>3, <2>1 DEF Agreement, HostTold
  <2>2. ASSUME NEW o \in HostLine, toHost' = Append(toHost, o), IsTold(o)'
        PROVE  HostTold'
    <3>1. \A k \in DOMAIN toHost' : \/ k \in DOMAIN toHost /\ toHost'[k] = toHost[k]
                                    \/ toHost'[k] = o
      BY <1>1, <2>2
    <3> QED
      BY <1>3, <2>2, <3>1 DEF Agreement, HostTold
  <2> QED
    BY <2>1, <2>2
<1> QED
  BY <1>2, <1>4 DEF Agreement

\* The verdict on a gated reply agrees with what is relayed of it.
LEMMA VerdictAgrees ==
  ASSUME NEW l, NEW body \in SUBSET Carriers, NEW broken \in BOOLEAN,
         NEW n, asked[n] = l, Gated(l),
         NEW e, e = GatedEvent(n, body, broken),
         NEW given, given = Projection(l, body, broken)
  PROVE  /\ e.n = n /\ e.decision = "allow"
         /\ given # body => e.outcome = "access_reduced"
         /\ e.outcome = "protected" => given \cap Opaque = {} /\ ~ArgumentsUnchecked(l)
<1> DEFINE p == PurposeOf(l)
<1>1. /\ e.n = n /\ e.decision = "allow"
      /\ e.outcome = IF Blocked(l, body, broken) THEN "access_reduced"
                     ELSE IF Unfiltered(l, body) THEN None ELSE "protected"
  BY DEF GatedEvent, Event
<1>2. CASE Blocked(l, body, broken)
  BY <1>1, <1>2
<1>3. CASE ~Blocked(l, body, broken)
  <2>1. ~broken /\ body \cap Fields \subseteq Allowed[p]
        /\ (PassUninspected \/ body \cap Opaque = {})
    BY <1>3 DEF Blocked
  <2>2. given = (body \cap Allowed[p])
                  \cup (IF PassUninspected THEN body \cap Opaque ELSE {})
    BY <2>1 DEF Projection, Approved, FieldRule
  <2>3. given = body
    BY <2>1, <2>2 DEF Carriers
  <2>4. CASE Unfiltered(l, body)
    BY <1>1, <1>3, <2>3, <2>4, PolicyAssumption DEF PolicyAssumption, LoadedPolicy, LoadedPurposes, LoadedRules
  <2>5. CASE ~Unfiltered(l, body)
    BY <1>1, <2>1, <2>3, <2>5 DEF Unfiltered
  <2> QED
    BY <2>3, <2>4, <2>5
<1> QED
  BY <1>1, <1>2, <1>3

LEMMA AuditJudges ==
  ASSUME AuditInv, Agreement, ~AuditCanFail, TypeOK', JudgeGated
  PROVE  Agreement'
<1>1. /\ TypeOK /\ hit # 0 /\ Gated(asked[hit]) /\ s2c = "judge" /\ s2c' = "relay"
      /\ UNCHANGED <<c2s, pending, hit, rep, asked, toHost>> /\ logDue'
  BY DEF JudgeGated, AuditInv, DenialInv, LogArmed
<1>2. PICK broken \in BOOLEAN :
        /\ out' = ToHost(hit, rep.id, "result",
                         Projection(asked[hit], rep.body, broken), rep.body)
        /\ audit' = Append(audit, GatedEvent(hit, rep.body, broken))
  BY DEF JudgeGated, Emit
<1> DEFINE e == GatedEvent(hit, rep.body, broken)
           given == Projection(asked[hit], rep.body, broken)
<1>3. rep.body \in SUBSET Carriers /\ hit \in Numbers /\ audit \in Seq(AuditEvent)
  BY <1>1 DEF TypeOK
<1>4. hit \in 1 .. Len(asked)
  BY <1>1 DEF AuditInv, AnswerInv, Named, Names
<1>5. /\ e \in AuditEvent /\ e.n = hit /\ e.decision = "allow"
      /\ given # rep.body => e.outcome = "access_reduced"
      /\ e.outcome = "protected" => /\ given \cap Opaque = {}
                                    /\ ~ArgumentsUnchecked(asked[hit])
  <2>1. e \in AuditEvent
    BY <1>3, EventTypes
  <2>2. /\ e = GatedEvent(hit, rep.body, broken)
        /\ given = Projection(asked[hit], rep.body, broken)
    OBVIOUS
  <2> HIDE DEF e, given
  <2> QED
    BY <1>1, <1>3, <2>1, <2>2, VerdictAgrees
<1> HIDE DEF e, given
<1>6. hit \in Untold /\ hit \notin Untold'
  <2>1. hit \in Untold
    BY <1>1 DEF Untold
  <2>2. \A i \in Ids : pending[i] # hit
    BY <1>1 DEF AuditInv, AnswerInv, OnePlace
  <2>3. c2s \in {"gate", "remember"} => Current # hit
    BY <1>1 DEF AuditInv, AnswerInv, OnePlace, Busy, Waiting
  <2> QED
    BY <1>1, <2>1, <2>2, <2>3 DEF Untold, Current
<1>7. Tells /\ Reads
  BY <1>1, <1>2, <1>5, <1>6 DEF Tells, Reads, e
<1>8. Untold' \subseteq Untold
  BY <1>1 DEF Untold, Current
<1>9. OutTold'
  <2>1. /\ out'.n = hit /\ out'.body = given /\ out'.raw = rep.body
    BY <1>2 DEF ToHost, given
  <2>2. \A f \in DOMAIN audit : audit[f].n # hit
    BY <1>1, <1>6 DEF Agreement, Unheard
  <2>3. /\ Len(audit) + 1 \in DOMAIN audit' /\ audit'[Len(audit) + 1] = e
        /\ \A f \in DOMAIN audit' : \/ f \in DOMAIN audit /\ audit'[f] = audit[f]
                                    \/ f = Len(audit) + 1
    BY <1>2, <1>3, <1>5 DEF e
  <2>4. \A f \in DOMAIN audit' : audit'[f].n = hit => Len(audit) + 1 = f
    BY <2>2, <2>3
  <2> QED
    BY <1>1, <1>4, <1>5, <2>1, <2>3, <2>4 DEF OutTold, IsTold
<1>10. LogEventStands'
  BY <1>1 DEF LogEventStands
<1> QED
  BY <1>1, <1>7, <1>8, <1>9, <1>10, AuditStep DEF AuditInv

\* A step of c2s, main or a peer that judges and relays nothing.
LEMMA AuditAside ==
  ASSUME AuditInv, Agreement, ~AuditCanFail, Reads, Tells,
         Untold' \subseteq Untold \cup {0, Len(asked) + 1},
         UNCHANGED <<out, logDue>>, s2c' = "relay" => s2c = "relay",
         \/ UNCHANGED toHost
         \/ \E o \in HostLine : toHost' = Append(toHost, o) /\ o.kind # "result",
         \/ UNCHANGED audit
         \/ \E e \in AuditEvent :
              /\ audit' = Append(audit, e)
              /\ e.n # 0 /\ e.decision = "allow" => ~Gated(asked'[e.n])
  PROVE  Agreement'
<1>1. TypeOK /\ Numbered /\ Unheard /\ LogEventStands
  BY DEF AuditInv, DenialInv, Agreement
<1>2. OutTold'
  BY <1>1, ToldStays DEF Agreement, OutTold
<1>3. \/ UNCHANGED toHost
      \/ \E o \in HostLine : toHost' = Append(toHost, o) /\ IsTold(o)'
  BY DEF IsTold
<1>4. LogEventStands'
  BY <1>1, LogStands
<1> QED
  BY <1>2, <1>3, <1>4, AuditStep DEF AuditInv

LEMMA AuditNext == AuditInv /\ [Next]_vars => AuditInv'
<1> SUFFICES ASSUME AuditInv, [Next]_vars, ~AuditCanFail, Agreement
             PROVE  Agreement'
  BY DenialNext, AnswerNext DEF AuditInv
<1>0. /\ TypeOK /\ TypeOK' /\ Numbered /\ Len(asked) \in Nat
      /\ audit \in Seq(AuditEvent)
  BY TypeNext DEF AuditInv, DenialInv, TypeOK
<1>e. \A x : Emit(x) => audit' = Append(audit, x)
  BY DEF Emit
<1>p. {pending[i] : i \in Ids} \cup {hit} \subseteq 0 .. Len(asked)
  BY <1>0 DEF Numbered, Passed
<1>1. ASSUME NEW l \in HostLines, ReadRefused(l) PROVE Agreement'
  <2> DEFINE e == Deny(Len(asked) + 1, Refusal(l))
  <2>1. /\ l \in Line /\ asked' = Append(asked, l) /\ audit' = Append(audit, e)
        /\ UNCHANGED <<pending, hit, s2c, out, logDue, toHost>> /\ c2s' = "block"
    BY <1>1, <1>e, HostAssumption DEF ReadRefused, AfterRefusal, locals, HostAssumption
  <2>2. e \in AuditEvent /\ e.n = Len(asked) + 1 /\ e.decision = "deny"
    <3>1. Len(asked) + 1 \in Numbers
      BY <1>0, <2>1 DEF TypeOK, Numbers
    <3>2. Refusal(l) \in Reasons
      BY <1>1, <2>1, RefusalType DEF ReadRefused
    <3> QED
      BY <3>1, <3>2, EventTypes DEF Deny, Event
  <2> HIDE DEF e
  <2>3. Untold' \subseteq Untold /\ Untold' \subseteq 0 .. Len(asked)
    BY <1>p, <2>1 DEF Untold
  <2>4. Reads /\ Tells
    BY <1>0, <2>1, <2>2, <2>3 DEF Reads, Tells
  <2> QED
    BY <2>1, <2>2, <2>3, <2>4, AuditAside
<1>2. ASSUME NEW l \in HostLines, ReadAdmitted(l) PROVE Agreement'
  <2>1. /\ l \in Line /\ asked' = Append(asked, l)
        /\ UNCHANGED <<pending, hit, s2c, out, logDue, toHost, audit>>
    BY <1>2, HostAssumption DEF ReadAdmitted, locals, HostAssumption
  <2>2. Untold' \subseteq Untold \cup {Len(asked) + 1}
    BY <1>0, <2>1 DEF Untold, Current, TypeOK
  <2>3. Reads /\ Tells
    BY <2>1 DEF Reads, Tells
  <2> QED
    BY <2>1, <2>2, <2>3, AuditAside
<1>3. ASSUME GateRefuses PROVE Agreement'
  <2>1. PICK reason \in GateReasons : Emit(Deny(Current, reason))
    BY <1>3 DEF GateRefuses
  <2> DEFINE e == Deny(Current, reason)
  <2>2. /\ c2s = "gate" /\ c2s' = "block" /\ audit' = Append(audit, e)
        /\ UNCHANGED <<asked, pending, hit, s2c, out, logDue, toHost>>
    BY <1>3, <1>e, <2>1 DEF GateRefuses, AfterRefusal, locals
  <2>3. e \in AuditEvent /\ e.n = Current /\ e.decision = "deny"
    <3>1. Current \in Numbers
      BY <1>0 DEF TypeOK, Current, Numbers
    <3>2. reason \in Reasons
      BY DEF GateReasons, Reasons
    <3> QED
      BY <3>1, <3>2, EventTypes DEF Deny, Event
  <2> HIDE DEF e
  <2>4. Untold' \subseteq Untold /\ Current \in Untold /\ Current \notin Untold'
    BY <2>2 DEF Untold, AuditInv, DenialInv, AtTheGate, Passed
  <2>5. Reads /\ Tells
    BY <2>2, <2>3, <2>4 DEF Reads, Tells
  <2> QED
    BY <2>2, <2>3, <2>4, <2>5, AuditAside
<1>4. ASSUME GateGrants \/ Forward \/ ForwardBroken \/ ReadHostEof PROVE Agreement'
  <2>1. /\ UNCHANGED <<asked, pending, hit, s2c, out, logDue, toHost, audit>>
        /\ c2s' \in {"gate", "remember"} => c2s \in {"gate", "remember"}
    BY <1>4 DEF GateGrants, Forward, ForwardBroken, ReadHostEof, locals, records
  <2>2. Untold' \subseteq Untold
    BY <2>1 DEF Untold, Current
  <2> QED
    BY <2>1, <2>2, AuditAside DEF Reads, Tells
<1>5. ASSUME Remember PROVE Agreement'
  <2>1. /\ UNCHANGED <<asked, hit, s2c, out, logDue, toHost, audit>>
        /\ c2s = "remember" /\ c2s' = "forward"
        /\ \A i \in Ids : pending'[i] \in {pending[i], Current}
    BY <1>0, <1>5 DEF Remember, locals, records, TypeOK
  <2>2. Untold' \subseteq Untold
    BY <2>1 DEF Untold
  <2> QED
    BY <2>1, <2>2, AuditAside DEF Reads, Tells
<1>6. ASSUME Answer PROVE Agreement'
  <2>1. /\ UNCHANGED <<asked, pending, hit, s2c, out, logDue, audit>>
        /\ c2s' \in {"dead", "read"}
    BY <1>6 DEF Answer, locals
  <2>2. \/ UNCHANGED toHost
        \/ \E o \in HostLine : toHost' = Append(toHost, o) /\ o.kind # "result"
    <3>1. CASE host = "gone"
      BY <1>6, <3>1 DEF Answer
    <3>2. CASE host # "gone"
      <4> DEFINE kind == IF c2s = "block" THEN "blocked" ELSE "error"
                 id == IF IsRequest(asked[Current]) THEN asked[Current].id
                       ELSE NullId
                 o == ToHost(Current, id, kind, {}, {})
      <4>1. toHost' = Append(toHost, o) /\ c2s \in {"block", "badCursor"}
        BY <1>6, <3>2, Zenon DEF Answer
      <4>2. o.kind # "result"
        BY DEF ToHost
      <4>3. Current \in 1 .. Len(asked) /\ Current \in Numbers /\ asked[Current] \in Line
        BY <1>0, <4>1, ModeAssumption DEF TypeOK, Current, Numbers, ModeAssumption, StartOptions
      <4>4. id \in Ids \cup {NullId}
        BY <4>3 DEF Line
      <4>5. kind \in {"none", "blocked", "error", "result", "log"}
        OBVIOUS
      <4> HIDE DEF id, kind
      <4>6. o \in HostLine
        BY <4>3, <4>4, <4>5, ToHostType
      <4> QED
        BY <4>1, <4>2, <4>6
    <3> QED
      BY <3>1, <3>2
  <2>3. Untold' \subseteq Untold
    BY <2>1 DEF Untold
  <2> QED
    BY <2>1, <2>2, <2>3, AuditAside DEF Reads, Tells
<1>7. ASSUME NEW r, Pop(r), UNCHANGED asked PROVE Agreement'
  <2>1. /\ UNCHANGED <<c2s, out, logDue, toHost, audit>> /\ s2c' = "judge"
        /\ \A i \in Ids : pending'[i] \in {pending[i], 0}
        /\ hit' \in {pending[i] : i \in Ids} \cup {0}
    BY <1>0, <1>7 DEF Pop, Popped, TypeOK
  <2>2. Untold' \subseteq Untold \cup {0}
    BY <1>7, <2>1 DEF Untold, Current
  <2> QED
    BY <1>7, <2>1, <2>2, AuditAside DEF Reads, Tells
<1>8. ASSUME NEW b \in Bodies, ServerLogs(b) PROVE Agreement'
  <2>1. /\ UNCHANGED <<asked, pending, hit, c2s, toHost>> /\ s2c = "read" /\ ~logDue'
        /\ IF logDue THEN audit' = Append(audit, LogEvent) ELSE UNCHANGED audit
        /\ UNCHANGED <<out, s2c>> \/ (s2c' = "relay" /\ out'.kind = "log")
    BY <1>8, <1>e DEF ServerLogs, ToHost
  <2>2. LogEvent \in AuditEvent /\ LogEvent.n = 0
    BY LogEventType DEF LogEvent, Event
  <2>3. Untold' \subseteq Untold
    BY <2>1 DEF Untold, Current
  <2>4. Reads /\ Tells
    BY <1>0, <2>1, <2>2 DEF Reads, Tells
  <2>5. OutTold'
    BY <2>1 DEF OutTold, IsTold
  <2>6. LogEventStands'
    <3>1. CASE logDue
      <4>1. /\ Len(audit) + 1 \in DOMAIN audit' /\ audit'[Len(audit) + 1] = LogEvent
            /\ Len(audit') = Len(audit) + 1
        BY <1>0, <2>1, <2>2, <3>1
      <4>2. LogEvent' = LogEvent
        BY DEF LogEvent
      <4>3. Len(audit) \in Nat
        BY <1>0
      <4>4. Len(audit) + 1 + 1 .. Len(audit') = {}
        BY <4>1, <4>3
      <4> QED
        BY <4>1, <4>2, <4>4 DEF LogEventStands
    <3>2. CASE ~logDue
      BY <1>0, <2>1, <2>4, <3>2, LogStands DEF Agreement
    <3> QED
      BY <3>1, <3>2
  <2> QED
    BY <2>1, <2>3, <2>4, <2>5, <2>6, AuditStep DEF AuditInv
<1>9. ASSUME JudgeUnmatched PROVE Agreement'
  <2> DEFINE e == Deny(0, "unmatched_response")
  <2>1. /\ UNCHANGED <<asked, pending, c2s, toHost, logDue>> /\ s2c' = "read"
        /\ audit' = Append(audit, e)
    BY <1>9, <1>e DEF JudgeUnmatched
  <2>2. e \in AuditEvent /\ e.n = 0 /\ e.decision = "deny"
    <3>1. 0 \in Numbers /\ "unmatched_response" \in Reasons
      BY ModeAssumption DEF Reasons, Numbers, ModeAssumption, StartOptions
    <3> QED
      BY <3>1, EventTypes DEF Deny, Event
  <2> HIDE DEF e
  <2>3. Untold' \subseteq Untold
    BY <2>1 DEF Untold, Current
  <2>4. Reads /\ Tells
    BY <1>0, <2>1, <2>2 DEF Reads, Tells
  <2>5. OutTold'
    BY <2>1 DEF OutTold
  <2>6. LogEventStands'
    BY <1>0, <2>1, <2>2, <2>4, LogStands DEF Agreement
  <2> QED
    BY <2>1, <2>3, <2>4, <2>5, <2>6, AuditStep DEF AuditInv
<1>10. ASSUME JudgeGated PROVE Agreement'
  BY <1>0, <1>10, AuditJudges
<1>11. ASSUME JudgeInterface \/ JudgePlain PROVE Agreement'
  <2>1. /\ UNCHANGED <<asked, pending, hit, c2s, toHost, logDue>> /\ s2c = "judge"
        /\ hit # 0 /\ ~Gated(asked[hit]) /\ s2c' \in {"relay", "dead"}
        /\ s2c' = "relay" => out'.n = hit
    <3>1. \A k, body, raw : ToHost(hit, rep.id, k, body, raw).n = hit
      BY DEF ToHost
    <3>2. CASE JudgeInterface
      <4>1. /\ UNCHANGED <<asked, pending, hit, c2s, toHost, logDue>> /\ s2c = "judge"
            /\ hit # 0 /\ Interface(asked[hit])
        BY <3>2 DEF JudgeInterface
      <4>2. \/ s2c' = "relay" /\ out' = ToHost(hit, rep.id, "result",
                         Projection(asked[hit], rep.body, FALSE), rep.body)
            \/ s2c' = "dead"
        BY <3>2, Zenon DEF JudgeInterface
      <4>3. ~Gated(asked[hit])
        BY <4>1 DEF Interface, Gated
      <4>4. s2c' \in {"relay", "dead"} /\ (s2c' = "relay" => out'.n = hit)
        BY <3>1, <4>2
      <4> QED
        BY <4>1, <4>3, <4>4
    <3>3. CASE JudgePlain
      BY <3>1, <3>3 DEF JudgePlain
    <3> QED
      BY <1>11, <3>2, <3>3
  <2>2. hit \in 1 .. Len(asked) /\ hit \in Numbers
    BY <1>0, <2>1 DEF AuditInv, AnswerInv, Named, Names, TypeOK
  <2>3. \/ UNCHANGED audit
        \/ \E e \in AuditEvent : audit' = Append(audit, e) /\ e.n = hit
    <3>1. CASE JudgeInterface
      <4>1. InterfaceEvent(hit) \in AuditEvent /\ InterfaceEvent(hit).n = hit
        BY <2>2, EventTypes DEF InterfaceEvent, Event
      <4> QED
        BY <1>e, <3>1, <4>1 DEF JudgeInterface
    <3>2. CASE JudgePlain
      <4>1. \A r \in Reasons : Deny(hit, r) \in AuditEvent /\ Deny(hit, r).n = hit
        BY <2>2, EventTypes DEF Deny, Event
      <4>2. /\ "unrecognized_method_reply" \in Reasons
            /\ "protocol_version_unsupported" \in Reasons
        BY DEF Reasons
      <4> QED
        BY <1>e, <3>2, <4>1, <4>2 DEF JudgePlain
    <3> QED
      BY <1>11, <3>1, <3>2
  <2>4. Untold' \subseteq Untold
    BY <2>1 DEF Untold, Current
  <2>5. Reads /\ Tells
    BY <2>1, <2>3 DEF Reads, Tells
  <2>6. OutTold'
    BY <2>1, <2>2 DEF OutTold, IsTold
  <2>7. LogEventStands'
    <3>1. \/ UNCHANGED audit
          \/ \E e \in AuditEvent :
               /\ audit' = Append(audit, e)
               /\ e.n # 0 /\ e.decision = "allow" => ~Gated(asked'[e.n])
      BY <2>1, <2>3
    <3> QED
      BY <1>0, <2>1, <2>5, <3>1, LogStands DEF Agreement
  <2> QED
    BY <2>1, <2>4, <2>5, <2>6, <2>7, AuditStep DEF AuditInv
<1>12. ASSUME Relay PROVE Agreement'
  <2>1. /\ UNCHANGED <<asked, pending, c2s, logDue, audit>>
        /\ s2c = "relay" /\ s2c' \in {"read", "dead"}
        /\ UNCHANGED toHost \/ toHost' = Append(toHost, out)
    BY <1>12 DEF Relay
  <2>2. Untold' \subseteq Untold
    BY <2>1 DEF Untold, Current
  <2>3. Reads /\ Tells
    BY <2>1 DEF Reads, Tells
  <2>4. OutTold'
    BY <2>1 DEF OutTold
  <2>5. \A o : IsTold(o) => IsTold(o)'
    BY <1>0, <2>3, ToldStays DEF Agreement
  <2>6. \/ UNCHANGED toHost
        \/ \E o \in HostLine : toHost' = Append(toHost, o) /\ IsTold(o)'
    <3>1. PICK o \in HostLine : o = out
      BY <1>0 DEF TypeOK
    <3>2. IsTold(o)
      BY <2>1, <3>1 DEF Agreement, OutTold
    <3> QED
      BY <2>1, <2>5, <3>1, <3>2
  <2>7. LogEventStands'
    BY <1>0, <2>1, <2>3, LogStands DEF Agreement
  <2> QED
    BY <2>2, <2>3, <2>4, <2>6, <2>7, AuditStep DEF AuditInv
<1>13. ASSUME \/ ReadServerEof \/ JoinC2S \/ Exit
              \/ HostCloses \/ HostDies \/ ServerDies \/ UNCHANGED vars
       PROVE  Agreement'
  <2>1. /\ UNCHANGED <<asked, pending, hit, c2s, out, logDue, toHost, audit>>
        /\ s2c' = s2c \/ s2c' = "closed"
    BY <1>13
    DEF ReadServerEof, JoinC2S, Exit, HostCloses, HostDies, ServerDies, vars, locals, records
  <2>2. Untold' \subseteq Untold
    BY <2>1 DEF Untold, Current
  <2> QED
    BY <2>1, <2>2, AuditAside DEF Reads, Tells
<1>14. ASSUME NEW n \in ran, NEW b \in Bodies, ServerAnswers(n, b) PROVE Agreement'
  BY <1>7, <1>14 DEF ServerAnswers, Pop
<1>15. ASSUME NEW i \in Ids \cup {NullId}, NEW b \in Bodies, ServerStray(i, b)
       PROVE  Agreement'
  BY <1>7, <1>15 DEF ServerStray, Pop
<1> QED
  BY <1>1, <1>2, <1>3, <1>4, <1>5, <1>6, <1>8, <1>9, <1>10, <1>11, <1>12, <1>13,
     <1>14, <1>15
  DEF Next, C2SPump, C2SJudges, S2CPump, S2CJudges, Exited

\* While the audit file can be written, a reply to a gated call is relayed
\* after its one event, which calls it protected or reduced as the host got it,
\* and a withheld log stands in the audit after the last gated reply
\* (McpProxy!AuditTellsTruth; _Disclosure.verdict, _gated_reply).
THEOREM AuditHonest == Spec => []AuditTellsTruth
<1>1. AuditInv => AuditTellsTruth
  <2> SUFFICES ASSUME AuditInv, ~AuditCanFail PROVE AuditTellsTruth
    BY DEF AuditTellsTruth, RepliesAreTold, LogEventStands
  <2>1. HostTold /\ LogEventStands
    BY DEF AuditInv, Agreement
  <2>2. RepliesAreTold
    BY <2>1 DEF HostTold, IsTold, RepliesAreTold
  <2> QED
    BY <2>1, <2>2 DEF AuditTellsTruth
<1> QED
  BY <1>1, AuditInit, AuditNext, PTL DEF Spec
=============================================================================
