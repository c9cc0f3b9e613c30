------------------------------ MODULE McpProxy ------------------------------
(***************************************************************************)
(* The request path of the MCP shield-proxy                                 *)
(* (python/src/aegis_trust/mcp_proxy.py).                                   *)
(*                                                                         *)
(*    host <--stdio--> aegis-mcp-proxy <--stdio--> MCP server              *)
(*                                                                         *)
(* Two threads share one table, `pending`: the client-to-server pump (c2s) *)
(* judges each line of the host, records the requests it lets through and  *)
(* forwards them; the server-to-client pump (s2c) pops the entry a reply   *)
(* names and relays only what the entry's purpose permits.  The main       *)
(* thread waits for c2s and then terminates the server.                    *)
(*                                                                         *)
(* A step of a pump is one stretch of its code between two points where    *)
(* the other threads can act: a lock, the gateway call, an append to the   *)
(* audit file, a write to a pipe.  A pipe is collapsed into the read or    *)
(* the write at its end: what a peer may write next does not depend on     *)
(* when the pump reads it.  Lines that change no state (non-JSON server    *)
(* output, server batches), and the server's requests and notifications    *)
(* that are turned down with an event about no request, are left out; the  *)
(* handles the proxy gives out (cursors, ids) are in ProxyHandles, what the  *)
(* pumps wait for in ProxyPipes.                                            *)
(***************************************************************************)
EXTENDS Naturals, Sequences, FiniteSets

CONSTANTS
  Ids,              \* request ids that _id_key accepts
  NullId,           \* an id that names no request (null, a boolean, an object)
  Ops,              \* names policy.tools may map: tools and gated methods
  Purposes,         \* purposes of the policy
  None,             \* Python's None
  ToolPurpose,      \* policy.tools, None where an operation is unmapped
  Fields,           \* carriers the field rule can inspect
  Opaque,           \* carriers it cannot: free text, binary data, unknown keys
  Allowed,          \* purpose -> the fields its rule keeps
  Pinned,           \* interface entries equal to their approved pin
  RuledTools,       \* tools whose rule says which arguments are allowed
  BareTools,        \* tools with a rule object that does not say so
  PassUninspected,  \* --uninspected pass
  AllowDeclared,    \* --allow-declared-purpose
  PassUnchecked,    \* --unchecked-arguments pass
  Gate,             \* "none", or the kind of GatewayGate that is armed
  HostLines,        \* the lines the host chooses from
  Bodies,           \* the carriers a server line may hold
  ReuseIds,         \* FALSE: the host never uses a request id twice
  AuditCanFail,     \* an append to the audit file may raise OSError
  CandidatesCanFail,\* writing the interface candidates may raise OSError
  MaxAsked,         \* bound on the lines the host writes
  MaxNoise          \* bound on server lines that answer no request

PlainOps == {"initialize", "listing", "empty", "other"}
Kinds    == {"raw", "batch", "tasks", "plain", "call", "read"}
Carriers == Fields \cup Opaque

\* One line of the host.  "raw" is what the proxy never judges (not JSON, a
\* notification, an answer to a server request); "plain" an ungated request,
\* "call" a tools/call, "read" another gated data method.
Line == [kind : Kinds, id : Ids \cup {NullId}, op : Ops \cup PlainOps,
         declared : Purposes \cup {None, "stranger"}, task : BOOLEAN,
         args : {"ok", "bad"}]

\* The reasons an audit event of the proxy may bear.
Reasons == {"batch_rejected", "task_refused", "task_augmented_refused",
            "declared_purpose_refused", "unknown_tool",
            "argument_rule_missing", "argument_not_allowed",
            "gateway_denied", "gateway_unavailable",
            "declared_purpose_override", "unfiltered_passthrough",
            "minimum_disclosure", "interface_unapproved",
            "server_log_withheld", "unmatched_response",
            "unrecognized_method_reply", "protocol_version_unsupported"}

\* _parse_purpose: each purpose has exactly one field rule.
LoadedPurposes == Allowed \in [Purposes -> SUBSET Fields]
\* load_canonical_policy: tools map to declared purposes only. A document that
\* breaks either ends the start.
LoadedPolicy == LoadedPurposes /\ ToolPurpose \in [Ops -> Purposes \cup {None}]

\* validate_tool_rules, validate_interface_pins: what is pinned can be compared.
LoadedRules ==
  /\ RuledTools \cup BareTools \subseteq Ops /\ RuledTools \cap BareTools = {}
  /\ Pinned \subseteq Fields

\* main: the options, and the gate that is armed in FULL mode.
StartOptions ==
  /\ {PassUninspected, AllowDeclared, PassUnchecked} \subseteq BOOLEAN
  /\ Gate \in {"none", "check-access", "tool-call"}

ASSUME PolicyAssumption ==
  /\ LoadedPolicy /\ LoadedRules
  /\ None \notin Purposes \cup Reasons \cup {"protected", "access_reduced", "blocked"}
  /\ "stranger" \notin Purposes
  /\ Ops \cap PlainOps = {}
  /\ Fields \cap Opaque = {}

ASSUME HostAssumption ==
  /\ NullId \notin Ids
  /\ HostLines \subseteq {l \in Line : (l.kind = "plain") = (l.op \in PlainOps)}
  /\ Bodies \subseteq SUBSET Carriers

ASSUME ModeAssumption ==
  /\ StartOptions
  /\ {ReuseIds, AuditCanFail, CandidatesCanFail} \subseteq BOOLEAN
  /\ MaxAsked \in Nat
  /\ MaxNoise \in Nat

VARIABLES
  host,     \* "up", "eof" (it closed the proxy's stdin) or "gone"
  server,   \* "up", "dying" (dead, its last output unread) or "gone"
  phase,    \* of main: "running", "joined" (c2s ended) or "exited"
  c2s,      \* where the client-to-server pump is
  s2c,      \* where the server-to-client pump is
  pending,  \* id -> number of the host request awaiting its reply, or 0
  hit,      \* s2c: the entry popped for the reply being handled, or 0
  rep,      \* s2c: the reply being handled
  out,      \* s2c: the line to relay
  logDue,   \* _log_event_pending: the next server log gets an event
  asked,    \* history: the lines of the host, in order
  ran,      \* history: numbers of the lines the server received
  replied,  \* numbers of the lines the server has answered
  toHost,   \* history: the lines the host received, in order
  audit,    \* the audit file
  noise     \* number of server lines that answer no request

locals  == <<hit, rep, out>>
records == <<asked, ran, replied, toHost, audit>>
vars    == <<host, server, phase, c2s, s2c, pending, hit, rep, out, logDue,
             asked, ran, replied, toHost, audit, noise>>

Gated(l)     == l.kind \in {"call", "read"}
IsRequest(l) == l.kind \notin {"raw", "batch"}
\* The line c2s is handling: the last one it read.
Current == Len(asked)

-----------------------------------------------------------------------------
(* The judgement of a host line, before the gateway is asked.               *)

\* _GATED_METHODS other than tools/call carry no declared purpose.
Declared(l) == IF l.kind = "call" THEN l.declared ELSE None

PurposeOf(l) ==
  IF AllowDeclared /\ Declared(l) # None
  THEN IF Declared(l) \in Purposes THEN Declared(l) ELSE None
  ELSE ToolPurpose[l.op]

DeclaredClash(l) ==
  /\ ~AllowDeclared
  /\ ToolPurpose[l.op] # None
  /\ Declared(l) \notin {None, ToolPurpose[l.op]}

DeclaredOverride(l) ==
  /\ AllowDeclared
  /\ Declared(l) \notin {None, ToolPurpose[l.op]}

\* --unchecked-arguments pass lets a tool without a rule go, not one whose rule
\* is silent about arguments.
ArgumentsUnchecked(l) ==
  l.kind = "call" /\ l.op \notin RuledTools \cup BareTools /\ PassUnchecked

ArgumentRefusal(l) ==
  IF l.op \in RuledTools
  THEN IF l.args = "bad" THEN "argument_not_allowed" ELSE None
  ELSE IF ArgumentsUnchecked(l) THEN None ELSE "argument_rule_missing"

\* The reason the proxy refuses the line by itself, None when it does not.
Refusal(l) ==
  IF l.kind = "batch" THEN "batch_rejected"
  ELSE IF l.kind = "tasks" THEN "task_refused"
  ELSE IF ~Gated(l) THEN None
  ELSE IF l.kind = "call" /\ l.task THEN "task_augmented_refused"
  ELSE IF DeclaredClash(l) THEN "declared_purpose_refused"
  ELSE IF PurposeOf(l) = None THEN "unknown_tool"
  ELSE IF l.kind = "call" THEN ArgumentRefusal(l)
  ELSE None

-----------------------------------------------------------------------------
(* What a reply releases.                                                   *)

\* Fault: an exception of the filter lets the payload through.
FieldRuleFailsOpen(p, body, broken) ==
  IF broken THEN body ELSE body \cap Allowed[p]

\* The field rule over the inspectable carriers; filter_payload turns an
\* exception of the filter into an empty payload.
FieldRule(p, body, broken) == IF broken THEN {} ELSE body \cap Allowed[p]

Interface(l) == l.kind = "plain" /\ l.op \in {"initialize", "listing"}

\* Interface metadata: the entries equal to their pin, as approved.
Approved(body) == IF PassUninspected THEN body ELSE body \cap Pinned

\* Fault: interface entries are relayed whether they are pinned or not.
ProjectionIgnoresPins(l, body, broken) ==
  IF Gated(l)
  THEN FieldRule(PurposeOf(l), body, broken)
         \cup (IF PassUninspected THEN body \cap Opaque ELSE {})
  ELSE IF Interface(l) THEN body ELSE {}

Projection(l, body, broken) ==
  IF Gated(l)
  THEN FieldRule(PurposeOf(l), body, broken)
         \cup (IF PassUninspected THEN body \cap Opaque ELSE {})
  ELSE IF Interface(l) THEN Approved(body) ELSE {}

\* Fault: only what was withheld unread is reported, not the field rule.
BlockedForgetsFields(l, body, broken) ==
  broken \/ (~PassUninspected /\ body \cap Opaque # {})
\* Fault: a call forwarded without an argument rule leaves no mark.
UnfilteredForgetsArguments(l, body) == PassUninspected /\ body \cap Opaque # {}

\* _Disclosure: something was removed or withheld / went out uninspected.
Blocked(l, body, broken) ==
  \/ broken
  \/ ~(body \cap Fields \subseteq Allowed[PurposeOf(l)])
  \/ ~PassUninspected /\ body \cap Opaque # {}
Unfiltered(l, body) ==
  \/ ArgumentsUnchecked(l)
  \/ PassUninspected /\ body \cap Opaque # {}

Event(n, decision, outcome, reason) ==
  [n |-> n, decision |-> decision, outcome |-> outcome, reason |-> reason]
Deny(n, reason) == Event(n, "deny", "blocked", reason)

\* The event of an answered gated call (_Disclosure.verdict, _gated_reply).
GatedEvent(n, body, broken) ==
  LET l == asked[n] IN
  Event(n, "allow",
        IF Blocked(l, body, broken) THEN "access_reduced"
        ELSE IF Unfiltered(l, body) THEN None ELSE "protected",
        IF DeclaredOverride(l) THEN "declared_purpose_override"
        ELSE IF Unfiltered(l, body) THEN "unfiltered_passthrough"
        ELSE IF Blocked(l, body, broken) THEN "minimum_disclosure" ELSE None)

InterfaceEvent(n) ==
  Event(n, "allow", IF PassUninspected THEN None ELSE "access_reduced",
        IF PassUninspected THEN "unfiltered_passthrough"
        ELSE "interface_unapproved")

LogEvent ==
  IF PassUninspected
  THEN Event(0, "allow", None, "unfiltered_passthrough")
  ELSE Event(0, "deny", "blocked", "server_log_withheld")

\* CanonicalEmitter.emit: one line appended, or None on an OSError.
Emit(event) ==
  \/ audit' = Append(audit, event)
  \/ AuditCanFail /\ UNCHANGED audit

\* A line to the host: the request it names, the id it bears, what it
\* carries (body) and what the server had put there (raw).
ToHost(n, id, kind, body, raw) ==
  [n |-> n, id |-> id, kind |-> kind, body |-> body, raw |-> raw]

NoReply == [id |-> NullId, body |-> {}]
NoLine  == ToHost(0, NullId, "none", {}, {})

Init ==
  /\ host = "up" /\ server = "up" /\ phase = "running"
  /\ c2s = "read" /\ s2c = "read"
  /\ pending = [i \in Ids |-> 0]
  /\ hit = 0 /\ rep = NoReply /\ out = NoLine
  /\ logDue = TRUE
  /\ asked = <<>> /\ ran = {} /\ replied = {} /\ toHost = <<>> /\ audit = <<>>
  /\ noise = 0

-----------------------------------------------------------------------------
(* The client-to-server pump: handle_client_line and the write that follows *)

\* The host may write this line: with ReuseIds = FALSE it keeps request ids
\* unique, as MCP requires of it.
MayWrite(l) ==
  /\ host = "up"
  /\ Len(asked) < MaxAsked
  /\ \/ ReuseIds \/ ~IsRequest(l) \/ l.id = NullId
     \/ \A k \in DOMAIN asked : asked[k].id # l.id \/ ~IsRequest(asked[k])

\* After a refusal c2s answers the host; after an admission it records the
\* request, at once or when the gateway has granted it.
AfterRefusalFailsOpen(reason) == \* Fault: an outage, or an argument, is let go.
  IF reason \in {"gateway_unavailable", "argument_not_allowed"}
  THEN "remember" ELSE "block"
AfterRefusal(reason) == "block"

AfterAdmission(l) ==
  IF l.kind = "raw" THEN "forward"
  ELSE IF Gated(l) /\ Gate # "none" THEN "gate" ELSE "remember"

\* A line the proxy refuses on its own: audited, then answered with a block.
ReadRefused(l) ==
  /\ phase # "exited" /\ c2s = "read" /\ MayWrite(l)
  /\ Refusal(l) # None
  /\ asked' = Append(asked, l)
  /\ Emit(Deny(Len(asked) + 1, Refusal(l)))
  /\ c2s' = AfterRefusal(Refusal(l))
  /\ UNCHANGED <<host, server, phase, s2c, pending, locals, logDue, ran,
                 replied, toHost, noise>>

\* A line the proxy lets through: forwarded as it is, recorded first, or first
\* put to the gateway.  A listing whose cursor the proxy did not issue is
\* answered with an error (ProxyHandles decides which cursors those are).
ReadAdmitted(l) ==
  /\ phase # "exited" /\ c2s = "read" /\ MayWrite(l)
  /\ Refusal(l) = None
  /\ asked' = Append(asked, l)
  /\ \/ c2s' = AfterAdmission(l)
     \/ l.op = "listing" /\ c2s' = "badCursor"
  /\ UNCHANGED <<host, server, phase, s2c, pending, locals, logDue, ran,
                 replied, toHost, audit, noise>>

\* GatewayGate.check: only a grant lets the call go on.  tool_allowed reports
\* every failure as a denial, check_access tells an outage apart.
GateGrants ==
  /\ phase # "exited" /\ c2s = "gate"
  /\ c2s' = "remember"
  /\ UNCHANGED <<host, server, phase, s2c, pending, locals, logDue, records,
                 noise>>

GateReasons == {"gateway_denied"} \cup
               (IF Gate = "check-access" THEN {"gateway_unavailable"} ELSE {})

GateRefuses ==
  /\ phase # "exited" /\ c2s = "gate"
  /\ \E reason \in GateReasons :
       Emit(Deny(Current, reason)) /\ c2s' = AfterRefusal(reason)
  /\ UNCHANGED <<host, server, phase, s2c, pending, locals, logDue, asked, ran,
                 replied, toHost, noise>>

\* _remember: a later request with the same id takes the entry over.
Remember ==
  /\ phase # "exited" /\ c2s = "remember"
  /\ pending' = IF asked[Current].id \in Ids
                THEN [pending EXCEPT ![asked[Current].id] = Current]
                ELSE pending
  /\ c2s' = "forward"
  /\ UNCHANGED <<host, server, phase, s2c, locals, logDue, records, noise>>

Forward ==
  /\ phase # "exited" /\ c2s = "forward"
  /\ server = "up"
  /\ ran' = ran \cup {Current}
  /\ c2s' = "read"
  /\ UNCHANGED <<host, server, phase, s2c, pending, locals, logDue, asked,
                 replied, toHost, audit, noise>>

\* The server is dead: the write raises, and nothing catches it.
ForwardBroken ==
  /\ phase # "exited" /\ c2s = "forward"
  /\ server # "up"
  /\ c2s' = "dead"
  /\ UNCHANGED <<host, server, phase, s2c, pending, locals, logDue, records,
                 noise>>

\* The block (or the cursor error) is written to the host; a host that is
\* gone breaks the pump.
Answer ==
  /\ phase # "exited" /\ c2s \in {"block", "badCursor"}
  /\ IF host = "gone"
     THEN c2s' = "dead" /\ UNCHANGED toHost
     ELSE /\ toHost' = Append(toHost,
                ToHost(Current,
                       IF IsRequest(asked[Current]) THEN asked[Current].id
                       ELSE NullId,
                       IF c2s = "block" THEN "blocked" ELSE "error", {}, {}))
          /\ c2s' = "read"
  /\ UNCHANGED <<host, server, phase, s2c, pending, locals, logDue, asked, ran,
                 replied, audit, noise>>

\* End of the host's input: the pump closes the server's stdin and ends.
ReadHostEof ==
  /\ phase # "exited" /\ c2s = "read"
  /\ host # "up"
  /\ c2s' = "closed"
  /\ UNCHANGED <<host, server, phase, s2c, pending, locals, logDue, records,
                 noise>>

-----------------------------------------------------------------------------
(* The server-to-client pump: handle_server_line and the write that follows *)

\* The table once the entry of id i was taken.
PoppedKeeps(i) == pending                          \* Fault: it stays.
Popped(i) == [pending EXCEPT ![i] = 0]

\* A reply is read and the entry it names is popped, in one critical section.
Pop(r) ==
  /\ phase # "exited" /\ s2c = "read"
  /\ server # "gone"
  /\ rep' = r
  /\ hit' = IF r.id \in Ids THEN pending[r.id] ELSE 0
  /\ pending' = IF r.id \in Ids THEN Popped(r.id) ELSE pending
  /\ s2c' = "judge"
  /\ UNCHANGED <<host, server, phase, c2s, out, logDue, asked, ran, toHost,
                 audit>>

\* The server answers a request it received.
ServerAnswers(n, body) ==
  /\ n \in ran \ replied
  /\ IsRequest(asked[n])
  /\ replied' = replied \cup {n}
  /\ Pop([id |-> asked[n].id, body |-> body])
  /\ UNCHANGED noise

\* The server writes a reply nobody waits for: a duplicate, a stray id.
ServerStray(i, body) ==
  /\ noise < MaxNoise
  /\ noise' = noise + 1
  /\ Pop([id |-> i, body |-> body])
  /\ UNCHANGED replied

Rested == hit' = 0 /\ rep' = NoReply /\ out' = NoLine

\* No outstanding request has this id: audited and dropped.
JudgeUnmatched ==
  /\ phase # "exited" /\ s2c = "judge"
  /\ hit = 0
  /\ Emit(Deny(0, "unmatched_response"))
  /\ s2c' = "read" /\ Rested
  /\ UNCHANGED <<host, server, phase, c2s, pending, logDue, asked, ran, replied,
                 toHost, noise>>

LogArmed == TRUE

\* _gated_reply: the projection, its event, and the log event re-armed.
JudgeGated ==
  /\ phase # "exited" /\ s2c = "judge"
  /\ hit # 0 /\ Gated(asked[hit])
  /\ \E broken \in {FALSE} \cup {rep.body \cap Fields # {}} :
       /\ out' = ToHost(hit, rep.id, "result",
                        Projection(asked[hit], rep.body, broken), rep.body)
       /\ Emit(GatedEvent(hit, rep.body, broken))
  /\ logDue' = LogArmed
  /\ s2c' = "relay"
  /\ UNCHANGED <<host, server, phase, c2s, pending, hit, rep, asked, ran,
                 replied, toHost, noise>>

\* initialize and the listings: entries that are not pinned are named in an
\* event, the candidates file is rewritten, and a failing write ends the pump.
JudgeInterface ==
  /\ phase # "exited" /\ s2c = "judge"
  /\ hit # 0 /\ Interface(asked[hit])
  /\ IF rep.body \subseteq Pinned
     THEN UNCHANGED audit
     ELSE Emit(InterfaceEvent(hit))
  /\ \/ /\ out' = ToHost(hit, rep.id, "result",
                         Projection(asked[hit], rep.body, FALSE), rep.body)
        /\ s2c' = "relay"
     \/ /\ CandidatesCanFail
        /\ s2c' = "dead" /\ UNCHANGED out
  /\ UNCHANGED <<host, server, phase, c2s, pending, hit, rep, logDue, asked,
                 ran, replied, toHost, noise>>

\* The other ungated replies: an empty result is relayed empty, a server's error
\* keeps its code only, and a reply to a method without a projection (or an
\* initialize of an unknown protocol version) becomes an error of the proxy.
JudgePlain ==
  /\ phase # "exited" /\ s2c = "judge"
  /\ hit # 0 /\ ~Gated(asked[hit])
  /\ \/ /\ asked[hit].op = "empty"
        /\ out' = ToHost(hit, rep.id, "result", {}, rep.body)
        /\ UNCHANGED audit
     \/ /\ out' = ToHost(hit, rep.id, "error",
                         IF PassUninspected THEN rep.body \cap Opaque ELSE {},
                         rep.body)
        /\ UNCHANGED audit
     \/ /\ asked[hit].op \in {"other", "initialize"}
        /\ out' = ToHost(hit, rep.id, "error", {}, rep.body)
        /\ Emit(Deny(hit, IF asked[hit].op = "other"
                          THEN "unrecognized_method_reply"
                          ELSE "protocol_version_unsupported"))
  /\ s2c' = "relay"
  /\ UNCHANGED <<host, server, phase, c2s, pending, hit, rep, logDue, asked,
                 ran, replied, toHost, noise>>

\* notifications/message: only the first log after a gated reply is audited.
ServerLogs(body) ==
  /\ phase # "exited" /\ s2c = "read"
  /\ server # "gone"
  /\ noise < MaxNoise
  /\ noise' = noise + 1
  /\ IF logDue THEN Emit(LogEvent) ELSE UNCHANGED audit
  /\ logDue' = FALSE
  /\ IF PassUninspected
     THEN out' = ToHost(0, NullId, "log", body, body) /\ s2c' = "relay"
     ELSE UNCHANGED <<out, s2c>>
  /\ UNCHANGED <<host, server, phase, c2s, pending, hit, rep, asked, ran,
                 replied, toHost>>

Relay ==
  /\ phase # "exited" /\ s2c = "relay"
  /\ IF host = "gone"
     THEN s2c' = "dead" /\ UNCHANGED toHost
     ELSE s2c' = "read" /\ toHost' = Append(toHost, out)
  /\ Rested
  /\ UNCHANGED <<host, server, phase, c2s, pending, logDue, asked, ran, replied,
                 audit, noise>>

ReadServerEof ==
  /\ phase # "exited" /\ s2c = "read"
  /\ server = "dying"
  /\ server' = "gone"
  /\ s2c' = "closed"
  /\ UNCHANGED <<host, phase, c2s, pending, locals, logDue, records, noise>>

-----------------------------------------------------------------------------
(* The main thread, and the ends of the two peers.                          *)

JoinC2S ==
  /\ phase = "running" /\ c2s \in {"closed", "dead"}
  /\ phase' = "joined"
  /\ UNCHANGED <<host, server, c2s, s2c, pending, locals, logDue, records,
                 noise>>

\* t2.join returns when s2c ended or after its timeout, whichever is first;
\* then the server is terminated and the process, s2c with it, is gone.
Exit ==
  /\ phase = "joined"
  /\ phase' = "exited"
  /\ server' = "gone"
  /\ UNCHANGED <<host, c2s, s2c, pending, locals, logDue, records, noise>>

HostCloses ==
  /\ host = "up"
  /\ host' = "eof"
  /\ UNCHANGED <<server, phase, c2s, s2c, pending, locals, logDue, records,
                 noise>>

HostDies ==
  /\ host # "gone"
  /\ host' = "gone"
  /\ UNCHANGED <<server, phase, c2s, s2c, pending, locals, logDue, records,
                 noise>>

ServerDies ==
  /\ server = "up"
  /\ server' = "dying"
  /\ UNCHANGED <<host, phase, c2s, s2c, pending, locals, logDue, records,
                 noise>>

Exited == phase = "exited" /\ UNCHANGED vars

\* What a pump does by itself, and the writes for which it may have to wait
\* until the reader of a pipe makes room (ProxyPipes).
C2SJudges ==
  GateGrants \/ GateRefuses \/ Remember \/ ForwardBroken \/ ReadHostEof
S2CJudges ==
  JudgeUnmatched \/ JudgeGated \/ JudgeInterface \/ JudgePlain \/ ReadServerEof

C2SPump == C2SJudges \/ Forward \/ Answer
S2CPump == S2CJudges \/ Relay

Next ==
  \/ \E l \in HostLines : ReadRefused(l) \/ ReadAdmitted(l)
  \/ C2SPump
  \/ \E n \in ran, b \in Bodies : ServerAnswers(n, b)
  \/ \E i \in Ids \cup {NullId}, b \in Bodies : ServerStray(i, b)
  \/ \E b \in Bodies : ServerLogs(b)
  \/ S2CPump
  \/ JoinC2S \/ Exit
  \/ HostCloses \/ HostDies \/ ServerDies
  \/ Exited

Spec == Init /\ [][Next]_vars

\* The two threads run, and main gets past its joins; a write of theirs may
\* wait for ever, for its reader.  A live server answers every request it
\* received; strong fairness, because the reply is read when the pump next
\* comes back to its pipe.
Fairness ==
  /\ WF_vars(C2SJudges) /\ WF_vars(S2CJudges)
  /\ WF_vars(JoinC2S) /\ WF_vars(Exit)
  /\ \A n \in 1 .. MaxAsked :
       SF_vars(n \in ran /\ \E b \in Bodies : ServerAnswers(n, b))

FairSpec == Spec /\ Fairness

-----------------------------------------------------------------------------
(* Properties.                                                              *)

Numbers == 0 .. MaxAsked
HostLine == [n : Numbers, id : Ids \cup {NullId},
             kind : {"none", "blocked", "error", "result", "log"},
             body : SUBSET Carriers, raw : SUBSET Carriers]
AuditEvent == [n : Numbers, decision : {"allow", "deny"},
               outcome : {"protected", "access_reduced", "blocked", None},
               reason : Reasons \cup {None}]

\* The types of the pumps' state, of the table they share and of the streams.
TypeOK ==
  /\ host \in {"up", "eof", "gone"}
  /\ server \in {"up", "dying", "gone"}
  /\ phase \in {"running", "joined", "exited"}
  /\ c2s \in {"read", "gate", "remember", "forward", "block", "badCursor",
               "closed", "dead"}
  /\ s2c \in {"read", "judge", "relay", "closed", "dead"}
  /\ pending \in [Ids -> Numbers]
  /\ hit \in Numbers
  /\ rep \in [id : Ids \cup {NullId}, body : SUBSET Carriers]
  /\ out \in HostLine
  /\ logDue \in BOOLEAN
  /\ asked \in Seq(Line) /\ Len(asked) <= MaxAsked
  /\ c2s \in {"gate", "remember", "forward", "block", "badCursor"} => Current > 0
  /\ ran \subseteq 1 .. Len(asked)
  /\ replied \subseteq ran
  /\ toHost \in Seq(HostLine)
  /\ audit \in Seq(AuditEvent)
  /\ noise \in 0 .. MaxNoise

\* What a reply to the line may carry: nothing when the proxy refuses it, else
\* the fields of its purpose (or the pinned interface entries), and what
\* cannot be inspected only when the operator lets it pass.
Permitted(l) ==
  IF Refusal(l) # None THEN {}
  ELSE (IF Gated(l) THEN Allowed[PurposeOf(l)]
        ELSE IF ~Interface(l) THEN {}
        ELSE IF PassUninspected THEN Carriers ELSE Pinned)
       \cup (IF PassUninspected THEN Opaque ELSE {})

\* The host used no request id twice.
IdsUnique ==
  \A m, n \in DOMAIN asked :
    /\ IsRequest(asked[m]) /\ IsRequest(asked[n])
    /\ asked[m].id = asked[n].id /\ asked[m].id # NullId
    => m = n

\* A request with the id of the line permits what the line carries.
Covered(o) ==
  \E n \in DOMAIN asked : /\ IsRequest(asked[n]) /\ asked[n].id = o.id
                         /\ o.body \subseteq Permitted(asked[n])

\* A line that bears a request's id carries only what a request with that id
\* permits, whatever the server wrote and whenever: a stray or a duplicate
\* reply, one that crosses the recording of the request, one to a refused
\* call, one whose filtering failed (handle_server_line, _gated_reply).
MinimumDisclosure ==
  \A k \in DOMAIN toHost : toHost[k].id \in Ids => Covered(toHost[k])

\* The host gets at most one line for a request, be it a block of the proxy or
\* a reply of the server: the entry is consumed by the first reply.
OneAnswerPerRequest ==
  IdsUnique =>
    \A j, k \in DOMAIN toHost :
      toHost[j].id = toHost[k].id /\ toHost[j].id # NullId => j = k

\* A gated call that got a deny event never reaches the server, and the host
\* gets no content for it: a refusal of the gateway, an outage included, comes
\* before the tool runs.
DeniedNeverRuns ==
  \A k \in DOMAIN audit :
    LET n == audit[k].n IN
    n # 0 /\ audit[k].decision = "deny" /\ Gated(asked[n])
      => /\ n \notin ran
         /\ \A j \in DOMAIN toHost :
              toHost[j].n = n => toHost[j].kind = "blocked"

\* What the audit says of an answered call and what the host got agree: the
\* event is there before the reply is, `protected` is said only of a reply
\* relayed whole to a call whose arguments were checked, and a reply that
\* lost something says so (_Disclosure.verdict).
RepliesAreTold ==
  ~AuditCanFail =>
    \A k \in DOMAIN toHost :
      LET o == toHost[k] IN
      o.kind = "result" /\ Gated(asked[o.n]) =>
        \E e \in DOMAIN audit :
          /\ audit[e].n = o.n /\ audit[e].decision = "allow"
          /\ \A f \in DOMAIN audit : audit[f].n = o.n => e = f
          /\ o.body # o.raw => audit[e].outcome = "access_reduced"
          /\ audit[e].outcome = "protected" =>
               /\ o.body \cap Opaque = {}
               /\ ~ArgumentsUnchecked(asked[o.n])

\* While server logs go unaudited, the event of the first of them stands in
\* the audit after the last event of a gated reply.
LogEventStands ==
  ~AuditCanFail /\ ~logDue =>
    \E k \in DOMAIN audit :
      /\ audit[k] = LogEvent
      /\ \A j \in k + 1 .. Len(audit) :
           audit[j].n # 0 /\ audit[j].decision = "allow"
             => ~Gated(asked[audit[j].n])

\* Every request with an id of its own is answered, by a block or by the reply
\* the proxy relays, unless a peer goes away or leaves a pump waiting for ever:
\* c2s on the write of that request (or of its refusal), s2c on the line it
\* relays.  No interleaving of the pumps loses the reply, a request still being
\* written does not hold up the reply to another, and an audit file that cannot
\* be written changes nothing.  Who waits for whom when pipes fill up is in ProxyPipes.
Answered(n) ==
  n \in DOMAIN asked /\ \E k \in DOMAIN toHost : toHost[k].id = asked[n].id
C2SWaits(n) == c2s \in {"forward", "block", "badCursor"} /\ Current = n
EveryRequestSettles ==
  \A n \in 1 .. MaxAsked :
    /\ n \in DOMAIN asked
    /\ IsRequest(asked[n]) /\ asked[n].id \in Ids
    ~> \/ Answered(n) \/ host # "up" \/ server # "up"
       \/ [](C2SWaits(n)) \/ [](s2c = "relay")

\* What the audit says is true, of the calls and of the logs.
AuditTellsTruth == RepliesAreTold /\ LogEventStands

\* "every call lands in a canonical audit stream" (README.md): when the proxy
\* has exited, each gated call that reached the server has its event.
EveryCallLands ==
  phase = "exited" =>
    \A n \in ran : Gated(asked[n]) =>
      \E k \in DOMAIN audit : audit[k].n = n

\* The abstract promise of the proxy (CallChannel), read off the host's side:
\* a request is settled once a line bears its id.
SettledLines(n) ==
  {k \in DOMAIN toHost : n \in DOMAIN asked /\ toHost[k].id = asked[n].id}
Tracked(n) == IsRequest(asked[n]) /\ asked[n].id \in Ids

Stage ==
  [n \in 1 .. MaxAsked |->
     IF n \notin DOMAIN asked THEN "none"
     ELSE IF ~Tracked(n) \/ SettledLines(n) = {} THEN "open" ELSE "settled"]
Permit ==
  [n \in 1 .. MaxAsked |->
     IF n \in DOMAIN asked THEN Permitted(asked[n]) ELSE {}]
Given ==
  [n \in 1 .. MaxAsked |->
     UNION {toHost[k].body : k \in IF n \in DOMAIN asked /\ Tracked(n)
                                   THEN SettledLines(n) ELSE {}}]

Channel == INSTANCE CallChannel WITH
  Calls <- 1 .. MaxAsked, Content <- Carriers,
  stage <- Stage, permit <- Permit, given <- Given

\* Every step of the two pumps is a step of the channel, or none.
ImplementsChannel == Channel!Spec
=============================================================================
