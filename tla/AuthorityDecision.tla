-------------------------- MODULE AuthorityDecision --------------------------
(***************************************************************************)
(* The reader of the boundary's decision object, in both SDKs              *)
(* (parse_authority_decision of client.py, parseAuthorityDecision of       *)
(* client.ts): what it takes for a decision and what it hands on, and, as  *)
(* reference, the decisions an authority composes.                         *)
(*                                                                         *)
(* Outcomes are their severities, 1 (PROTECTED) to 5 (BLOCKED); a verb is  *)
(* the outcome it belongs to. The texts that are handed on unread are one  *)
(* member, texts.                                                          *)
(***************************************************************************)
EXTENDS Integers, Sequences, FiniteSets, FiniteSetsExt

CONSTANTS
    Decisions,  \* the objects that are read
    Fields,     \* field names
    Labels,     \* strings that are labels in shape
    Bad         \* a member that is missing or of another type

VARIABLES decision, python, node
vars == <<decision, python, node>>

\* The objects: a member has its type or is Bad.
Outcomes == 1..5
Blocked == 5
Id == "id"
Ids == {"", " ", Id}
Spellings == {"absent", "whole", "whole float", "fraction", "negative", "boolean", "beyond"}
PartObjects ==
    [outcome : {Bad} \cup Outcomes, texts : {Bad, "given"}, allowed : {Bad} \cup SUBSET Fields,
     tags : {Bad} \cup SUBSET STRING]
DecisionObjects ==
    [outcome : {Bad} \cup Outcomes, verb : {Bad} \cup Outcomes, ledgered : {Bad} \cup BOOLEAN,
     replayed : {Bad} \cup BOOLEAN, decision_id : {Bad} \cup Ids, receipt_event_id : {Bad} \cup Ids,
     texts : {Bad, "given"}, generation : Spellings, withheld : {Bad} \cup SUBSET Fields,
     allowed : {Bad} \cup SUBSET Fields, tags : {Bad} \cup SUBSET STRING,
     parts : {Bad} \cup Seq({Bad} \cup PartObjects)]
ReaderAssumption ==
    /\ Decisions \subseteq DecisionObjects
    /\ IsFiniteSet(Fields)
    /\ Bad \notin Outcomes /\ Bad \notin BOOLEAN /\ Bad \notin Ids /\ Bad \notin Spellings
    /\ Bad # "given" /\ Bad # <<>> /\ Bad \notin Decisions

Unread == [read |-> "not yet"]
Refused == [read |-> "refused"]

IsBlank(s) == s \in {"", " "}

-----------------------------------------------------------------------------
(* Python.                                                                  *)

\* A non-negative whole number that both SDKs carry exactly, or no such member.
PolicyGeneration(g) == g \in {"absent", "whole", "whole float"}

RequiredLabels(tags) == tags # Bad /\ tags \subseteq Labels

ParsePart(part) ==
    /\ part # Bad
    /\ part.texts # Bad /\ part.outcome \in Outcomes
    /\ part.allowed # Bad /\ RequiredLabels(part.tags)

Shaped(d) ==
    /\ d.outcome \in Outcomes /\ d.ledgered \in BOOLEAN
    /\ d.decision_id # Bad /\ d.receipt_event_id # Bad /\ d.texts # Bad
    /\ d.verb = d.outcome
    /\ PolicyGeneration(d.generation)
    /\ d.replayed \in BOOLEAN
    /\ d.allowed # Bad /\ d.withheld # Bad /\ RequiredLabels(d.tags)
    /\ d.parts # Bad /\ \A i \in 1..Len(d.parts) : ParsePart(d.parts[i])

\* The claim that the decision is in the ledger and the ids that witness it go
\* together, and only a refusal may come without them.
ChainWitness(d) ==
    IF d.ledgered
    THEN ~IsBlank(d.decision_id) /\ ~IsBlank(d.receipt_event_id)
    ELSE /\ d.outcome = Blocked
         /\ IsBlank(d.decision_id) /\ IsBlank(d.receipt_event_id)
         /\ ~d.replayed
         /\ d.tags = {} /\ d.allowed = {} /\ d.withheld = {}

\* The loop over the parts: winner[i] is the index it holds after i of them,
\* 0 before the first.
\* Fault: the last of the most severe parts wins.
LastMax(parts) ==
    LET winner[i \in 0..Len(parts)] ==
            IF i = 0 THEN 0
            ELSE IF winner[i - 1] = 0 \/ parts[i].outcome >= parts[winner[i - 1]].outcome
            THEN i ELSE winner[i - 1]
    IN winner[Len(parts)]
\* The first of the most severe parts.
Winner(parts) ==
    LET winner[i \in 0..Len(parts)] ==
            IF i = 0 THEN 0
            ELSE IF winner[i - 1] = 0 \/ parts[i].outcome > parts[winner[i - 1]].outcome
            THEN i ELSE winner[i - 1]
    IN winner[Len(parts)]

\* A decision in the ledger is one that its own trace supports.
Supported(d) ==
    LET w == Winner(d.parts) IN
    /\ \A i \in 1..Len(d.parts) :
          d.parts[i].outcome <= d.outcome /\ d.parts[i].tags \subseteq d.tags
    /\ IF w = 0 THEN d.outcome = Blocked /\ d.allowed = {}
       ELSE d.allowed = d.parts[w].allowed

\* Blank ids are handed on as empty ones.
View(d) ==
    [read |-> "view", outcome |-> d.outcome, ledgered |-> d.ledgered,
     decision_id |-> IF d.ledgered THEN d.decision_id ELSE "",
     receipt_event_id |-> IF d.ledgered THEN d.receipt_event_id ELSE "",
     allowed |-> d.allowed, tags |-> d.tags, parts |-> d.parts]

ParseAuthorityDecision(d) ==
    IF Shaped(d) /\ ChainWitness(d) /\ (d.ledgered => Supported(d)) THEN View(d) ELSE Refused

-----------------------------------------------------------------------------
(* Node: the same steps.                                                    *)

NodePolicyGeneration(g) == PolicyGeneration(g)
NodeParsePart(part) == ParsePart(part)
NodeShaped(d) ==
    /\ Shaped([d EXCEPT !.parts = <<>>, !.generation = "absent"])
    /\ NodePolicyGeneration(d.generation)
    /\ d.parts # Bad /\ \A i \in 1..Len(d.parts) : NodeParsePart(d.parts[i])

\* The winner and its severity are carried along, from -1.
NodeWinner(parts) ==
    LET held[i \in 0..Len(parts)] ==
            IF i = 0 THEN [winner |-> 0, rank |-> -1]
            ELSE IF parts[i].outcome > held[i - 1].rank
            THEN [winner |-> i, rank |-> parts[i].outcome] ELSE held[i - 1]
    IN held[Len(parts)].winner

NodeSupported(d) ==
    LET w == NodeWinner(d.parts)
        a == d.allowed
    IN /\ \A i \in 1..Len(d.parts) :
             d.parts[i].outcome <= d.outcome /\ \A t \in d.parts[i].tags : t \in d.tags
       /\ IF w = 0 THEN d.outcome = Blocked /\ a = {}
          ELSE /\ Cardinality(a) = Cardinality(d.parts[w].allowed)
               /\ \A f \in a : f \in d.parts[w].allowed

NodeParseAuthorityDecision(d) ==
    IF NodeShaped(d) /\ ChainWitness(d) /\ (d.ledgered => NodeSupported(d)) THEN View(d) ELSE Refused

-----------------------------------------------------------------------------
Init == decision \in Decisions /\ python = Unread /\ node = Unread

PythonReads ==
    /\ python = Unread
    /\ python' = ParseAuthorityDecision(decision)
    /\ UNCHANGED <<decision, node>>
NodeReads ==
    /\ node = Unread
    /\ node' = NodeParseAuthorityDecision(decision)
    /\ UNCHANGED <<decision, python>>

Next == PythonReads \/ NodeReads
Spec == Init /\ [][Next]_vars

-----------------------------------------------------------------------------
(* Reference: an authority asks its boundaries, the most restrictive answer *)
(* wins with the fields of the first that gave it, tags add up, a later     *)
(* step may raise the outcome or add a tag, and the result is written to    *)
(* the ledger; when that fails only a refusal with the trace goes out.      *)

Severest(parts) == Max({parts[i].outcome : i \in 1..Len(parts)})
Enforced(parts) ==
    IF parts = <<>> THEN {}
    ELSE parts[Min({i \in 1..Len(parts) : parts[i].outcome = Severest(parts)})].allowed
Released(parts) == UNION {parts[i].tags : i \in 1..Len(parts)}
Generations == {"absent", "whole", "whole float"}

InLedger(parts, o) ==
    [outcome : {o}, verb : {o}, ledgered : {TRUE}, replayed : BOOLEAN,
     decision_id : {Id}, receipt_event_id : {Id}, texts : {"given"},
     generation : Generations, withheld : SUBSET Fields, allowed : {Enforced(parts)},
     tags : {Released(parts) \cup more : more \in SUBSET Labels}, parts : {parts}]
NotInLedger(parts) ==
    [outcome : {Blocked}, verb : {Blocked}, ledgered : {FALSE}, replayed : {FALSE},
     decision_id : {"", " "}, receipt_event_id : {"", " "}, texts : {"given"},
     generation : Generations, withheld : {{}}, allowed : {{}}, tags : {{}}, parts : {parts}]
Composed(parts) == IF parts = <<>> THEN {Blocked} ELSE Severest(parts)..Blocked
AuthorityGives(parts) == (UNION {InLedger(parts, o) : o \in Composed(parts)}) \cup NotInLedger(parts)

BoundaryGives == [outcome : Outcomes, texts : {"given"}, allowed : SUBSET Fields, tags : SUBSET Labels]

Whole(r) == r # Bad /\ \A member \in DOMAIN r : r[member] # Bad
Genuine(d) ==
    /\ Whole(d)
    /\ \A i \in 1..Len(d.parts) : Whole(d.parts[i]) /\ d.parts[i] \in BoundaryGives
    /\ d \in AuthorityGives(d.parts)

\* Both readers take exactly the decisions that an authority can have composed
\* from the parts the decision comes with, hard faults with their trace among
\* them: nothing that was widened, stripped of a tag, or that claims a place in
\* the ledger it does not have, and nothing genuine is refused.
ReadsTheGenuine ==
    \A r \in {python, node} : r # Unread => (r # Refused <=> Genuine(decision))
=============================================================================
