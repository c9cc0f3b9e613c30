------------------------------ MODULE MCReaders ------------------------------
(***************************************************************************)
(* The pure parts of both SDKs, one input after the other: the filter      *)
(* (FilterCalls, whose variables rest while a decision is read) and the    *)
(* reader of decisions.                                                    *)
(***************************************************************************)
EXTENDS MCFilterCalls, DecisionReader

allVars == <<value, spec, python, node, decision, pythonView, nodeView>>

MCFields == {"f", "g"}
MCLabels == {"t", "u"}

\* Parts, and traces of up to two of them.
MCParts == [outcome : {1, 2, 5}, texts : {"given"}, allowed : {{}, {"f"}, {"f", "g"}}, tags : {{}, {"t"}}]
Traces == {<<>>} \cup {<<p>> : p \in MCParts} \cup {<<p, q>> : p, q \in MCParts}
SomeTraces == {<<>>, <<[outcome |-> 2, texts |-> "given", allowed |-> {"f"}, tags |-> {"t"}]>>,
               <<[outcome |-> 5, texts |-> "given", allowed |-> {}, tags |-> {}]>>}

Plainly == [outcome |-> 5, verb |-> 5, ledgered |-> TRUE, replayed |-> FALSE, decision_id |-> "id",
            receipt_event_id |-> "id", texts |-> "given", generation |-> "absent",
            withheld |-> {}, allowed |-> {}, tags |-> {}, parts |-> <<>>]
\* Every composition over every trace.
Compositions == {[Plainly EXCEPT !.outcome = o, !.verb = o, !.allowed = a, !.tags = t, !.parts = p] :
                    o \in {1, 2, 3, 5}, a \in SUBSET MCFields, t \in {{}, {"t"}, {"t", "u"}}, p \in Traces}
\* Every claim about the ledger over some of them.
Claims == {[Plainly EXCEPT !.outcome = o, !.verb = o, !.ledgered = l, !.replayed = y, !.decision_id = i,
                           !.receipt_event_id = e, !.allowed = a, !.withheld = w, !.tags = t, !.parts = p] :
              o \in {2, 5}, l, y \in BOOLEAN, i, e \in {"", " ", "id"}, a, w \in {{}, {"f"}},
              t \in {{}, {"t"}}, p \in SomeTraces}
\* One member at a time that is missing, mistyped or outside its vocabulary.
Broken == UNION {
    {[d EXCEPT !.outcome = Bad], [d EXCEPT !.verb = 3], [d EXCEPT !.ledgered = Bad],
     [d EXCEPT !.replayed = Bad], [d EXCEPT !.decision_id = Bad], [d EXCEPT !.receipt_event_id = Bad],
     [d EXCEPT !.texts = Bad], [d EXCEPT !.withheld = Bad], [d EXCEPT !.allowed = Bad],
     [d EXCEPT !.tags = Bad], [d EXCEPT !.tags = @ \cup {"a value"}], [d EXCEPT !.parts = Bad],
     [d EXCEPT !.parts = Append(@, Bad)],
     [d EXCEPT !.parts = Append(@, [outcome |-> Bad, texts |-> "given", allowed |-> {}, tags |-> {}])]}
    \cup {[d EXCEPT !.generation = g] : g \in {"whole", "whole float", "fraction", "negative", "boolean", "beyond"}} :
    d \in {[Plainly EXCEPT !.parts = p, !.ledgered = l, !.tags = t] : p \in SomeTraces, l \in BOOLEAN, t \in {{}, {"t"}}}}

MCDecisions == Compositions \cup Claims \cup Broken

MCInit == \/ Init /\ decision = Plainly
             /\ pythonView = R!View(Plainly) /\ nodeView = R!View(Plainly)
          \/ value = None /\ spec = [hasScope |-> FALSE, scope |-> {}, hasDeny |-> FALSE, deny |-> {}]
             /\ python = Refused /\ node = Refused /\ R!Init
MCNext == \/ Next /\ UNCHANGED <<decision, pythonView, nodeView>>
          \/ R!Next /\ UNCHANGED vars
MCSpec == MCInit /\ [][MCNext]_allVars
=============================================================================
