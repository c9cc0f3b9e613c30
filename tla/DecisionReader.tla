--------------------------- MODULE DecisionReader ---------------------------
(***************************************************************************)
(* AuthorityDecision under names of its own, for modules that speak of     *)
(* another component as well.                                              *)
(***************************************************************************)
CONSTANTS WireDecisions,  \* the objects that are read
          FieldNames, LabelNames, Bad
VARIABLES decision, pythonView, nodeView

R == INSTANCE AuthorityDecision WITH
    Decisions <- WireDecisions, Fields <- FieldNames, Labels <- LabelNames,
    python <- pythonView, node <- nodeView

ASSUME ReaderAssumption == R!ReaderAssumption

\* Both readers take exactly the decisions that an authority can have composed
\* from the parts the decision comes with (parse_authority_decision,
\* parseAuthorityDecision).
ReadsTheGenuine == R!ReadsTheGenuine
=============================================================================
