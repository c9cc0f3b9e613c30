SPECIFICATION MCSpec
CONSTANTS
    Inputs <- MCInputs
    Scopes <- MCScopes
    Denials <- MCDenials
    WireDecisions <- MCDecisions
    FieldNames <- MCFields
    LabelNames <- MCLabels
    Bad = Bad
INVARIANTS ReleaseIsExact RemovedIsNamed SameForRecords ReadsTheGenuine
CHECK_DEADLOCK FALSE
