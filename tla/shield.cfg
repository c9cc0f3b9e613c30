SPECIFICATION Spec
CONSTANTS
    c1 = c1
    c2 = c2
    Callers <- MCCallers
    Refresher = Refresher
    NoClient = NoClient
    TTL = 1
    MaxTime = 1
    MaxToken = 1
    MaxChanges = 1
SYMMETRY Symmetry
INVARIANTS HistoryTellsTruth RefreshReachesClient
PROPERTIES ImplementsGatedCall StaleModeEnds
CHECK_DEADLOCK FALSE
