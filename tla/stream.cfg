\* Every form of a session; heartbeats end within the join.
SPECIFICATION FairSpec
CONSTANTS
  Patient = TRUE
  MaxFailures = 3
INVARIANTS RevokedNeverClean NameLostToMainOnly RevokedForCause
PROPERTIES CutIsNoticed SessionEnds
CHECK_DEADLOCK FALSE
