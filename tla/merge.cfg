SPECIFICATION Spec
CONSTANTS
  Contexts = {"ci-gate", "audit-gate"}
  MaxHeads = 2
  MaxMoves = 4
  MaxFaults = 1
CHECK_DEADLOCK FALSE
PROPERTIES MergesWhatItJudged MergeIsFollowedUp 
