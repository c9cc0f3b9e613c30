SPECIFICATION Spec
CONSTANTS
  Tasks = {"main", "child"}
  Main = "main"
  here = here
  there = there
  Origins <- MCOrigins
  MaxWindows = 3
  MaxCalls = 1
SYMMETRY MCSymmetry
CHECK_DEADLOCK FALSE
INVARIANTS CarriesInnermost DeniedAsksNothing
PROPERTIES RevokedEnds
