SPECIFICATION Spec
CONSTANTS
  Tasks = {"main", "child"}
  Main = "main"
  here = here
  there = there
  Origins <- MCOrigins
  MaxWindows = 2
  MaxCalls = 1
SYMMETRY MCSymmetry
CHECK_DEADLOCK FALSE
INVARIANTS DeniedInsideMeansInside
