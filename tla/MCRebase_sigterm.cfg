CONSTANTS
  p = p
  q = q
  Paths = {p, q}
  Commits = 1
  MaxSteps = 2
  Hazards = {"signal"}
SPECIFICATION Spec
CHECK_DEADLOCK FALSE
INVARIANT NeverLeftMidRebase
