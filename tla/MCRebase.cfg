CONSTANTS
  p = p
  q = q
  Paths = {p, q}
  Commits = 2
  MaxSteps = 2
  Hazards = {"signal", "timeout", "lock", "save", "refuse"}
SPECIFICATION FairSpec
CHECK_DEADLOCK FALSE
INVARIANTS TypeOK RealConflictsAreLeft GivesUpForAReason
PROPERTIES ImplementsAtomic Returns
