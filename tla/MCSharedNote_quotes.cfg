CONSTANTS
  Machines = {"A", "B"}
  Starts <- MCInches
  Quoting = FALSE
SPECIFICATION Spec
CHECK_DEADLOCK FALSE
INVARIANT KeysAreUnique
