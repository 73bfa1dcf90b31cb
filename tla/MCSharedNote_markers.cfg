CONSTANTS
  Machines = {"A", "B"}
  Starts <- MCQuoting
  Quoting = TRUE
SPECIFICATION Spec
CHECK_DEADLOCK FALSE
PROPERTY NoEditLost
