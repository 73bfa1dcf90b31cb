CONSTANTS
  Machines = {"A", "B"}
  Starts <- MCStarts
  Quoting = FALSE
SPECIFICATION Spec
CHECK_DEADLOCK FALSE
INVARIANTS TypeOK BlockedIsBehind KeysAreUnique ModifiedIsOfLatestEdit
PROPERTIES CreatedNeverLater StampsOnlyOwnKeys NoEditLost BlocksOnlyOnRealConflicts
