CONSTANTS
  Configs <- MCAuthor
  Settle = 2
  MaxSaves = 2
  MaxFails = 1
SPECIFICATION FairSpec
INVARIANTS TypeOK StampsWholeNotes SavesSurvive NeverHalfWritten
PROPERTIES SettledIsStamped CannotLoop EventuallyCommitted
