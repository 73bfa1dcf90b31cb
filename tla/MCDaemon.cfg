CONSTANTS
  a = a
  b = b
  s = s
  e1 = e1
  es = es
  f1 = f1
  Notes = {a, b, s}
  ScratchPaths = {s}
  Mine = {e1, es}
  Foreign = {f1}
  NoteOf <- MCNoteOf
  Configs <- MCConfigs
  Hazards = {"race", "kill", "crash", "network", "refuse"}
  MaxHazards = 2
SPECIFICATION DSpec
INVARIANTS SaidTypeOK StatusIsHonest
PROPERTIES LoggedOnce PersistsUntilAttended RecoveryIsShown EventuallyPublished EventuallyCaughtUp
