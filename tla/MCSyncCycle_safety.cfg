CONSTANTS
  a = a
  b = b
  s = s
  e1 = e1
  e2 = e2
  es = es
  f1 = f1
  Notes = {a, b, s}
  ScratchPaths = {s}
  Mine = {e1, e2, es}
  Foreign = {f1, e1}
  NoteOf <- MCNoteOf
  Configs <- MCConfigs
  Hazards = {"race", "kill", "crash", "network", "refuse"}
  MaxHazards = 2
SPECIFICATION Spec
INVARIANTS TypeOK NothingLost ScratchStaysOut
PROPERTIES DryRunTouchesNothing CommitsWhatItChecked SuccessMeansPublished
