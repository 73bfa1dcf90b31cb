CONSTANTS
  a = a
  b = b
  s = s
  e1 = e1
  e2 = e2
  es = es
  f1 = f1
  Notes = {a, b, s}
  ScratchPaths = {s}
  Mine = {e1, es}
  Foreign = {f1}
  NoteOf <- MCNoteOf
  Configs <- MCMissing
  Hazards = {"race", "kill", "crash", "network", "refuse"}
  MaxHazards = 0
SPECIFICATION Spec
PROPERTY PushesIfAhead
