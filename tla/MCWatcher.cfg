CONSTANTS
  root = root
  d = d
  e = e
  n = n
  m = m
  Root = root
  Dirs = {d, e}
  Files = {n, m}
  In <- MCIn
  RulesFile = n
  Rules <- MCRules
  Buffer = 2
  Debounce = 1
  MaxDebounce = 2
  MaxChanges = 4
  MaxFails = 1
SPECIFICATION FairSpec
INVARIANTS TypeOK ChangesAreScheduled NewDirsAreWatched DueByMaxDebounce
PROPERTY EventuallySynced
