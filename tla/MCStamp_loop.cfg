CONSTANTS
  Configs <- MCNoAuthor
  Settle = 2
  MaxSaves = 1
  MaxFails = 0
SPECIFICATION FairSpec
PROPERTY CannotLoop
