SPECIFICATION Spec
CONSTANTS
  MaxStem = 3
  Keep = 1
  Log = log
  NoLog = none
  Bounds <- MCBounds
INVARIANTS
  TypeOK
  FilesComplete
  TagMeansWhole
  DirectoryBounded
  NewestSurvives
CHECK_DEADLOCK FALSE
