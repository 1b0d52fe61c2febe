SPECIFICATION Spec
CONSTANTS
  MaxStem = 3
  Keep = 1
  Log = log
  NoLog = none
  Bounds <- MCBounds
INVARIANTS
  WholeOrNone
CHECK_DEADLOCK FALSE
