SPECIFICATION Spec
CONSTANTS
  run = run
  once = once
  Agents = {run, once}
  Loops = {run}
  SeqLimit = 2
  EpochLimit = 4
  MaxNv = 3
  Outside = FALSE
INVARIANTS
  NeverTwice
