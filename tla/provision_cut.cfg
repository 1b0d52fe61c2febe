SPECIFICATION Spec
CONSTANTS
  Procs = {p1, p2}
  Agents = {a1}
  Ids = {x, y}
  None = None
  Absent = Absent
  Torn = Torn
  Foreign = Foreign
  MaxKeys = 2
  MaxActs = 3
SYMMETRY Interchangeable
INVARIANT KeyIsThereFirst
