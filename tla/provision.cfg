SPECIFICATION Spec
CONSTANTS
  Procs = {p1, p2}
  Agents = {a1}
  Ids = {x, y}
  None = None
  Absent = Absent
  Torn = Torn
  Foreign = Foreign
  MaxKeys = 3
  MaxActs = 4
SYMMETRY Interchangeable
INVARIANTS TypeOK OwnKeysOnly KeyUnderOneId ReportedPairStands
PROPERTY SignsAsReported
