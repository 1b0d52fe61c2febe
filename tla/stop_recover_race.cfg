SPECIFICATION Spec
CONSTANTS
  MaxEpoch = 4
  Device = "A"
  Signed <- MCSigned
  Records <- MCRecords
  NoFile = NoFile
  Service = Service
  c1 = c1
  c2 = c2
  Commands = {c1}
  Ops = {"recover"}
  Outside = TRUE
  Faults = FALSE
  Gateway = Gateway
  NoOne = NoOne
INVARIANTS
  RecoverSucceedsReleased
