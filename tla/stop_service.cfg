SPECIFICATION Spec
CONSTANTS
  MaxEpoch = 4
  Device = "A"
  Signed <- MCSigned
  Records <- MCRecords
  NoFile = NoFile
  Service = Service
  c1 = c1
  c2 = c2
  Commands = {c1}
  Ops = {"trip", "recover", "status", "define", "define_running"}
  Outside = TRUE
  Faults = TRUE
  Gateway = Gateway
  NoOne = NoOne
INVARIANTS
  TypeOK
  RunsOnlyReleased
  ToldStopHolds
  ChangedIsOwnStep
PROPERTIES
  KeepsPromise
