SPECIFICATION FairSpec
CONSTANTS
  MaxEpoch = 3
  Device = "A"
  Signed <- OneRelease
  Records <- OneRelease
  NoFile = NoFile
  Service = Service
  c1 = c1
  c2 = c2
  Commands = {c1, c2}
  Ops = {"trip", "recover", "define"}
  Outside = FALSE
  Faults = FALSE
  Gateway = Gateway
  NoOne = NoOne
INVARIANTS
  CommandsMoveAsAsked
  ProbeConfirmsTrip
  RecoverSucceedsReleased
  EndsAsReported
PROPERTIES
  LockWaitEnds
  ProbeReturns
  QuestionAnswered
