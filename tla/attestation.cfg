SPECIFICATION CycleSpec
CONSTANTS
  run = run
  once = once
  good = good
  bad = bad
  g = g
  b = b
  NoEntry = NoEntry
  NoQuote = NoQuote
  Garbled = Garbled
  Unparseable = Unparseable
  None = None
  DeviceId = DeviceId
  Ak = Ak
  Legacy = Legacy
  Agents = {run}
  Loops = {run}
  SeqLimit = 2
  EpochLimit = 4
  MaxNv = 4
  Outside = TRUE
  States = {good, bad}
  Selections = {"all", "few"}
  Digests = {g, b}
  Composite <- MCComposite
  SpecOf <- MCSpecOf
  StopSpec = "all"
  Refs <- MCRefs
  StopEpochs = {}
INVARIANTS WearBounded SteadyIsAppraised
PROPERTIES CountersRise CounterOrderIsStateOrder
