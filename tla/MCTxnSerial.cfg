CONSTANTS
  None = None
  Reaper = reaper
  Clients = {c1, c2}
  TwoPhase = {c2}
  Keeps = {c2}
  Handlers = {h1}
  Partitions = {p1, p2}
  MaxEpoch = 2
  MaxInit = 2
  MaxTxn = 2
  Serialised = TRUE
  SparesPrepared = TRUE
  Faults <- MCOneFault
SPECIFICATION Spec
INVARIANT TypeOK
INVARIANT OpenRecordsAreTracked
INVARIANT InstancesDistinct
PROPERTY KeepsItsPromise
SYMMETRY Symmetry
VIEW UpToCellNames
CONSTRAINT FaultsEarly
ACTION_CONSTRAINT SparesStranded
