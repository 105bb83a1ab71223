CONSTANTS
  None = None
  Reaper = reaper
  Clients = {c1}
  TwoPhase = {}
  Keeps = {}
  Handlers = {h1}
  Partitions = {p1, p2}
  MaxEpoch = 4
  MaxInit = 2
  MaxTxn = 2
  Serialised = TRUE
  SparesPrepared = FALSE
  Faults <- MCOneFault
SPECIFICATION Spec
INVARIANT AllOrNothing
SYMMETRY Symmetry
