CONSTANTS
  None = None
  Reaper = reaper
  Clients = {c1, c2}
  TwoPhase = {c2}
  Keeps = {c2}
  Handlers = {h1}
  Partitions = {p1, p2}
  MaxEpoch = 6
  MaxInit = 2
  MaxTxn = 1
  Serialised = TRUE
  SparesPrepared = TRUE
  Faults <- MCOneFault
SPECIFICATION FairSpec
PROPERTY PartialAbortCompletes
