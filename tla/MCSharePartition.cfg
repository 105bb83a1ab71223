\* Two members, a log of three records, every interleaving of their requests.
SPECIFICATION Spec
SYMMETRY Symmetry
VIEW WithoutDirty
CONSTANTS
  Member = {m1, m2}
  Nobody = Nobody
  MaxAttempts = 2
  MaxInflight = 2
  LockDuration = 1
  CounterMax = 100
  MaxOffset = 3
  MaxOverdue = 1
  AckRequests <- MCAckRequests
  FetchRequests <- MCFetchRequests
INVARIANTS
  TypeOK
  WindowIntegrity
  CompletionsCountedOnce
  MarkersNeverDelivered
PROPERTIES
  LocksHonoured
  RefinesRecords
