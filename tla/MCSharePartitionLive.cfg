\* One lock and one silent member at a time; a log of two records.
SPECIFICATION Spec
CONSTANTS
  Member = {m1, m2}
  Nobody = Nobody
  MaxAttempts = 2
  MaxInflight = 2
  LockDuration = 1
  CounterMax = 100
  MaxOffset = 2
  MaxOverdue = 1
  AckRequests <- LiveAckRequests
  FetchRequests <- LiveFetchRequests
PROPERTY SilentMembersLoseLocks
