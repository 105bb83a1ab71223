\* Two brokers, one member, two records: a leadership change, a crash and a failure; or two
\* leadership changes.
SPECIFICATION Spec
VIEW WithoutCounters
CHECK_DEADLOCK FALSE
CONSTANTS
  Broker = {b1, b2}
  Host = b1
  Member = {m1}
  Nobody = Nobody
  None = None
  MaxAttempts = 2
  MaxInflight = 2
  LockDuration = 1
  CounterMax = 100
  MaxOffset = 2
  MaxEpoch = 3
  MaxCrashes = 1
  MaxFailures = 1
  AckRequests <- Single
  FetchSizes <- All
INVARIANTS
  TypeOK
  NoRecordSkipped
  LocalCleanIsDurable
CONSTRAINT ThirdEpochUndisturbed
