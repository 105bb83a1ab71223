\* Two epochs of leaders, logs of two records and one restart: replication, commit,
\* divergence.
SPECIFICATION Spec
SYMMETRY Symmetry
VIEW WithoutHistory
CHECK_DEADLOCK FALSE
CONSTANTS
  Node = {n1, n2, n3}
  Nil = Nil
  MaxEpoch = 2
  MaxLog = 2
  MaxInFlight = 1
  MaxRestarts = 1
INVARIANTS
  TypeOK
  CommitsOwnEpoch
  WaitersArePending
PROPERTY
  HwmAdvanceByMajority
