\* Elections alone: every node may stand in epoch 1, one node restarts, every fetch
\* is lost.
SPECIFICATION Spec
SYMMETRY Symmetry
ACTION_CONSTRAINT NoFetches
CHECK_DEADLOCK FALSE
CONSTANTS
  Node = {n1, n2, n3}
  Nil = Nil
  MaxEpoch = 1
  MaxLog = 0
  MaxInFlight = 2
  MaxRestarts = 1
INVARIANTS
  ElectedByMajority
  OneVotePerEpochUnlessAbandoned
  ElectionSafetyUnlessAbandoned
