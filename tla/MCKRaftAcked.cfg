\* Violated: an acknowledged record is truncated away by its own leader.
SPECIFICATION Spec
SYMMETRY Symmetry
CHECK_DEADLOCK FALSE
CONSTANTS
  Node = {n1, n2, n3}
  Nil = Nil
  MaxEpoch = 2
  MaxLog = 2
  MaxInFlight = 1
  MaxRestarts = 0
INVARIANT AckedRecordsSurvive
