CONSTANTS
  b1 = b1
  b2 = b2
  b3 = b3
  Brokers = {b1, b2, b3}
  MinInsync = 1
  Races = {}
  MaxValue = 2
  MaxChange = 3
SPECIFICATION Spec
CONSTRAINT OneAcked
ACTION_CONSTRAINT RestartsEarly
SYMMETRY Symmetry
INVARIANT TypeOK
INVARIANT AckedOnEveryIsrMember
CHECK_DEADLOCK FALSE
