CONSTANTS
  b1 = b1
  b2 = b2
  b3 = b3
  Brokers = {b1, b2, b3}
  MinInsync = 2
  Races = {"lagging"}
  MaxValue = 1
  MaxChange = 4
SPECIFICATION SpecWithRaces
SYMMETRY Symmetry
ACTION_CONSTRAINT FirstHeardBehind
INVARIANT AckedRecordsSurvive
CHECK_DEADLOCK FALSE
