\* Three records and two members.
SPECIFICATION Spec
SYMMETRY Symmetry
CONSTANTS
  Offset <- MCOffset
  Member = {m1, m2}
  Nobody = Nobody
  MaxAttempts = 2
INVARIANT TypeOK
PROPERTY DoneForever
