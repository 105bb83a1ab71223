--------------------------- MODULE MCShareRecords ---------------------------
EXTENDS ShareRecords, TLC

Symmetry == Permutations(Member)

MCOffset == 0 .. 2

=============================================================================
