--------------------------- MODULE MCKeysetCursor ---------------------------
EXTENDS KeysetCursor, TLC
MCOffsets == {-4, -1, 1, 2}
Interchangeable == Permutations(SavepointNames)
=============================================================================
