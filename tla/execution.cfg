SPECIFICATION FairSpec
CONSTANTS
  MaxSets = 3
  MaxCursors = 2
  Param = {1, 2}
  MaxPieces = 1
  MaxResults = 4
  Careful = TRUE
INVARIANTS ResultsOwnedOnce ResultsInOrder StatusesTellOutcome ValuesAreOfTheSet
PROPERTY NeedDataEnds
