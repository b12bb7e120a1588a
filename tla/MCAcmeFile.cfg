CONSTANTS
  Maxblock = 2
  Blockincr = 1
  Names = {"A", "B"}
  Strings <- MCStrings
  MaxText = 4
  MaxLog = 2
  MaxSeq = 3
  None = None
SPECIFICATION MCSpec
INVARIANTS
  ShownIsHeld
  BlocksApart
  CleanIsSaved
PROPERTY
  KeepsPromise
