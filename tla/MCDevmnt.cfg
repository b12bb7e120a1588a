CONSTANTS
  p1 = p1
  p2 = p2
  None = None
  Procs <- MCProcs
  Hdrs <- MCHdrs
ACTION_CONSTRAINT LowestTag
SPECIFICATION FairSpec
INVARIANTS
  TagsKept
  OneReader
PROPERTIES
  Honoured
  Returns
