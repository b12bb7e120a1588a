CONSTANTS
  p1 = p1
  p2 = p2
  None = None
  Procs <- MCProcs
  Interps <- MCInterps
SPECIFICATION FairSpec
CHECK_DEADLOCK FALSE
INVARIANTS
  QLockExcludes
  NoStrayToken
  NoLostWakeup
PROPERTIES
  SleeperWakes
  OsleaveReturns
