CONSTANTS
  p1 = p1
  p2 = p2
  p3 = p3
  c1 = c1
  c2 = c2
  v1 = v1
  v2 = v2
  None = None
  Progs <- MCProgs
  Chans <- MCChans
  Kprocs <- MCKprocs
  Vals <- MCVals
  Cap <- MCCap
  Alts <- MCAlts
SYMMETRY Symmetry
SPECIFICATION MCSpec
INVARIANTS
  Queued
  NoneInVain
  NotLeftAsleep
PROPERTY
  KeepsPromise
