CONSTANTS
  p1 = p1
  p2 = p2
  p3 = p3
  p4 = p4
  None = None
  Procs <- MCProcs
SPECIFICATION RWFairSpec
INVARIANT
  WriterAlone
PROPERTY
  Served
