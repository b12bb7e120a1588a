CONSTANTS
  i1 = i1
  i2 = i2
  i3 = i3
  i4 = i4
  c1 = c1
  c2 = c2
  q1 = q1
  q2 = q2
  None = None
  Interps <- MCInterps2
  Clients <- MCClients2
  Progs <- MCProgs
SPECIFICATION LiveSpec
PROPERTIES
  AcquireReturns
  KilledDies
  ReadyRuns
