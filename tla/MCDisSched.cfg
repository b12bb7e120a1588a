CONSTANTS
  i1 = i1
  i2 = i2
  i3 = i3
  i4 = i4
  c1 = c1
  c2 = c2
  q1 = q1
  q2 = q2
  None = None
  Interps <- MCInterps
  Clients <- MCClients
  Progs <- MCProgs
SYMMETRY Symmetry
SPECIFICATION Spec
INVARIANTS
  VMExclusive
  ProgInOnePlace
  InterpBound
