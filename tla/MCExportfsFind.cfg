CONSTANTS
  e1 = e1
  s1 = s1
  s2 = s2
  s3 = s3
  m1 = m1
  m2 = m2
  m3 = m3
  m4 = m4
  t1 = t1
  t2 = t2
  t3 = t3
  None = None
  Exports <- MCExports
  Slaves <- MCSlaves
  Msgs <- MCMsgs4
  Tags <- MCTags
SYMMETRY Symmetry
SPECIFICATION MCSpec4
CHECK_DEADLOCK FALSE
INVARIANT
  Findable
