CONSTANTS
  r1 = r1
  r2 = r2
  w1 = w1
  w2 = w2
  None = None
  Readers <- MCReaders
  Writers <- MCWriters
  Limit = 4
  Maxatomic = 2
  Reads <- MCReads
  Writes <- MCWrites
  MaxBytes = 5
  MaxRef <- MCMaxRef
SPECIFICATION FairSpec
INVARIANTS
  InOrder
  Counted
  EofFinal
PROPERTIES
  HangupReturns
  WriterResumes
