\* get(usize::MAX).
CONSTANTS
  t1 = t1
  t2 = t2
  Threads <- MCThreads
  Requests <- MaxRequests
  WordBits = 6
  SegLog = 2
  TagBits = 2
  MaxSegs = 8
  Null = Null
SPECIFICATION Spec
PROPERTY HeightMonotonic
CHECK_DEADLOCK FALSE
