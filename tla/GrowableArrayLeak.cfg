\* Drop after a get whose index has SegSize - 1 as an upper digit.
CONSTANTS
  t1 = t1
  t2 = t2
  Threads <- MCThreads
  Requests <- LeakRequests
  WordBits = 6
  SegLog = 2
  TagBits = 2
  MaxSegs = 8
  Null = Null
SPECIFICATION Spec
INVARIANT DropFreesAll
CHECK_DEADLOCK FALSE
