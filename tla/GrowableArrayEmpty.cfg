\* Drop of an array on which get was never called.
CONSTANTS
  t1 = t1
  t2 = t2
  Threads <- MCThreads
  Requests <- EmptyRequests
  WordBits = 6
  SegLog = 2
  TagBits = 2
  MaxSegs = 8
  Null = Null
SPECIFICATION Spec
INVARIANT DropNeverCrashes
CHECK_DEADLOCK FALSE
