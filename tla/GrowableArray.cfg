\* get from two threads racing on growth and installs, then Drop.
CONSTANTS
  t1 = t1
  t2 = t2
  Threads <- MCThreads
  Requests <- MCRequests
  WordBits = 6
  SegLog = 2
  TagBits = 2
  MaxSegs = 8
  Null = Null
SPECIFICATION Spec
INVARIANT TypeOK
INVARIANT DropFreesAll
PROPERTY SlotSpec
PROPERTY GetReturns
\* The threads run a finite list of calls and the array is dropped once.
CHECK_DEADLOCK FALSE
