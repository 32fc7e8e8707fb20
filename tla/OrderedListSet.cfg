\* Three threads racing on one short list.
CONSTANTS
  t1 = t1
  t2 = t2
  t3 = t3
  Threads <- RaceThreads
  Script <- RaceScript
  Null = Null
  HeadLock = HeadLock
  NoOwner = NoOwner
  NoLock = NoLock
  NoOp = NoOp
  NoRes = NoRes
SPECIFICATION Spec
INVARIANT TypeOK
INVARIANT Sorted
INVARIANT MemorySafe
INVARIANT NoLeak
INVARIANT IterComplete
PROPERTY LinSpec
PROPERTY CallsReturn
\* Each thread makes a finite list of calls; the set is dropped at the end.
CHECK_DEADLOCK FALSE
