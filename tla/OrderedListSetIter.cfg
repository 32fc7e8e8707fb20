\* A reference returned by Iter::next outlives the guard that kept its node.
CONSTANTS
  t1 = t1
  t2 = t2
  t3 = t3
  Threads <- IterThreads
  Script <- IterScript
  Null = Null
  HeadLock = HeadLock
  NoOwner = NoOwner
  NoLock = NoLock
  NoOp = NoOp
  NoRes = NoRes
SPECIFICATION Spec
INVARIANT IterRefsValid
\* Each thread makes a finite list of calls; the set is dropped at the end.
CHECK_DEADLOCK FALSE
