\* Two threads fill the map past size * LOAD_FACTOR, double size, and then
\* use the buckets the doubling split off.
CONSTANTS
  t1 = t1
  t2 = t2
  t3 = t3
  Threads <- GrowThreads
  Script <- GrowScript
  WordBits = 4
  Null = Null
  ListHead = ListHead
  NoneV = NoneV
  NoOp = NoOp
  NoRes = NoRes
  Absent = Absent
SPECIFICATION Spec
INVARIANT SplitOrderSound
PROPERTY InsertsInOrder
PROPERTY LinSpec
\* Each thread makes a finite list of calls and then stops.
CHECK_DEADLOCK FALSE
