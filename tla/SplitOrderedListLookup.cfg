\* Lookups racing the insert and delete of their keys.
CONSTANTS
  t1 = t1
  t2 = t2
  t3 = t3
  Threads <- RaceThreads
  Script <- LookupScript
  WordBits = 4
  Null = Null
  ListHead = ListHead
  NoneV = NoneV
  NoOp = NoOp
  NoRes = NoRes
  Absent = Absent
SPECIFICATION Spec
PROPERTY LinSpec
\* Each thread makes a finite list of calls and then stops.
CHECK_DEADLOCK FALSE
