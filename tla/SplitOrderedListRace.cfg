\* Three threads racing on one bucket at size 2.
CONSTANTS
  t1 = t1
  t2 = t2
  t3 = t3
  Threads <- RaceThreads
  Script <- RaceScript
  WordBits = 4
  Null = Null
  ListHead = ListHead
  NoneV = NoneV
  NoOp = NoOp
  NoRes = NoRes
  Absent = Absent
SPECIFICATION Spec
INVARIANT TypeOK
INVARIANT ListWellFormed
INVARIANT CountCoherent
PROPERTY LinSpec
PROPERTY CallsReturn
\* Each thread makes a finite list of calls and then stops.
CHECK_DEADLOCK FALSE
