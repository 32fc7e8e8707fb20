\* A delete overtakes the count.fetch_add of the insert it undoes; the next
\* insert then sees a wrapped count.
CONSTANTS
  t1 = t1
  t2 = t2
  t3 = t3
  Threads <- WrapThreads
  Script <- WrapScript
  WordBits = 4
  Null = Null
  ListHead = ListHead
  NoneV = NoneV
  NoOp = NoOp
  NoRes = NoRes
  Absent = Absent
SPECIFICATION Spec
PROPERTY ResizeDecisionSound
CHECK_DEADLOCK FALSE
