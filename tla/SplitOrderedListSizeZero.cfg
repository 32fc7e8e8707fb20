\* Three inserts each overtaken by the delete of their key: three spurious
\* doublings take size past the word.
CONSTANTS
  t1 = t1
  t2 = t2
  t3 = t3
  Threads <- WrapThreads
  Script <- ZeroScript
  WordBits = 4
  Null = Null
  ListHead = ListHead
  NoneV = NoneV
  NoOp = NoOp
  NoRes = NoRes
  Absent = Absent
SPECIFICATION Spec
INVARIANT SizePowerOfTwo
CHECK_DEADLOCK FALSE
