\* Only the items of iterators are used without a lock.
SPECIFICATION Spec
CONSTANTS
  Threads = {t1, t2}
  Guards = {g1}
  None = None
  Garbage = Garbage
  Panic = Panic
  Values = {a, b}
  MaxLen = 2
  WithIndex = FALSE
  Contract = FALSE
INVARIANT ReaderNeverMeetsWriter
CHECK_DEADLOCK FALSE
