\* One guard at a time; the Hash or Eq of a key may panic once per thread.
SPECIFICATION Spec
CONSTANTS
  Threads = {t1, t2}
  Guards = {g1}
  Iters = {}
  None = None
  MaxPanics = 1
  Discipline = "one_guard"
INVARIANT WaitsForReaders
CHECK_DEADLOCK FALSE
