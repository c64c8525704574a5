\* t1 reads and writes, t2 writes; t1's guards may be sent to t2. When the
\* bounds are used up nothing is left to do: no deadlock check.
SPECIFICATION Spec
CONSTANTS
  Threads = {t1, t2}
  Readers = {t1}
  Writers = {t1, t2}
  Guards = {g1, g2}
  None = None
  Flag = Flag
  MaxCounts = 3
  MaxFlags = 4
  MaxAccesses = 2
SYMMETRY Symmetry
INVARIANTS TypeOK RaceFree
PROPERTY ImplementsRwLock
CHECK_DEADLOCK FALSE
