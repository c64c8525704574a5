\* Every call pattern, also those that block on the caller itself: then all
\* threads may stop, so deadlock is not an error of this run.
SPECIFICATION Spec
CONSTANTS
  Threads = {t1, t2, t3}
  Guards = {g1, g2, i1}
  Iters = {i1}
  None = None
  MaxPanics = 1
  Discipline = "any"
SYMMETRY Symmetry
INVARIANTS TypeOK Exclusion CountersExact
PROPERTY ImplementsRwLock
CHECK_DEADLOCK FALSE
