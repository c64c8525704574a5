\* All methods of the maps; Index, and items that outlive their iterator, only
\* while nobody writes. A thread that writes while it holds a guard waits for
\* itself: no deadlock check.
SPECIFICATION Spec
CONSTANTS
  Threads = {t1, t2}
  Guards = {g1}
  None = None
  Garbage = Garbage
  Panic = Panic
  Entries <- SomeEntries
  UserPanics = TRUE
SYMMETRY Symmetry
INVARIANT WellFormed
PROPERTIES ImplementsMap PositionsKept
CHECK_DEADLOCK FALSE
