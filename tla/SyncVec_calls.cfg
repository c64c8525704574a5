\* All methods; Index and get_uncheck only while nobody writes. A thread that
\* writes while it holds a guard waits for itself: no deadlock check.
SPECIFICATION Spec
CONSTANTS
  Threads = {t1, t2}
  Guards = {g1}
  None = None
  Garbage = Garbage
  Panic = Panic
  Values = {a, b}
  MaxLen = 2
  WithIndex = TRUE
  Contract = TRUE
SYMMETRY Symmetry
INVARIANTS TypeOK StableViews
PROPERTIES ImplementsAtomic Conserved
CHECK_DEADLOCK FALSE
