\* The deadlock note of the containers is followed; reads may be nested.
SPECIFICATION Spec
CONSTANTS
  Threads = {t1, t2}
  Guards = {g1, g2}
  Iters = {}
  None = None
  MaxPanics = 0
  Discipline = "documented"
INVARIANT NoCircularWait
