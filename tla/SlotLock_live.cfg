\* One guard at a time per thread, no panics: nobody waits for ever.
SPECIFICATION FairSpec
CONSTANTS
  Threads = {t1, t2, t3}
  Guards = {g1, i1}
  Iters = {i1}
  None = None
  MaxPanics = 0
  Discipline = "one_guard"
INVARIANT NoCircularWait
PROPERTIES WriterEnters ReaderAdmitted
