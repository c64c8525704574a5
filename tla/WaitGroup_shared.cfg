\* Several waiters, cancelled waits, direct adds; adds do not overlap. A
\* second wait may wait for ever, so deadlock is not an error of this run.
SPECIFICATION Spec
CONSTANTS
  Threads = {t1, t2, t3}
  Handles = {wg, c1, c2}
  Main = wg
  None = None
  Amounts = {0, 2}
  MaxAdds = 3
  OneAdder = TRUE
  OneWait = FALSE
SYMMETRY Symmetry
INVARIANTS TypeOK NeverOvercounted
PROPERTY ImplementsLatch
CHECK_DEADLOCK FALSE
