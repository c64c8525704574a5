\* One wait, adds do not overlap and are clones: it ends when it should. When
\* all values are dropped nothing is left to do: no deadlock check.
SPECIFICATION FairSpec
CONSTANTS
  Threads = {t1, t2}
  Handles = {wg, c1, c2}
  Main = wg
  None = None
  Amounts = {}
  MaxAdds = 4
  OneAdder = TRUE
  OneWait = TRUE
INVARIANT NothingLost
PROPERTY WaitReturns
CHECK_DEADLOCK FALSE
