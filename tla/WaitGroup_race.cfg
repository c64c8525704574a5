\* Two threads clone at the same time.
SPECIFICATION Spec
CONSTANTS
  Threads = {t1, t2, t3}
  Handles = {wg, c1, c2}
  Main = wg
  None = None
  Amounts = {}
  MaxAdds = 2
  OneAdder = FALSE
  OneWait = TRUE
PROPERTY DoneMeansAlone
CHECK_DEADLOCK FALSE
