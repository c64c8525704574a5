\* Three containers and three ids, so that one id is usize::MAX. Milliseconds
\* of 3 ns, seconds of 4 ms, u64 up to 11, usize up to 7 (a 32-bit build).
\* Callers and Values share their names with other sets, whose symmetry they have.
\* All four components may come to an end of their bounds.
SPECIFICATION OthersSpec
CONSTANTS
  Threads = {t1, t2}
  Guards = {g1, g2}
  Places = {p1, p2}
  Addrs = {a1, a2, a3, a4}
  None = None
  IdWidth = 3
  MaxMade = 3
  MsPerSec = 4
  NanosPerMilli = 3
  U64Max = 11
  UsizeMax = 7
  NoDuration = NoDuration
  Nil = Nil
  Closures = {c1, c2, c3}
  MaxScopes = 3
  Callers = {a1, a2, a3, a4}
  Vecs = {1, 2, 3}
  Compared <- Comparisons
  Values = {p1, p2}
SYMMETRY Symmetry
INVARIANTS TypeOK GuardsScanned PrivateCounters NeverShorter NothingForgotten CirclesAreRings
PROPERTIES LastInFirstOut AnswerTrue
CHECK_DEADLOCK FALSE
