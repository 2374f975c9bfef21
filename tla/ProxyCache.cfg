SPECIFICATION Spec
CONSTANTS
  Threads = {t1, t2, t3}
  Urls = {a, b, c}
  Big = {c}
  None = none
  CACHE_LINE = 2
  MaxReq = 5
SYMMETRY Symmetry
INVARIANTS ReadersExcludeWriters LocksBalanced LineConsistent NoTornAnswer
