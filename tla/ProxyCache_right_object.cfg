SPECIFICATION Spec
CONSTANTS
  Threads = {t1, t2}
  Urls = {a, b, c}
  Big = {}
  None = none
  CACHE_LINE = 2
  MaxReq = 4
INVARIANT RightObject
