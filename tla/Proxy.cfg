SPECIFICATION ProxySpec
CONSTANTS
  Threads = {t1, t2}
  Urls = {a, b}
  Big = {b}
  None = none
  CACHE_LINE = 2
  MaxReq = 4
  BUFFER_SIZE = 2
INVARIANT ServedOnce
PROPERTY AllServed
