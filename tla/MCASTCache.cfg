SPECIFICATION Spec
CONSTANTS
  t1 = t1
  t2 = t2
  f1 = f1
  f2 = f2
  f3 = f3
  f4 = f4
  NoOne = NoOne
  CacheLimit = 1
  MaxRequests = 5
  Threads <- MCThreads
  Files <- MCFiles
INVARIANT CacheBounded
PROPERTY LeastRecentlyUsedGoes
CHECK_DEADLOCK FALSE
