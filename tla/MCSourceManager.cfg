SPECIFICATION Spec
CONSTANTS
  t1 = t1
  t2 = t2
  t3 = t3
  h = h
  k = k
  NoOne = NoOne
  Loaded = {k}
  Threads <- MCThreads
  Paths <- MCPaths
  Rounds <- MCRounds
INVARIANT RowsBeforeReferences
INVARIANT InsertedOnce
INVARIANT TypesSettle
PROPERTY ThreadsEnd
CHECK_DEADLOCK FALSE
