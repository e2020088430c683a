SPECIFICATION Spec
CONSTANTS
  Threads = {t1, t2}
  Rows = {r1, r2}
  Engines = {"sqlite", "pgsql"}
  MaxDepth = 3
  MaxCalls = 5
INVARIANT CurrentIsInnermost
PROPERTY WholeOrNothing
PROPERTY TransactionsNest
PROPERTY CallsEnd
CHECK_DEADLOCK FALSE
