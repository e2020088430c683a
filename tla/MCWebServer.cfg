SPECIFICATION Spec
CONSTANTS
  t1 = t1
  t2 = t2
  s1 = s1
  s2 = s2
  NoSession = NoSession
  Main = t1
  Threads <- MCThreads
  SessionIds <- MCSessionIds
  Lifetime = 2
  ClearThreshold = 0
  MaxTime = 2
  MaxRequests = 4
INVARIANT ContextMatchesRequest
INVARIANT NoServiceAfterLogout
PROPERTY SessionsEndForAReason
PROPERTY RequestsEnd
CHECK_DEADLOCK FALSE
