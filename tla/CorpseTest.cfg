CONSTANTS
  Socks = {m1, m2}
  None = None
  HighSock = 2
  MaxBacklog = 0
  MaxLookups = 1
  Allowed = {}
SPECIFICATION Spec
INVARIANT CorpseTestIsSafe
CHECK_DEADLOCK FALSE
