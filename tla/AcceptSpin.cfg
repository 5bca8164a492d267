CONSTANTS
  Socks = {m1, m2}
  None = None
  HighSock = 2
  MaxBacklog = 1
  MaxLookups = 1
  Allowed = {}
SPECIFICATION FairSpec
PROPERTY AcceptReturns
CHECK_DEADLOCK FALSE
