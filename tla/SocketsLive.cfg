CONSTANTS
  Socks = {m1, m2}
  None = None
  HighSock = 1
  MaxBacklog = 0
  MaxLookups = 1
  Allowed = {}
SPECIFICATION FairSpec
PROPERTIES PeerCloseNoticed ConnectDecided LookupSettles
CHECK_DEADLOCK FALSE
