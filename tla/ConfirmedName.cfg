CONSTANTS
  Names = {n1, a1}
  Addrs = {a1, a2}
  Socks = {m1}
  Requests = {r1}
  CacheSize = 2
  MinKeep = 1
  DefaultKeep = 1
  MaxKeep = 1
  Ttls = {3}
  MaxTime = 2
  MaxAnswers = 2
  None = None
SPECIFICATION Spec
PROPERTY ConfirmedNameIsKept
CHECK_DEADLOCK FALSE
