CONSTANTS
  Socks = {m1, m2, m3}
  None = None
  HighSock = 1
  MaxBacklog = 1
  MaxLookups = 1
  Allowed = {"lost"}
SPECIFICATION Spec
SYMMETRY Symmetry
INVARIANTS CorpsesSound NoUseAfterFree
PROPERTIES ReleasedWhenSettled
CHECK_DEADLOCK FALSE
