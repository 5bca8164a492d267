CONSTANTS
  Socks = {m1, m2}
  None = None
  HighSock = 3
  MaxBacklog = 1
  MaxLookups = 1
  Allowed = {}
SPECIFICATION Spec
SYMMETRY Symmetry
INVARIANTS TypeOK RegistrySound MuxSound FlagsMatchLink WaitsForAnswer
PROPERTIES OwnerReleases ImplementsLife
CHECK_DEADLOCK FALSE
