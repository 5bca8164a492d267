CONSTANTS
  Chunk = 1
  MaxOut = 3
  MaxIn = 2
  MayLack = TRUE
SPECIFICATION Spec
INVARIANT SentInOrder
CHECK_DEADLOCK FALSE
