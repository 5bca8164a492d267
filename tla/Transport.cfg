CONSTANTS
  Chunk = 1
  MaxOut = 3
  MaxIn = 2
  MayLack = TRUE
SPECIFICATION FairSpec
INVARIANTS TypeOK QueuesCounted BytesInPlace PhasesAgree FreedIsNotUsed
PROPERTIES NothingInClear QueueDrains BytesReported
CHECK_DEADLOCK FALSE
