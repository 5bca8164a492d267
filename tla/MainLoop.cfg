CONSTANTS
  Keys = {k1, k2}
  MaxTimers = 2
  MaxTime = 3
SPECIFICATION FairLoopSpec
INVARIANTS LoopTypeOK ListSound WalkSound
PROPERTIES DelComplete CheckComplete DueTimersRun
CHECK_DEADLOCK FALSE
