SPECIFICATION FairSpec
CONSTANTS
  Sizes = {1, 3, 4}
  Window = 1
  MayFinish = TRUE
  MaxBytes = 10
INVARIANTS
  TypeOK
  DequeueReturns
  QueueMatchesBuffer
PROPERTIES
  StreamSpec
  EventuallyCompleted
CHECK_DEADLOCK FALSE
