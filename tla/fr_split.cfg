SPECIFICATION Spec
CONSTANTS
  Requests <- MCRequests
  Frames <- MCFrames
  MaxMessages = 3
  Chunks = {1, 2, 3, 7}
  MediumMax = 126
  MaxArgs = 126
INVARIANTS
  TypeOK
  DeliveredAsSent
  NothingHeldBack
CHECK_DEADLOCK FALSE
