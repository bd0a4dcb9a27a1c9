SPECIFICATION Spec
CONSTANTS
  Sizes = {1, 3}
  Window = 2
  MayFinish = FALSE
  MaxBytes = 8
CHECK_DEADLOCK FALSE
INVARIANT DequeueReturns
