SPECIFICATION Spec
CONSTANTS
  a = a
  b = b
  None = None
  Conns = {a}
  Sizes = {1, 2}
  Window = 2
  Patient = FALSE
  Habits = {"malformed", "keyless", "silent", "close", "answer", "stop"}
  MaxMessages = 4
  MaxOut = 4
INVARIANTS
  LeavesOnce
PROPERTY LifeSpec
CHECK_DEADLOCK FALSE
