SPECIFICATION Spec
CONSTANTS
  a = a
  b = b
  None = None
  Conns = {a, b}
  Sizes = {2}
  Window = 1
  Patient = FALSE
  Habits = {}
  MaxMessages = 3
  MaxOut = 3
INVARIANTS
  ServerSurvives
CHECK_DEADLOCK FALSE
