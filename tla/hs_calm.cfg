SPECIFICATION FairSpec
CONSTANTS
  a = a
  b = b
  None = None
  Conns = {a, b}
  Sizes = {1, 2}
  Window = 1
  Patient = TRUE
  Habits = {"silent", "close", "stop"}
  MaxMessages = 3
  MaxOut = 3
INVARIANTS
  TypeOK
  ServerSurvives
  RegisteredHaveSession
PROPERTY EventuallyClosed
CHECK_DEADLOCK FALSE
