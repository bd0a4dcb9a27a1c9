SPECIFICATION Spec
CONSTANTS
  l = l
  a = a
  b = b
  NoIO = NoIO
  IO = {l, a, b}
  Listeners = {l}
  Reach <- OwnReach
  Habits = {"resume"}
  AcceptFails = TRUE
  MaxDepth = 2
  MaxInput = 2
SYMMETRY Connections
INVARIANTS
  TypeOK
  WorkerSurvives
  ClosedIsRemoved
  OnCloseOnce
PROPERTY NothingNewAfterClose
