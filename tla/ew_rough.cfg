SPECIFICATION Spec
CONSTANTS
  l = l
  a = a
  b = b
  NoIO = NoIO
  IO = {a, b}
  Listeners = {}
  Reach <- SharedReach
  Habits = {"late", "resume", "reenter", "raise"}
  AcceptFails = TRUE
  MaxDepth = 2
  MaxInput = 2
SYMMETRY Connections
INVARIANT
  NoLostWakeup
