SPECIFICATION FairSpec
CONSTANTS
  l = l
  a = a
  b = b
  NoIO = NoIO
  IO = {l, a}
  Listeners = {l}
  Reach <- OwnReach
  Habits = {"resume"}
  AcceptFails = TRUE
  MaxDepth = 1
  MaxInput = 2

PROPERTIES
  EventuallyServed
  EventuallyFlushed
