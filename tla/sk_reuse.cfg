SPECIFICATION Spec
CONSTANTS
  a = a
  b = b
  c = c
  Objects = {a, b, c}
  Other = Other
  Nobody = Nobody
  Builds = {"posix"}
  MaxFd = 1
  Sizes = {0, 1}
  Hows <- MCHows
  Inherits = {}
PROPERTY FinaliserHarmless
