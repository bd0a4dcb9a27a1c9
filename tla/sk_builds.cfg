SPECIFICATION Spec
CONSTANTS
  a = a
  b = b
  c = c
  Objects = {a, b, c}
  Other = Other
  Nobody = Nobody
  Builds = {"posix", "mswin"}
  MaxFd = 1
  Sizes = {0, 1}
  Hows = {3}
  Inherits = {"mswin"}
SYMMETRY Userdata
INVARIANTS
  TypeOK
  NoLeak
  HoldsOwn
  StreamsUnmixed
  ModeKept
  BufferHolds
  IsClosedTells
  SelectTells
PROPERTY DescriptorSpec
