SPECIFICATION Spec
CONSTANTS
  Pieces <- MCPieces
  MaxPieces = 3
  EdgeWords <- MCEdgeWords
  IntMax = 127
CHECK_DEADLOCK FALSE
INVARIANTS
  TypeOK
  Absorbs
  StreamsAsWhole
  RoundTrip
  EncodesBits
  BuffersFit
  VectorsHold
  CountsBits
  HexIsDigest
