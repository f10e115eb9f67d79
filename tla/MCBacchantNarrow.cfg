SPECIFICATION Spec
CONSTANTS
  FirstLength = 65
  LastLength = 66
  Lengths <- MCLengths
  Ratios <- AllShapes
  Misreads = {}
  Encoders = {"closure"}
  ChunkSize = 4
INVARIANTS
  RoundTrip
CHECK_DEADLOCK FALSE
