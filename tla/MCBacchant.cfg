SPECIFICATION Spec
CONSTANTS
  FirstLength = 65
  LastLength = 105
  Lengths <- MCLengths
  Ratios <- AllShapes
  Misreads <- MCMisreads
  Encoders = {"closure", "core-rust"}
  ChunkSize = 4
INVARIANTS
  TypeOK
  LayoutSound
  ReadsPrefix
  KeepsUpToLength
  OneShotReads
  NoiseTolerated
PROPERTIES
  Ends
CHECK_DEADLOCK FALSE
