\* Reed-Solomon through noisy cells, see MCEccExperiment
SPECIFICATION Spec
CONSTANTS
  mm = 4
  gfpoly <- Polynomial
  nroots = 4
  Side = 2
  ByteBits = 4
  BlocksWide = 5
  BlocksHigh = 2
  Iterations = 2
  Messages <- MCMessages
  NoisyAreas <- MCNoisyAreas
  Patterns <- MCPatterns
  MaxNoisy = 3
INVARIANT ToleratedIsRead
INVARIANT CorrectsUpToHalf
INVARIANT RegisterPredicts
INVARIANT FullDegreeIsCodeword
CHECK_DEADLOCK FALSE
