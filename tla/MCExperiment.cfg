SPECIFICATION Spec
CONSTANTS
  g1 = g1
  g2 = g2
  r1 = r1
  r2 = r2
  Generators <- MCGenerators
  Runners <- MCRunners
  Main = Main
  NumMatrices = 5
  ChunkSize = 2
  QueueSize = 1
  NoEntry = NoEntry
INVARIANTS
  TypeOK
  EveryMatrixOnce
  RunnersStopLast
PROPERTIES
  Terminates
