\* Three threads share a control structure, see RsControl
SPECIFICATION Spec
CONSTANTS
  NumThreads = 3
  Iterations = 1
  Control <- MCControl
  NoControl = 0
INVARIANT TypeOK
INVARIANT UsersAreHolders
INVARIANT HoldersAlive
PROPERTY EndsClean
CHECK_DEADLOCK FALSE
