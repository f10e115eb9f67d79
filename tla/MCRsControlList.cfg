\* Is the list of control structures protected?
SPECIFICATION SafeSpec
CONSTANTS
  NumThreads = 2
  Iterations = 1
  Control <- MCControl
  NoControl = 0
INVARIANT ListIsProtected
CHECK_DEADLOCK FALSE
