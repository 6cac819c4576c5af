SPECIFICATION Spec
CONSTANTS
  Ports = {p1, p2}
  MaxGeneration = 2
INVARIANT RunningServerAccepts
CHECK_DEADLOCK FALSE
