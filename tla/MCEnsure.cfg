SPECIFICATION EnsureSpec
CONSTANTS
  Ports = {p1, p2}
  MaxGeneration = 2
INVARIANTS StopSticks OneAcceptingServer NoOrphanServer NoLeakedSocket
PROPERTIES OkMeansServing EnsureReturns TransitionsEnd
