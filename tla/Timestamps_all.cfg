SPECIFICATION Spec
CONSTANTS
  Time <- FourTimes
  Window = 2
  IntMax = 1
  MaxInFlight = 4
  MaxQueued = 5
INVARIANTS WindowIsRecent
PROPERTIES PicturesKeepTime
