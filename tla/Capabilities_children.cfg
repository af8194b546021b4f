SPECIFICATION Spec
CONSTANTS
  Cap <- MCCap
  Config <- MCDriver
  Busy = {}
  GopSize = "GOP_SIZE"
  LineCount = "EARLY_NOTIFY_LINE_COUNT"
INVARIANT ChildrenReached
CHECK_DEADLOCK FALSE
