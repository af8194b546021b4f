SPECIFICATION Spec
CONSTANTS
  Cap <- MCCap
  Config <- MCConfig
  Busy <- MCBusy
  GopSize = "GOP_SIZE"
  LineCount = "EARLY_NOTIFY_LINE_COUNT"
INVARIANTS ParentsFirst RefusedIsReal ChangesAreSet TablesAsKnown AsideAsKnown
PROPERTY CallsEnd
CHECK_DEADLOCK FALSE
