SPECIFICATION IrqSpec
CONSTANTS
  MaxSkip = 2  MaxCmds = 2  MaxMsgs = 2
  ForgetsAtOff = FALSE
  Events <- AllEvents
INVARIANTS
  TypeOK
  IrqBalance
  PoweredIsLoaded
PROPERTIES
  NothingStranded
  MessagesRead
  Collapses
