SPECIFICATION Spec
CONSTANTS
  a = a  b = b
  Inst <- TwoInst
  FwUnload = TRUE
  Events <- AllEvents
SYMMETRY Sym
INVARIANTS
  TypeOK
  ListsAreSound
  SomeoneWaits
  FirmwareAgrees
  HoldersAgree
PROPERTIES
  OnlyFailedOpenFreesHeld
