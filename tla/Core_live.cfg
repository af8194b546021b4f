SPECIFICATION Spec
CONSTANTS
  a = a  b = b
  Inst <- TwoInst
  FwUnload = FALSE
  Events <- LiveEvents
PROPERTIES
  CallsReturn
