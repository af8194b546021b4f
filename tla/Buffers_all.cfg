SPECIFICATION Spec
CONSTANTS
  Index = {1, 2}
  Dma = {d1, d2, d3}
  NoDma = NoDma
  BatchSize = 2
  MaxDpb = 0
  MinCount = 0
  Events <- NoEvents
SYMMETRY Symmetry
INVARIANTS FwUseIsKnown OneOwner RefsBalance NeverFails DeferredHasTimer
CHECK_DEADLOCK FALSE
