SPECIFICATION Spec
CONSTANTS
  Index = {1, 2}
  Dma = {d1, d2, d3}
  NoDma = NoDma
  BatchSize = 2
  MaxDpb = 0
  MinCount = 0
  Events <- Late
SYMMETRY Symmetry
INVARIANT NeverFails
CHECK_DEADLOCK FALSE
