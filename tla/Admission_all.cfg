SPECIFICATION Spec
CONSTANTS
  a = a  b = b
  Inst <- TwoInst
  Size = {1, 2}
  Rate = {1, 2}
  Config <- Kinds
  Cores = {1, 2}
  MaxSessions = 4
  MaxMbps = 3
  MaxMbpf = 3
  MaxRtMbpf = 3
  LargeSize = 2
  MaxLarge = 1
SYMMETRY Sym
INVARIANTS AdmittedFit OverloadIsRelieved
