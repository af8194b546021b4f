SPECIFICATION Spec
CONSTANTS
  Faults <- NoCapacity
INVARIANTS
  HardwareAnswers
