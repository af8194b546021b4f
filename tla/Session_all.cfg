SPECIFICATION FairSpec
CONSTANTS
  Faults <- AllFaults
INVARIANTS
  TypeOK
  SequencesNest
  PauseIsSound
  NoSpuriousError
  PortsAgree
  OnlyHangsTimeOut
PROPERTIES
  WaitedForComes
