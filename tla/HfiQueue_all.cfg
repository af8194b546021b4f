SPECIFICATION FairSpec
CONSTANTS
  QSize = 5
  PktLens <- MCPktLens
  HugePkt = 3
  Queues <- MCQueues
  MaxSent = 4
INVARIANTS
  TypeOK
  CopyStaysInFreeSpace
  SleepMissesNothing
PROPERTIES
  IsChannel
  EverySentIsConsumed
