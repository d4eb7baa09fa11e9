SPECIFICATION FairSpec
CONSTANTS
  NbInst = 2
  RingCap = 1
  EthBatch = 2
  BatchIn = 1
  BatchOut = 1
  WorkerBurst = 1
  HasLimit = FALSE
  MaxPkts = 6
PROPERTIES
  WorkersStop
CHECK_DEADLOCK FALSE
