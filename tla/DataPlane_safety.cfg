SPECIFICATION Spec
CONSTANTS
  NbInst = 2
  RingCap = 2
  EthBatch = 3
  BatchIn = 2
  BatchOut = 2
  WorkerBurst = 1
  HasLimit = FALSE
  MaxPkts = 5
INVARIANTS
  TypeOK
  NothingLostOrDuplicated
  InFlightExact
  DealsOnlyWhatItHolds
PROPERTIES
  RefinesPathService
CHECK_DEADLOCK FALSE
