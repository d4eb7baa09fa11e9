SPECIFICATION FairSpec
CONSTANTS
  NbInst = 2
  RingCap = 1
  EthBatch = 2
  BatchIn = 1
  BatchOut = 1
  WorkerBurst = 1
  HasLimit = TRUE
  MaxPkts = 5
INVARIANTS
  NoCircularWait
  PathBounded
PROPERTIES
  EveryPacketLeaves
  SignalStopsMain
  LimitStopsBusyMain
  RunEndsUnlessBlocked
CHECK_DEADLOCK FALSE
