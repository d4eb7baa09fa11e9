CONSTANTS
  BatchSize = 2
  QueueDepth = 4
  MaxPkts = 3
SPECIFICATION Spec
INVARIANT ReleasedAfterResponse
CHECK_DEADLOCK FALSE
