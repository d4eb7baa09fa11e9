\* A batch that does not always fit in the queue pair at once, and more answers in it
\* than a burst takes; four batches.
CONSTANTS
  BatchSize = 2
  QueueDepth = 3
  MaxPkts = 8
SPECIFICATION FairSpec
INVARIANTS TypeOK SearchedOnce CountersExact
PROPERTY PushReturns
\* All packets searched and freed.
CHECK_DEADLOCK FALSE
